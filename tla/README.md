# Verification of lars-study

TLA+ models of the reactor, the route service, the agent and the reporter of this
repository, with the messages they exchange, the TLC runs that check them on small
instances, and TLAPS proofs of what matters most for every value of the parameters.

## The system

`lars_reactor` is an epoll reactor: an `event_loop` per thread, a `task_queue`
through which other threads hand tasks to a loop, a `tcp_server` whose main loop
accepts connections and gives each to an IO loop, a `tcp_client`, and UDP
counterparts. On top of it run `lars_dns` (serves routes kept in MySQL and pushes
their changes to subscribers), `lars_agent` (load balancing on each machine, work
in progress: it does not compile yet), `lars_reporter` (stores call statistics)
and a client API.

| component | state | operations | interacts by | hard behaviour | what makes it correct |
|---|---|---|---|---|---|
| task queue, wake-up (`task_queue.cc`, `event_loop.cc`) | queue, eventfd counter, `deal_task`'s local queue | `add`, `get`, `deal_task`, `epoll_wait` | any thread posts, the loop's thread runs | pushes and eventfd writes interleave with read and swap | no lost wake-up; every task once, in order, in the end |
| TCP server and connections (`tcp_server.cc`, `tcp_conn.cc`) | `m_conns`, io events, `t_event_loop_conns`, shared references, descriptors, `m_obuf` | accept, `listen_read`, read, write, `send`, `close`, `delete_conn_inloop`, `send_task` | tasks between main and IO loops, callbacks | descriptor numbers reused while tasks about the former owner are queued; HUP after close; last reference dropped in either thread; EMFILE | tables only name live, open connections of their loop; deletes hit the connection that posted them; nothing leaks; output is never stranded |
| loop threads (`event_loop_thread*.cc`) | `m_loop`, condition variable, `m_loops`, `m_next` | `start`, `thread_func`, `get_next_loop` | condition variable; callers in any thread | lost notification, spurious wake-up; concurrent `get_next_loop` | the pool holds loops that run; the index is in range |
| buffers, framing (`buf_pool.cc`, `io_buf.cc`, `reactor_buf.cc`, `handle_read`) | free lists, chained buffers, read position | `alloc_buf`, `revert`, `pop`, `read_data`, `write2fd` | lock of the pool | limit of the pool; several messages in one read | a buffer has one owner; messages are parsed once, in order |
| TCP client (`tcp_client.cc`) | `m_connected`, events, buffers | connect, `handle_connect`, read, write, `clean_conn` | its loop | reconnect on the same socket | messages are parsed once, in order |
| UDP server and client, handler map (`udp_server.cc`, `udp_client.cc`, `handler.h`) | `m_client_addr`, `m_handler_map` | `do_read`, `send`, `register_handler` | one handler map for all servers of a process | registrations race, the last one wins | an answer goes to the sender of its request |
| DNS routes (`dns_route.cc`) | `m_data_pointer`, `m_tmp_pointer`, `m_version`, last load | `build_maps`, `load_version`, `load_route_data`, `swap`, `load_changes`, `remove_changes`, `get_hosts` | shared pointers under a lock, MySQL, `send_task` | readers keep maps over swaps; queries fail between steps; transactions between queries | readers see complete snapshots that do not change; changes are not forgotten |
| DNS subscriptions (`subscribe.cc`, `dns_server.cc`) | per-loop subscription and publish tables | `subscribe`, `publish`, `push_change_task`, `get_route` | publish tasks in every loop | descriptors stay subscribed after close and are reused | subscribers get the changes of their keys, never older routes than before |
| agent (`lars_agent`) | `m_lb_map` of three `route_lb`, status of each `load_balance`, tasks of the dns client | `get_host`, `update_host`, `pull`, `deal_recv_route`, start-up | UDP threads, the dns client's loop, the main thread | no locks; a `load_balance` deleted with a task queued; the dns client starts last | answers match requests; a known key has been pulled, or is about to be |
| reporter (`lars_reporter`) | reports in store loops, rows of `ServerCallStatus` | `get_report_status`, `add_task`, `store` | IO loops share the pool of store loops | order between store loops; refused values; failing queries | a row is one result of one report; every result is stored |
| messages (`lars.proto`, `lars.pb.*`) | fields | set, count, write, parse, merge | bytes between the processes | borders of the encodings; signed numbers; missing and repeated fields | what was written is what is read |
| keys (`dns_route.cc`, `subscribe.cc`) | none | make a key of two ids, split it | routes, subscriptions, `route_lb` | negative ids, narrowing to int | keys are unique; the split gives the ids back |
| API (`lars_api.cc`) | sequence number | `get_host` | see "Not modelled" | | |

## Modules

`TaskChannel` and `RouteRegister` are abstract specifications: what the callers
of `event_loop::add_task` and of `route::get_hosts` may rely on. `TaskQueue` and
`RouteSwap` are the code, and implement them. `TcpServer` and `DnsPush` are built
on the abstract ones: a loop's tasks there are a plain sequence, routes are
replaced in one step. `Reporter` composes `LoopPool` and `LarsProto`, `Agent` builds
on `LarsProto`, `DnsPush` on `KeyCodec`. The theorems about a module `M` are in
`M_proofs`, except that those about `LoopPool` are in `Reporter_proofs` and those about
`KeyCodec` in `DnsPush_proofs`, next to what uses them. `LarsProto_proofs` begins with
what several of the others need of sequences and of least and greatest numbers.

`Buffers` is the code below the connections of `TcpServer`, which counts messages
where `Buffers` cuts bytes into them.

In every module a definition whose comment describes it as the code *without* or
*with* something else (`AddWriteBatched`, `CloseAlways`, `CheckNothing`, ...) is a
plausible mistake kept beside the real definition: none is part of a
specification. `PROJECT.json` pairs each with the property that must fail when it
takes the place of the definition that follows it.

### TaskQueue

One action per step of `task_queue::add` (call, push under the lock, write of the
eventfd) for each thread, and of the loop's thread: `Wake` (epoll reports the
eventfd), `Read` and `Swap` (`get`), `RunTask`, `CallbackReturns`, `BackToWait`.
`OtherEvent` is the callback of any other descriptor, in which, as in a task, the
loop may post to itself. The critical sections hold one queue operation each and
are single steps. The refinement maps the channel's pending tasks to the local
queue of `deal_task` followed by `m_queue`.

### TcpServer

The main thread: `ListenReadable`, the four outcomes of a round of
`accept_callback` (`AcceptEmfile`, `AcceptTooMany`, `AcceptConn`, and `StoreConn`
for what happens after `add_task`), `RunDelete`. Each IO loop: `RunListenRead`,
`RunPush`, `Dispatch` (copies the `io_event` and lines up the callbacks
`event_loop::loop` will make, those for HUP included), `ReadRequests`,
`ReadCloses`, `WriteSome`, `WriteCloses`, `Dispatched` (the copy goes out of
scope). A `tcp_conn` lives while `Referenced`; every step that may drop the last
reference ends with `Destructors`, which closes the descriptor and counts
`s_conn_nums` down. Requests are counted, not parsed; `m_obuf` is the number of
messages in it. `accept4` finding nothing (EAGAIN) is left out: only the main loop
takes from the backlog; so are the errors after which `accept_callback` ends the process
(`tcp_server.cc:86-89`). The pool of loops has at least one thread.

### RouteSwap

Map objects on a heap, the two pointers, the object each reader holds. The load
is `Clear`, `Query` (or `QueryFails`), `Insert` per row, `Loaded`; `swap()` is
`Lock`, `CheckUnique` or `CopyData`, `Swap`. Readers `Take` under the lock, `Find`
and `Drop` outside it. A map's contents are the version its query returned and how
many rows are in.

### DnsPush

The constructor of `route` (`BuildMaps`, `FirstVersion`), then the rounds of
`check_route_changes`, one action per query, each of which may fail (`MaxFaults`
bounds how often); the clock of the timed reload is counted in rounds, `Wait` of
them standing for `wait_time`. `Open` is `listen_read` with `on_build`, `CloseConn`
is `close`, `GetRoute` answers a request, `RunPublish` is `publish` with
`push_change_task`. The database is external: its transaction (`Change`) writes
routes, version and change record together, with a version of its own, as the
queries of `dns_route.cc` suppose. The value of a key is the version of its last
change. `owed` is a history variable: what a connection that was open at a change
of its key must be pushed.

### Buffers

A thread for each connection, one step for each operation on the shared pool.
`read_data` and `write_data` find room in the same way, so they share `AllocFirst`,
`AllocMore`, `Swap`, `AllocExits` and `NoClass`; `side` says which of the two calls
is running. `Readable`, `ReadCells`, `ReadEof`, `ReadFails`, `Handle`, `PopHandled`,
`Refuse`, `ParseEnds` are `handle_read`, of `tcp_client` for the connections in
`Refetch` and of `tcp_conn` for the others: they differ only in when they take
`data`. The handler echoes, as `qps_server.cc` does, with `WriteHead` and
`WriteBody`; `HeadFails` and `BodyFails` are `send` without a buffer. `Write` is one
`write2fd`. A cell is an int of a message, a header is two, so a read can end inside
a header. `WriteFails` is a write to a peer that has gone. Headers whose `len` is 0 to 7,
which `tcp_conn.cc:104` and `tcp_client.cc:110` let pass, are left out: `send` writes none,
and a body of negative length is undefined, so nothing is said here of a peer that is not
the reactor's own `send`. An `io_buf` is the cells up to the end of its valid data, and `m_head`.
`exited` stands for `exit` and for a failed assertion. `m_total_mem` is left out: the
only branch that reads it exits in any case.

### LoopPool

`CreateThread`, `TestLoop`, `Block`, `SpuriousWakeup` are the thread that calls
`start()` of the pool; `SetLoop` and `Notify` are `thread_func`, which takes no lock.
`Notify` wakes `start()` only if it is waiting, so a notification between `TestLoop`
and `Block` is lost and `start()` waits on. `get_next_loop` is `TestNext`, `ResetNext`,
`ReadIndex`, `Deal`; `ReadIndex` may read `m_next` again, as the debug build does, or
use what was tested, as an optimised one may. An index behind the end gives
`NullLoop` or `WildLoop`. `overlapped` is a history variable: whether another call ran
during the one a caller is in, or has just got its loop from. Calls that overlap may
deal any of these, and may leave `m_next` anywhere behind the end; `DealsAreReal` says
that a call that is alone is not harmed by it.

### LarsProto, RoundTrips

The seven generated classes. A class is the list of its fields, in the order the
generated functions handle them; one definition per generated function says what it
does with that list. `SubParse`, `SubSerialize` and `SubByteSize` (together `Nested`)
are the calls a class makes for its submessages, which have scalars only; so no operator
is recursive, and the module can be proved about. The loop over tags is `ParseField`,
one round of it, and `ParseFields`, as many rounds as the bytes allow. The encodings of
single numbers are the protobuf library's and external. What a parse has read before it
fails stays in the message, as callers that ignore the result find it. The sizes are
counted apart from the bytes, as the code does: a disagreement would make
`SerializeToString` fail.

`RoundTrips` states, as assumptions that TLC evaluates at the start of `dnspush`, that
messages at the borders of the encodings are read back as they were written. What is
assumed there of some messages is a theorem of all (`LarsProto_proofs`); the evaluation
is kept because it runs the definitions, infinite domains and all, on real bytes.

### KeyCodec

Keys at any even width `Half` of an int: 2^32 in the code, 16 in the runs, symbolic in
the proofs.

### Reporter

`SendReport` is the client of `report_client.cc`, which makes a connection and sends one
report on it; a report travels as the bytes of `LarsProto`. An IO loop has many
connections, and reads the reports that wait on them in any order. Several reports on one
connection are not modelled here: a `tcp_conn` that reads two of them together hands over
the first one twice and loses the second (`buffers_frame`), so nothing is claimed of them.
`GetReportStatus` enters `get_next_loop`, whose steps are those of
`LoopPool`; `AddTask` and `AddTaskNowhere` are what `add_task` does with the loop it was
dealt. `ConnectDb`, `StoreResult`, `QueryFails`, `ConnectFails` are the task in a store
loop. MySQL is external: an upsert by the primary key of `lars_dns.sql`, in strict
mode, where a number that the column cannot hold is refused (`Fits`). The times of the
reports are their numbers: a clock that has moved on between two of them.

### Agent

The UDP servers: `BindServer`, `AddRouter`, `DoRead`, then `get_host` as `Find`,
`CheckStatus` or `Insert`, `PostPull`, `SetStatus`, and `Reply`. The dns client's loop:
`RunPull`, `HandleConnect`, `HandleRead` (`deal_recv_route`), then `update_host` with
`Find`, `Insert` or `DeleteLb`, `EraseLb`; `HandleWrite`, `HandleClose`. The main thread:
`StartDnsThread`, `MakeDnsClient`, `DoConnect`. The two servers and the loop may all be
in one map, because `handlers` keeps only the last registration.

What the language leaves undefined (`Undefined`: two threads in one map with one of
them writing, a `load_balance` used after its deletion or before its status is set,
registrations that race with one another or with a lookup) either has no effect beyond
the steps modelled or ends the process (`Crash`). That includes the assertion of
`get_host` (`route_lb.cc:28`): its comment says that a `load_balance` without hosts is
being pulled, but it may have been put into the map by another server that has not set
its `status` yet. `exited` also stands for null pointers and `exit(1)`. `update_host`
takes the host list its header declares, as the `.cc` does not compile; asserts are
on, as in the default build.

`clean_conn` connects the socket that was connected: on Linux that either says
nothing, with no event registered, or fails and ends the process; `HandleClose` has
both.

## Runs

| run | instance | shows |
|---|---|---|
| `taskqueue` | 2 posting threads and the loop, 2 posts each | types, `NoLostWakeup`, `IsChannel`, `EveryTaskRuns` |
| `tcpserver` | 3 clients, 2 descriptors, 2 IO loops, maxConn 1, one request each, one push; clients symmetric | types, `TablesAreLive`, `OneOwner`, `OpenIsHeld`, `DeletesItsOwn`, `CloseReportedOnce`, `OutputIsArmed` |
| `tcpserver_live` | 2 clients, 2 descriptors, maxConn 0 | `ConnLimit`, `GoneIsReleased` |
| `tcpserver_emfile` | 2 clients, 1 descriptor, maxConn 1 | `EmfilePasses` fails |
| `routeswap` | 2 readers, 5 objects, 2 rows, 3 changes; symmetric | types, `TmpIsPrivate`, `HeldIsFrozen`, `NeverOlder`, `IsRegister` |
| `dnspush` | 2 connections in turn on one descriptor, 2 keys with one cmdid, 2 changes, at most 1 failed query; the assumptions of `RoundTrips` | types, `DataBeforePush`, `NoChangeForgotten`, `NoNullConnection`, `SentNeverOlder`, `ChangesArePushed`, `ServedCatchesUp` |
| `buffers` | a pipelining `tcp_client` and a `tcp_conn` with one request at a time; 2 buffers of 3 cells and 2 of 6; streams of 9 and 5 cells; buffers of a size symmetric | types, `OneHolder`, `WithinCapacity`, `HandledInOrder`, `InputKept`, `RepliesInOrder`, `NoMessageLeft` |
| `buffers_frame` | the same with `tcp_conn` reading the pipelined stream | `HandledInOrder` fails |
| `reporter` | 2 IO loops, 2 store loops, 3 reports of 2 kinds, one of them with a negative address, at most 1 failed query | types, `DealsAreReal`, `RowsFollowReports`, `ReportsAreStored` |
| `agent` | 2 clients with a request each, 2 UDP servers, 1 key, 1 push with or without hosts, 3 load_balances | types, `AnswersReachAsker`, `NoexistIsPulled`, `EntryIsPulled` |
| `dnspush_lost` | 1 connection, 1 change, 1 failed query | `ChangesAreAlwaysPushed` fails |
| `dnspush_key` | 1 connection, 2 keys, no failure | `OnlySubscribed` fails |

Why the bounds are enough for the cases of interest: two posting threads can both
be between push and write while the loop is between read and swap, and the second
post of each comes after a round; three clients on two descriptors make a number
pass to a second owner while a third connection is open, and, with maxConn 1, make
the process run out of descriptors; two readers hold two different old maps while
a third is served and a fourth is filled; two changes are one that is being
published and one that falls between the queries of that round. maxConn 0 in
`tcpserver_live` is a limit of one connection, because the code lets one more in.

In `buffers` the streams do not fit the small buffers, so that messages are left in
part and buffers are exchanged, in both directions. Two answers of the first
connection do not fit a large buffer together, so that `send` fails at the body, and at
the header when part of the first has been written; there is a third message, so that
what a failed `send` leaves behind is built upon: without it nothing is ever stored
behind a header that was taken back, and the cells that run past the end of the buffer
are never seen. Two connections can hold four buffers and ask for a fifth, so that a
class runs empty.

In `reporter` two IO loops overlap in `get_next_loop`, which is enough for the index to
leave a pool of two; three reports make a store loop hold one report while a second
waits, and a later one overtake both on the other loop. With three reports `m_next` is
left at most one beyond the pool; that a call that is alone finds its way back from
further out is proved, not run. In `agent` both servers and the dns client's loop use
one entry: it can be created twice, pulled, deleted by a
push without hosts while its task is queued, and created again, which takes three
objects. One key is enough because entries of different keys meet only in the race
on the map, which one key has as well.

`buffers` does not check deadlock: its peers may have sent everything. `reporter` and
`agent` do not: nobody has to send a report or a request, and the process may end.
`tcpserver` and the runs derived from it do not check deadlock: with no client
left and nothing queued the server rightly has nothing to do.

### Disagreements found

* **EMFILE is final** (`tcpserver_emfile`, `tcp_server.cc:78`). `socket.cc` lists
  EMFILE among the expected errors, but the branch has no `break`; the main loop
  spins in `accept_callback` while the task that would release a descriptor waits
  in its own queue.
* **A failed query loses a push** (`dnspush_lost`, `dns_route.cc:134`). The new
  version is stored before the routes and the changes are loaded; when either
  fails the records are deleted all the same and the subscribers are never sent
  the new routes. `ServedCatchesUp` shows that the routes served do recover.
* **Messages read together** (`buffers_frame`, `tcp_conn.cc:95`). `tcp_conn`
  takes `data` once before its loop; the second of two messages read together is
  parsed from the first. `tcp_client` takes it in every round.
* **Subscriptions by cmdid alone** (`dnspush_key`, `subscribe.h:13`). The table is
  keyed by `int`.

One more is part of the model without a run of its own, as it ends the process:
`send` takes back a header for whose body there is no buffer from the front of `m_obuf`
(`tcp_conn.cc:72`), where an earlier answer may be pending; `handle_write`, which that
answer has armed, then fails the assertion of `write2fd` that `m_head` is 0
(`reactor_buf.cc:139`). `WriteAborts` is that step, and `buffers` reaches it.

## Fairness

A thread inside `add()` goes on (weak fairness); the loop's thread goes on, its
callbacks return; epoll reports every ready descriptor in turn, since the kernel
rotates its ready list, hence strong fairness of `Wake`, `RunTask` and `Dispatch`.
The check thread goes on and its queries return, well or badly. In `Reporter` and
`Agent` every thread is scheduled (weak fairness of its steps together): a loop that has
a task or a datagram does not sleep for ever, as `TaskQueue` shows. Nothing is assumed
of callers, clients, the network, lars_dns as seen by the agent, or the administrator,
nor that a peer reads its data, nor that a spurious wake-up ever comes.

## Proofs

The proofs assume the named assumptions on the constants only, and `Pipelined \subseteq
Refetch` where a theorem says so. Those that bound something by a number of the code are
`Reports \subseteq ReportStatusRequests` and `MaxReports \in UINT32` of the reporter (a
report is a message its class can hold, and its `ts` a `uint32`), and, of the agent,
`Cardinality(Clients) \in UINT32` (`seq` is a `uint32`) and ids that are not negative
with, for the key that is pushed, a sum that is an `int` (the array of `route_lbs` is
indexed by a remainder of `modid + cmdid`, `agent_dns_client.h:42`: a sum that overflows,
or is negative, indexes in front of the array, and nothing is said of it). Each invariant below is inductive; what it adds to the
property is what an induction over the steps turned out to need.

### Task queue (`TaskQueue_proofs`: any threads, any number of posts)

* `TypeCorrect`: the types need that a thread about to push has counted its call.
* `WakeupCorrect`: `NoLostWakeup` is not inductive alone. `std::swap` puts
  `deal_task`'s local queue into `m_queue`, so the invariant also needs that the
  local queue is empty between rounds (`BatchIsOver`).
* `ChannelCorrect`: every step is a step of `TaskChannel` or a stutter, by two
  lemmas on concatenation (`HeadTailConcat`, `AppendConcat`).

### TCP server (`TcpServer_proofs`: any clients, IO loops, descriptors and maxConn)

`ServerInv` follows a `tcp_conn` through its life. Its parts are

* `ClientInv`: a client in the backlog has no `tcp_conn` yet and waits there once;
* `ObjectInv`: who refers to a `tcp_conn` refers to a live one, the open descriptors are
  those of the live objects, one each, and `s_conn_nums` counts them;
* `HoldInv`: the server itself holds a connection, in `accept_callback`'s local pointer
  or in `m_conns`, from accept until its close has been reported, and the close callback
  has been called for exactly those it no longer holds;
* `DeleteInv`: the descriptor in a `delete_conn` task is that of a closed connection the
  server still holds, and no other such task waits for it. This is why the number cannot
  have passed to another connection: it is not closed before the task has run;
* `TableInv`: an io event and its entry in `t_event_loop_conns` are those of one open
  connection (`EntryOK`), and unsent output is armed;
* `TaskInv`: the connection of a `listen_read` task that waits is open, is not
  registered and waits once;
* `EvInv`: the callbacks under way are those of one connection, and a read that comes
  after the close, or after another callback, belongs to a peer that is gone and finds
  nothing to read (`EvOK`).

From it follow `ServerTypeCorrect`, `LoopsCallTheLiving` (`TablesAreLive`),
`DescriptorsHaveOneOwner` (`OneOwner`), `OpenConnectionsAreHeld` (`OpenIsHeld`),
`DeletesFindTheirOwn` (`DeletesItsOwn`), `CloseIsReportedOnce`, `OutputIsNeverStranded`
(`OutputIsArmed`) and `ConnectionsAreLimited` (`ConnLimit`), for which a step that drops
references only lets the count fall (`CountFalls`). That `accept4` returns the lowest
free descriptor is used by way of a least element (`LowestIsFree`).

### Buffers (`Buffers_proofs`: any connections, buffers, sizes and streams)

Three invariants, each on top of the one before.

* `IInv`, for `OneHolderCorrect`: beside `OneHolder`, the local `new_buf` is in use
  exactly while a buffer is being exchanged and there is an old one then
  (`NewBufIsLocal`); every other step leaves pool and holders alone (`QuietStep`), or
  only gives buffers back (`RevertKeeps`, `PopKeeps`).
* `BufsInv`, for `TypesCorrect`, `WithinCapacityCorrect` and `RepliesInOrderCorrect`:
  what is in the pool is empty (`FreeClean`, the reason why `alloc_buf` need not clear
  what it hands out), and for each connection what its input, its output and a buffer
  exchange under way may hold (`InputInv`, `OutputInv`, `RoomInv`). `read_data` and
  `write_data` store at `m_data + m_length`; that this is behind the valid data needs
  `m_head = 0`, which holds of `m_ibuf` whenever `read_data` runs, because `handle_read`
  ends with `adjust()`, and of `m_obuf` until a `send` fails. A step of one connection
  leaves all that the others hold (`Same`, `OthersSame`), by `OneHolder`.
* `FrameInv`, for `HandledInOrderCorrect`, `InputKeptCorrect` and `NoMessageLeftCorrect`:
  where each connection is in the stream of its peer. The messages handled are the first
  ones of the stream (`LogInv`); `m_ibuf` continues it where they end (`HeldInv`); a
  peer that waits has sent no more than the next message and has got no more than the
  answers to those before (`WaitInv`), so that the buffer of such a connection is
  empty after each message and `m_head` is 0 when `tcp_conn` takes `data` (`FrontInv`);
  at rest the message at the front is incomplete (`RestInv`).

The last three theorems suppose `Pipelined \subseteq Refetch`: a peer that does not wait
for answers meets `tcp_client::handle_read`. For `tcp_conn::handle_read` the condition is
needed, as `buffers_frame` shows.

`WithinCapacity` and `RepliesInOrder` except a connection on which a `send` found no
buffer: `send` then takes its header back from the front of `m_obuf`
(`tcp_conn.cc:72`), which is right only when nothing else was pending. What holds even
then is that no more is stored than fits. An empty class ends the process
(`AllocExits`), so nothing is promised after it.

### Routes (`RouteSwap_proofs`: any readers, objects and rows)

The inductive invariant `IInv` joins to the types and `TmpIsPrivate` that everything
served is complete, that answers, held maps, the map served and the database are
ordered by version, that what is loaded is no older than what is served, and that
pointers are exchanged only when no reader holds the map served. From it follow
`TypeCorrect`, `TmpPrivate`, `HeldFrozen`, `ReadsNeverOlder` and `RegisterCorrect`.

### Subscriptions and pushes (`DnsPush_proofs`: any keys, connections, loops, changes)

`PushInv` joins to the types

* `VersionInv`: the check thread knows no version the database has not had, and what a
  connection was sent of a key, or is owed, is a version at which that key changed; so a
  route that is served can never be older than one that was sent;
* `ConnInv`: an open connection has its descriptor to itself and subscribed in its loop,
  and a descriptor on which a loop listens belongs to a connection of that loop, which is
  why the push to a stale subscription finds either nothing or an open connection;
* `LoadInv`: while no query has failed, the routes loaded are those of the version to
  be published and of every publish task;
* `OwedInv`: while no query has failed, a change that an open connection is owed is a
  row of `RouteChange` or announced by a task, with the two places of the round where a
  row is about to be deleted.

From it follow `PushTypeCorrect`, `DataComesBeforePush`, `ChangesAreNotForgotten`,
`NoPushToNull` and, as an action property, `SendsNeverGoBack`. `KeysAssumption` takes
`cmdid` not negative, since `push_change_task` must get back the key that was made: what
happens to negative ones is `SplitBorrows` below.

### Messages (`LarsProto_proofs`: every message the seven classes can hold)

For each of the five messages that travel there is a theorem with three parts: the bytes
written are as many as `ByteSizeLong` counted, they are bytes, and `ParseFromArray` of
`SerializeToString` is a parse that succeeds and gives the message back
(`GetRouteRequestReadsBack`, `GetRouteResponseReadsBack`, `ReportStatusRequestReadsBack`,
`GetHostRequestReadsBack`, `GetHostResponseReadsBack`). An `int32` is any of its type, a
`uint32` any up to 2^31 - 1 (the numbers above are beyond what TLC counts, and left out),
lists are of any length. `HostInfoCopies` and `HostCallResultCopies` say the same of
`CopyFrom`, whose `MergeFrom` passes over fields that are zero.

The argument goes from the inside out.

* A number is written as the groups of seven bits that add up to it, up to five for one
  that is not negative and ten for a negative `int32` of which the last five only extend the sign, and is read
  as it *whatever bytes follow* (`ReadAs`, `ScalarReads`). `ScalarSize` counts them.
* A piece of bytes `Leads` from one message to another if the loop over tags turns the one
  into the other when it meets the piece, whatever follows, in no more rounds than the
  piece has bytes. Pieces can be put one behind the other (`LeadsThen`), and a piece that
  is all there is makes a parse that succeeds (`LeadsParse`).
* A field that is not zero is a tag and a scalar, or a tag, a length and a submessage for
  each element: such a piece leads from the message without the field to the one with it
  and is as long as was counted (`FieldChunk`). A field that is zero is not written, and
  the cleared message has it already.
* The fields of a message are pieces one behind the other (`MessageChunk`), from the
  cleared message to the one that was written. All this is proved of any list of fields
  whose numbers and names differ (`Layout`) and any message whose values fit it (`Holds`);
  the classes are instances. That a submessage's length is itself a number that can be
  written follows from the sizes of its scalars (`ScalarsAreShort`), so that lists need no
  bound. The limits on a whole message, 2^31 - 1 bytes in the library and
  `MESSAGE_MAX_SIZE` in the reactor, are no part of these theorems.

### Loop threads and the reporter (`Reporter_proofs`: any loops, connections, reports)

For the pool alone, `DealsAreReal` is inductive only with `StartInv` (a thread that is not
started has no loop, what `start()` has learnt of a thread is its own loop, the pool holds
the loops in the order of their threads) and `DealInv` (a call that no other has overlapped
is alone inside, has `m_next` in range once it has tested it, and keeps its index in range
until it has its loop; of `m_next` between calls nothing is needed); `PoolInv` joins them to
the types. From it follow `PoolTypeCorrect` and `PoolDealsAreReal`.

`ReporterUsesPool` is the refinement `Spec => PoolSpec`: every step of the reporter is a
step of the pool or leaves it alone, with the reporter's `GetReportStatus` and `AddTask` in
the place of the pool's callers. `ReporterDealsAreReal` is then a consequence and needs no
invariant of its own.

`RowsFollowReports` is about what becomes of a report between its connection and the
upserts of a store loop, and about their order. `ServerInv` follows a report through them:

* `SentInv`: the `ts` of a report is its number; only reports that were sent are handed to
  store loops, each to one, once;
* `UnreadInv`, `InHandInv`: a report that waits on a connection, or that an IO loop has
  parsed and not handed over yet, is one that was sent (by `ReportStatusRequestReadsBack`),
  is in one place only, and is `Fresh`: no store loop has been given it;
* `QueueInv`, `StoringInv`: the queue of a store loop is the end of what it was given
  (`handed`), and the report it stores is the one just before (`Taken`);
* `RowInv`: every row says what a result of the report with its `ts` says, and that report
  is one that a store loop has taken.

So the row that a store loop writes is of the last report it has taken, and a row it
replaces is of a report that was taken before, by it or by another loop: not of one it was
given later. `TypeCorrect` and the action property `RowsAreOfReports` follow.

### Agent (`Agent_proofs`: any clients, keys, pushes, and any of the three UDP servers)

Beside the types, `AnswersReachAsker` and `NoexistIsPulled`, the invariant has

* `AskedOnce`: requests are numbered by how many have been asked;
* `DatagramsAreAsked`: what waits in a socket are the bytes of a request that was asked, by
  the client it comes from;
* `WorkIsAsked`: from `do_read` to the answer, the number and key a server works on are
  those of a request of the client in `m_client_addr`. There is one `m_client_addr` for a
  server, so this needs that a server does not read the next datagram before the answer
  to the last is sent;
* `HandlersAreServers`: `get_host_handler` is bound to the `route_lb` of a UDP server, and
  only the dns client's loop deletes a `load_balance`.

The two servers and the loop may be in one map. A `load_balance` that is overwritten there
before its pull is lost, but then the thread that lost it is still about to pull whatever
the map now holds; and an entry that is erased meanwhile makes that pull end the process.
So `NoexistIsPulled` speaks of the object in the map and not of the one a thread made.

The bytes disappear from the proof by `RequestIsRead`, `ResponseIsRead` and `RoutesAreRead`,
instances of the theorems about messages. `TypeCorrect`, `AnswersAreForAskers` and
`NoexistHasPull` follow.

### Keys (`DnsPush_proofs`: every even `Half`)

The provers know little of division by a symbolic number, so `Division` and `QuotientOf`
first establish that a quotient and a remainder that fit are the quotient and the
remainder, and `KeyParts` computes both halves of a key from them: the lower half is cmdid
without its sign, the upper one modid less one when cmdid is negative. `KeysAreUnique`,
`SplitIsInverse`, `SplitBorrows` and `SubscriptionsForgetModid` follow. `SplitBorrows` is
the theorem of a defect: for every negative cmdid `push_change_task` pushes the routes of
another module.

### Sequences and recursive functions

The library's induction theorems take an operator as a parameter, which the provers
cannot instantiate. `LarsProto_proofs` does without: the set of the numbers up to `n` at
which something fails is a set of naturals, and if it is not empty it has a least element
(`LeastNatural`, from `WFMin`), which is neither 0 nor the successor of a number at which
the thing holds (`UpTo`). In this way the recursive functions of the models, `FlattenSeq`,
`Varint`, `Sum` and the loop of `ParseFields`, are shown to exist and to be what their
recursion says (`FlattenIs`, `VarintIs`, `SumIs`, `LeadsParse`), and the messages of a
stream to begin one another (`MessagesBegin` of `Buffers_proofs`).

### Model-checked only

* Liveness, which is out of the provers' reach: `EveryTaskRuns`, `GoneIsReleased`,
  `ChangesArePushed`, `ServedCatchesUp`, `ReportsAreStored`, `EntryIsPulled`.
* The four disagreements, whose counterexamples are TLC's. Why `OnlySubscribed` fails is
  proved as well, as `SubscriptionsForgetModid`.

Neither proved nor checked is what a parse makes of bytes that no `SerializeToString`
wrote: no sender in the models produces any.

Every invariant and every action property that a passing run checks is stated by a
theorem.

Memory ordering is not modelled: a `use_count` read as one is taken to mean that the
reader has finished.

## Not modelled

* `config_file`: text parsing, done once before the threads start.
* The client API: `lars_client` opens `SOCK_STREAM` sockets (`lars_api.cc:15`) to ports on
  which the agent has UDP sockets only, so its constructor ends in `exit(1)` and
  `get_host` never runs.
* `choice_one_host` of the agent: `load_balance::update` is empty, so no list ever has a
  host and the call is never reached. The report client only starts a thread.
* `udp_client::do_read`: what a client does with an answer is its own affair.
* `subscribe_list::unsubscribe`: it has no caller.
* Pools without threads (`m_thread_num <= 0`), where the main loop serves everything.
* Of the generated code: arenas, `Swap`, reflection, unknown fields kept to be written
  again; numbers of uint32 above 2^31 - 1, which TLC cannot count; what the library
  may have stored of a number that ends the bytes before it is complete.
* The example programs but for the echo handler and `report_status`.

## State of the project and plan

The modules above are complete as far as "Not modelled" says, and the safety properties,
action properties and refinements of the passing runs are proved. What is left is

1. liveness, should provers for it become available: the fairness stated in each module
   and the invariants above are what such proofs would start from;
2. the reconnection of `tcp_client` together with its buffers: `Agent` has the one and
   `Buffers` the other, and the hazards about `clean_conn` after a write error lie between
   them;
3. `choice_one_host` and the report client of the agent, once `load_balance::update` is
   written and `route_lb.cc` compiles.
