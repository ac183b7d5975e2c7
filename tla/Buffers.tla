------------------------------- MODULE Buffers -------------------------------
(***************************************************************************)
(* buf_pool, io_buf, input_buf and output_buf under the connections that   *)
(* use them: handle_read cuts the bytes read into messages, the handler    *)
(* answers with send(), handle_write passes m_obuf to the kernel.  Each    *)
(* connection runs in a loop's thread of its own; the pool is shared, and  *)
(* each of its operations, done under its lock, is a step.                 *)
(*                                                                         *)
(* Bytes are counted in ints: a header is two of them, id and len.  A cell *)
(* <<m, i>> is the i-th int of the m-th message of a connection.  The      *)
(* handler is the echo of example/qps_test/qps_server.cc.                  *)
(***************************************************************************)
EXTENDS Integers, Sequences, FiniteSets, FiniteSetsExt, SequencesExt

CONSTANTS
    Conns,
    Refetch,    \* those run by tcp_client::handle_read, the others by tcp_conn's
    Pipelined,  \* those whose peer sends without waiting for the answers
    Lens,       \* connection -> the len fields of the messages its peer sends
    MaxMsg,     \* MESSAGE_MAX_SIZE
    Bufs,       \* the io_bufs of the pool (without m16K, never asked for)
    Capacity,   \* buffer -> m_capacity
    None

MESSAGE_HEADER_SIZE == 2

ASSUME ConnsAssumption == Refetch \cup Pipelined \subseteq Conns

\* The peers are send() of the reactor, whose len counts the header.  The code would
\* take a header with a len of 0 to 7 as well, for a body of negative length: what
\* that does is undefined, and no statement of this module is about it.
ASSUME LensAssumption ==
    /\ Lens \in [Conns -> Seq(Nat)]
    /\ \A c \in Conns : \A m \in DOMAIN Lens[c] : Lens[c][m] >= MESSAGE_HEADER_SIZE

ASSUME CapacityAssumption == MaxMsg \in Nat /\ Capacity \in [Bufs -> Nat]

ASSUME NoneAssumption == None \notin Bufs

\* What a connection may hold: m_ibuf, m_obuf and, while a buffer is being
\* exchanged for a larger one, the local new_buf.
Slots == Conns \X {"in", "out", "new"}

VARIABLES
    free,     \* the buffers in the lists of buf_pool::m_pool
    mem,      \* buffer -> cells up to the end of its valid data, and m_head
    m_buf,    \* slot -> its io_buf or None
    at,       \* connection -> where its thread is
    side,     \* the call that needs room: read_data, or write_data of a part
    need,     \* need_read
    msg,      \* the message being handled
    arrived,  \* cells the kernel has got from the peer, and of these
    taken,    \* the cells read
    eof,      \* the peer has closed
    got,      \* cells the peer has got from us
    handled,  \* messages given to a handler
    replied,  \* cells of the answers for which send() returned 0
    failed,   \* a send() found no buffer
    exited    \* the process has called exit(), or failed an assert

net == <<arrived, eof>>
job == <<side, need, msg>>
log == <<got, handled, replied, failed>>

vars == <<free, mem, m_buf, at, job, net, taken, log, exited>>

------------------------------------------------------------------------------
\* The peer's stream

OnWire(c, m) == IF Lens[c][m] > MaxMsg THEN MESSAGE_HEADER_SIZE ELSE Lens[c][m]

Message(c, m) == [i \in 1 .. OnWire(c, m) |-> <<m, i>>]

Messages(c, n) == FlattenSeq([m \in 1 .. n |-> Message(c, m)])

Stream(c) == Messages(c, Len(Lens[c]))

\* io_buf

Cleared == [data |-> <<>>, head |-> 0]

Length(r) == Len(r.data) - r.head

Valid(r) == SubSeq(r.data, r.head + 1, Len(r.data))

\* adjust() without the memmove
OnlyHeadReset(r) == [data |-> SubSeq(r.data, 1, Length(r)), head |-> 0]

\* io_buf::adjust; io_buf::copy leaves its target in the same state
Adjusted(r) == [data |-> Valid(r), head |-> 0]

Popped(r, n) == [r EXCEPT !.head = @ + n]

\* read() and memcpy() store at m_data + m_length, whatever m_head is: with
\* m_head > 0 the new cells cover valid ones and m_head unknown cells follow.
Filled(r, cells) ==
    [r EXCEPT !.data = SubSeq(@, 1, Length(r)) \o cells
                           \o [i \in 1 .. r.head |-> <<0, 0>>]]

------------------------------------------------------------------------------
\* The current call's buffer, and how much room it needs

Slot(c) == <<c, IF side[c] = "in" THEN "in" ELSE "out">>

Part(c) == IF side[c] = "head"
               THEN SubSeq(msg[c], 1, MESSAGE_HEADER_SIZE)
               ELSE SubSeq(msg[c], MESSAGE_HEADER_SIZE + 1, Len(msg[c]))

Want(c) == IF side[c] = "in" THEN need[c] ELSE Len(Part(c))

HasRoom(c) ==
    LET b == m_buf[Slot(c)]
    IN  b # None /\ Capacity[b] - Length(mem[b]) >= Want(c)

\* the larger buffer asked for the new data alone
AsksForNewData(c) == Want(c)

\* the argument of alloc_buf
Asks(c) ==
    LET b == m_buf[Slot(c)]
    IN  IF b = None THEN Want(c) ELSE Capacity[b] + Want(c)

Classes == {Capacity[b] : b \in Bufs}

\* the classes large enough; alloc_buf returns nullptr when there is none
ClassesFor(n) == {k \in Classes : k >= n}

\* alloc_buf's list: the buffers of the smallest of them.  It takes the first;
\* they are all empty, so it does not matter which.
Candidates(n) ==
    {b \in free : Capacity[b] = Min(ClassesFor(n))}

TypeOK ==
    /\ free \subseteq Bufs
    /\ \A b \in Bufs : mem[b].head \in 0 .. Len(mem[b].data)
    /\ m_buf \in [Slots -> Bufs \cup {None}]
    /\ at \in [Conns -> {"poll", "room", "swap", "fill", "parse", "pop", "closed"}]
    /\ side \in [Conns -> {"in", "head", "body"}]
    /\ need \in [Conns -> Nat]
    /\ eof \in [Conns -> BOOLEAN]
    /\ \A c \in Conns : 0 <= taken[c] /\ taken[c] <= arrived[c]
    /\ failed \in [Conns -> BOOLEAN]
    /\ exited \in BOOLEAN

Init ==
    /\ free = Bufs
    /\ mem = [b \in Bufs |-> Cleared]
    /\ m_buf = [s \in Slots |-> None]
    /\ at = [c \in Conns |-> "poll"]
    /\ side = [c \in Conns |-> "in"]
    /\ need = [c \in Conns |-> 0]
    /\ msg = [c \in Conns |-> <<>>]
    /\ arrived = [c \in Conns |-> 0]
    /\ taken = [c \in Conns |-> 0]
    /\ eof = [c \in Conns |-> FALSE]
    /\ got = [c \in Conns |-> <<>>]
    /\ handled = [c \in Conns |-> <<>>]
    /\ replied = [c \in Conns |-> <<>>]
    /\ failed = [c \in Conns |-> FALSE]
    /\ exited = FALSE

\* the process runs, and the thread of c is there
At(c, place) == ~ exited /\ at[c] = place

Go(c, place) == at' = [at EXCEPT ![c] = place]

\* buf_pool::revert of the buffers of some slots, which let go of them
Revert(slots) ==
    LET bufs == {m_buf[s] : s \in slots} \ {None}
    IN  /\ free' = free \cup bufs
        /\ mem' = [b \in Bufs |-> IF b \in bufs THEN Cleared ELSE mem[b]]
        /\ m_buf' = [s \in Slots |-> IF s \in slots THEN None ELSE m_buf[s]]

\* tcp_conn::close and tcp_client::clean_conn empty both buffers; what becomes
\* of the connection then is no matter of the buffers.
Close(c) == Revert({<<c, "in">>, <<c, "out">>}) /\ Go(c, "closed")

------------------------------------------------------------------------------
\* The peer

\* how much a peer sends that waits for each answer
Allowed(c) ==
    IF c \in Pipelined
        THEN Len(Stream(c))
        ELSE LET answered == Max({m \in 0 .. Len(Lens[c]) :
                                     Len(Messages(c, m)) <= Len(got[c])})
             IN  Len(Messages(c, Min({answered + 1, Len(Lens[c])})))

Arrive(c) ==
    /\ ~ exited /\ ~ eof[c]
    /\ \E n \in arrived[c] + 1 .. Allowed(c) : arrived' = [arrived EXCEPT ![c] = n]
    /\ UNCHANGED <<free, mem, m_buf, at, job, eof, taken, log, exited>>

PeerCloses(c) ==
    /\ ~ exited /\ ~ eof[c]
    /\ eof' = [eof EXCEPT ![c] = TRUE]
    /\ UNCHANGED <<free, mem, m_buf, at, job, arrived, taken, log, exited>>

------------------------------------------------------------------------------
\* Room for the data of read_data and of write_data

\* no buffer yet
AllocFirst(c) ==
    /\ At(c, "room")
    /\ m_buf[Slot(c)] = None
    /\ ClassesFor(Asks(c)) # {}
    /\ \E b \in Candidates(Asks(c)) :
          /\ free' = free \ {b}
          /\ m_buf' = [m_buf EXCEPT ![Slot(c)] = b]
    /\ UNCHANGED <<mem, at, job, net, taken, log, exited>>

\* a larger one, into which the data are copied
AllocMore(c) ==
    /\ At(c, "room")
    /\ m_buf[Slot(c)] # None
    /\ ~ HasRoom(c)
    /\ ClassesFor(Asks(c)) # {}
    /\ \E b \in Candidates(Asks(c)) :
          /\ free' = free \ {b}
          /\ m_buf' = [m_buf EXCEPT ![<<c, "new">>] = b]
          /\ mem' = [mem EXCEPT ![b] = Adjusted(mem[m_buf[Slot(c)]])]
    /\ Go(c, "swap")
    /\ UNCHANGED <<job, net, taken, log, exited>>

\* the old buffer goes back, the new one takes its place
Swap(c) ==
    /\ At(c, "swap")
    /\ free' = free \cup {m_buf[Slot(c)]}
    /\ mem' = [mem EXCEPT ![m_buf[Slot(c)]] = Cleared]
    /\ m_buf' = [m_buf EXCEPT ![Slot(c)] = m_buf[<<c, "new">>],
                              ![<<c, "new">>] = None]
    /\ Go(c, "fill")
    /\ UNCHANGED <<job, net, taken, log, exited>>

\* The class is empty.  The branch that should create a buffer tests ret_buf,
\* which is null there, instead of the buffer it has made.
AllocExits(c) ==
    /\ At(c, "room")
    /\ ~ HasRoom(c)
    /\ ClassesFor(Asks(c)) # {}
    /\ Candidates(Asks(c)) = {}
    /\ exited' = TRUE
    /\ UNCHANGED <<free, mem, m_buf, at, job, net, taken, log>>

\* there was room, or the larger buffer is in place
Ready(c) ==
    \/ At(c, "room") /\ HasRoom(c)
    \/ At(c, "fill")

\* alloc_buf returns nullptr: no class is large enough
NoClass(c) ==
    /\ At(c, "room")
    /\ ~ HasRoom(c)
    /\ ClassesFor(Asks(c)) = {}

------------------------------------------------------------------------------
\* handle_read

\* FIONREAD
Readable(c) ==
    /\ At(c, "poll")
    /\ arrived[c] > taken[c] \/ eof[c]
    /\ need' = [need EXCEPT ![c] = arrived[c] - taken[c]]
    /\ side' = [side EXCEPT ![c] = "in"]
    /\ Go(c, "room")
    /\ UNCHANGED <<free, mem, m_buf, msg, net, taken, log, exited>>

ReadFails(c) ==
    /\ NoClass(c)
    /\ side[c] = "in"
    /\ Close(c)
    /\ UNCHANGED <<job, net, taken, log, exited>>

ReadCells(c) ==
    /\ Ready(c)
    /\ side[c] = "in"
    /\ need[c] > 0
    /\ LET cells == SubSeq(Stream(c), taken[c] + 1, taken[c] + need[c])
       IN  mem' = [mem EXCEPT ![m_buf[Slot(c)]] = Filled(@, cells)]
    /\ taken' = [taken EXCEPT ![c] = @ + need[c]]
    /\ Go(c, "parse")
    /\ UNCHANGED <<free, m_buf, job, net, log, exited>>

ReadEof(c) ==
    /\ Ready(c)
    /\ side[c] = "in"
    /\ need[c] = 0
    /\ Close(c)
    /\ UNCHANGED <<job, net, taken, log, exited>>

\* the place of `data`, taken once before the loop
DataOnce(c) == 0

\* tcp_client takes `data` in every round; tcp_conn before the loop, when
\* m_head is 0
DataAt(c) == IF c \in Refetch THEN mem[m_buf[<<c, "in">>]].head ELSE 0

\* the first cell of what is taken for the header
HeaderCell(c) == mem[m_buf[<<c, "in">>]].data[DataAt(c) + 1]

HasHeader(c) ==
    /\ m_buf[<<c, "in">>] # None
    /\ Length(mem[m_buf[<<c, "in">>]]) >= MESSAGE_HEADER_SIZE

\* A len field in range.  What is not a header, which only a reader that has
\* lost its place comes upon, counts as a length out of range.
GoodHeader(c) == HeaderCell(c)[2] = 1 /\ Lens[c][HeaderCell(c)[1]] <= MaxMsg

WholeMessage(c) ==
    /\ HasHeader(c)
    /\ GoodHeader(c)
    /\ Length(mem[m_buf[<<c, "in">>]]) >= Lens[c][HeaderCell(c)[1]]

\* The handler gets header and body, and calls send().
Handle(c) ==
    /\ At(c, "parse")
    /\ WholeMessage(c)
    /\ LET from == DataAt(c)
           data == mem[m_buf[<<c, "in">>]].data
           cells == SubSeq(data, from + 1, from + Lens[c][HeaderCell(c)[1]])
       IN  /\ msg' = [msg EXCEPT ![c] = cells]
           /\ handled' = [handled EXCEPT ![c] = Append(@, cells)]
    /\ side' = [side EXCEPT ![c] = "head"]
    /\ Go(c, "room")
    /\ UNCHANGED <<free, mem, m_buf, need, net, taken, got, replied, failed, exited>>

\* a length out of range
Refuse(c) ==
    /\ At(c, "parse")
    /\ HasHeader(c)
    /\ ~ GoodHeader(c)
    /\ Close(c)
    /\ UNCHANGED <<job, net, taken, log, exited>>

\* the loop ends: adjust()
ParseEnds(c) ==
    /\ At(c, "parse")
    /\ ~ WholeMessage(c)
    /\ HasHeader(c) => GoodHeader(c)
    /\ mem' = IF m_buf[<<c, "in">>] = None
                  THEN mem
                  ELSE [mem EXCEPT ![m_buf[<<c, "in">>]] = Adjusted(@)]
    /\ Go(c, "poll")
    /\ UNCHANGED <<free, m_buf, job, net, taken, log, exited>>

\* m_buf kept after its buffer went back to the pool
PopKeepsPointer(s, n) ==
    LET b == m_buf[s]
    IN  /\ mem' = [mem EXCEPT ![b] = IF Length(@) = n THEN Cleared ELSE Popped(@, n)]
        /\ free' = IF Length(mem[b]) = n THEN free \cup {b} ELSE free
        /\ UNCHANGED m_buf

\* reactor_buf::pop, which gives an empty buffer back
Pop(s, n) ==
    IF Length(mem[m_buf[s]]) = n
        THEN Revert({s})
        ELSE /\ mem' = [mem EXCEPT ![m_buf[s]] = Popped(@, n)]
             /\ UNCHANGED <<free, m_buf>>

\* one message for each call of handle_read
PopsAndReturns(c) ==
    /\ At(c, "pop")
    /\ Pop(<<c, "in">>, Len(msg[c]))
    /\ Go(c, "poll")
    /\ UNCHANGED <<job, net, taken, log, exited>>

\* len taken not to count the header
PopsHeaderTwice(c) ==
    /\ At(c, "pop")
    /\ Pop(<<c, "in">>, MESSAGE_HEADER_SIZE + Len(msg[c]))
    /\ Go(c, "parse")
    /\ UNCHANGED <<job, net, taken, log, exited>>

\* the handler has returned
PopHandled(c) ==
    /\ At(c, "pop")
    /\ Pop(<<c, "in">>, Len(msg[c]))
    /\ Go(c, "parse")
    /\ UNCHANGED <<job, net, taken, log, exited>>

------------------------------------------------------------------------------
\* send() and handle_write

WriteHead(c) ==
    /\ Ready(c)
    /\ side[c] = "head"
    /\ mem' = [mem EXCEPT ![m_buf[Slot(c)]] = Filled(@, Part(c))]
    /\ side' = [side EXCEPT ![c] = "body"]
    /\ Go(c, "room")
    /\ UNCHANGED <<free, m_buf, need, msg, net, taken, log, exited>>

WriteBody(c) ==
    /\ Ready(c)
    /\ side[c] = "body"
    /\ mem' = [mem EXCEPT ![m_buf[Slot(c)]] = Filled(@, Part(c))]
    /\ replied' = [replied EXCEPT ![c] = @ \o msg[c]]
    /\ Go(c, "pop")
    /\ UNCHANGED <<free, m_buf, job, net, taken, got, handled, failed, exited>>

HeadFails(c) ==
    /\ NoClass(c)
    /\ side[c] = "head"
    /\ failed' = [failed EXCEPT ![c] = TRUE]
    /\ Go(c, "pop")
    /\ UNCHANGED <<free, mem, m_buf, job, net, taken, got, handled, replied, exited>>

\* "pop the header": pop() takes it from the front
BodyFails(c) ==
    /\ NoClass(c)
    /\ side[c] = "body"
    /\ Pop(Slot(c), MESSAGE_HEADER_SIZE)
    /\ failed' = [failed EXCEPT ![c] = TRUE]
    /\ Go(c, "pop")
    /\ UNCHANGED <<job, net, taken, got, handled, replied, exited>>

\* everything taken for written
Drained(r, n) == Cleared

\* write2fd: io_buf::pop and adjust; an empty buffer stays with m_obuf
Written(r, n) == Adjusted(Popped(r, n))

\* One round of handle_write's loop, which ends when the kernel takes no more.
\* The connection has an EPOLLOUT callback whenever m_obuf is not empty
\* (OutputIsArmed of TcpServer).
Write(c) ==
    LET b == m_buf[<<c, "out">>]
    IN  /\ At(c, "poll")
        /\ b # None
        /\ mem[b].head = 0
        /\ \E n \in 1 .. Length(mem[b]) :
              /\ got' = [got EXCEPT ![c] = @ \o SubSeq(mem[b].data, 1, n)]
              /\ mem' = [mem EXCEPT ![b] = Written(@, n)]
        /\ UNCHANGED <<free, m_buf, at, job, net, taken, handled, replied, failed, exited>>

\* write2fd returns -1: the peer has closed, whether or not its last messages have
\* been read
WriteFails(c) ==
    LET b == m_buf[<<c, "out">>]
    IN  /\ At(c, "poll")
        /\ b # None
        /\ mem[b].head = 0
        /\ eof[c]
        /\ Close(c)
        /\ UNCHANGED <<job, net, taken, log, exited>>

\* write2fd: assert(m_buf && m_buf->m_head == 0)
WriteAborts(c) ==
    LET b == m_buf[<<c, "out">>]
    IN  /\ At(c, "poll")
        /\ b # None
        /\ mem[b].head # 0
        /\ Length(mem[b]) > 0
        /\ exited' = TRUE
        /\ UNCHANGED <<free, mem, m_buf, at, job, net, taken, log>>

------------------------------------------------------------------------------
Room(c) == AllocFirst(c) \/ AllocMore(c) \/ Swap(c) \/ AllocExits(c)

HandleRead(c) ==
    \/ Readable(c) \/ ReadFails(c) \/ ReadCells(c) \/ ReadEof(c)
    \/ Handle(c) \/ Refuse(c) \/ PopHandled(c) \/ ParseEnds(c)

Send(c) == WriteHead(c) \/ WriteBody(c) \/ HeadFails(c) \/ BodyFails(c)

Next == \E c \in Conns :
    \/ Arrive(c) \/ PeerCloses(c)
    \/ Room(c) \/ HandleRead(c)
    \/ Send(c) \/ Write(c) \/ WriteFails(c) \/ WriteAborts(c)

Spec == Init /\ [][Next]_vars

------------------------------------------------------------------------------
\* Properties

\* A buffer is in the pool or in one place of one connection: no two hold the
\* same one, and none is lost, whichever way read_data, write_data, pop and
\* close interleave and fail.
OneHolder ==
    /\ \A s, t \in Slots : m_buf[s] # None /\ m_buf[s] = m_buf[t] => s = t
    /\ \A b \in Bufs : b \in free <=> \A s \in Slots : m_buf[s] # b

\* Nothing is stored past the end of a buffer, and what it holds ends before
\* that, unless it is the m_obuf of a connection on which a send found no
\* buffer: with the header taken back m_head is not 0, and m_data + m_head +
\* m_length may be past the end.
WithinCapacity ==
    \A s \in Slots : m_buf[s] # None =>
        /\ Length(mem[m_buf[s]]) <= Capacity[m_buf[s]]
        /\ (s[2] = "out" => ~failed[s[1]]) =>
              Len(mem[m_buf[s]].data) <= Capacity[m_buf[s]]

\* The handlers get the messages of the peer in order, each once, with its own
\* body, however the bytes were split among reads.
HandledInOrder ==
    \A c \in Conns : \A i \in DOMAIN handled[c] :
        i <= Len(Lens[c]) /\ handled[c][i] = Message(c, i)

InHandler(c) ==
    \/ at[c] \in {"room", "swap", "fill"} /\ side[c] # "in"
    \/ at[c] = "pop"

\* What was read is what was handled followed by what m_ibuf holds, through
\* every pop, adjust and exchange of buffers.
InputKept ==
    \A c \in Conns : at[c] # "closed" =>
        LET b == m_buf[<<c, "in">>]
            done == FlattenSeq(IF InHandler(c) THEN Front(handled[c]) ELSE handled[c])
        IN  SubSeq(Stream(c), 1, taken[c])
                = done \o (IF b = None THEN <<>> ELSE Valid(mem[b]))

\* The peer has got, and m_obuf still holds, exactly the answers sent, in order
\* (with the header of the one being sent), unless a send found no buffer: then
\* the header it takes back is another answer's.
RepliesInOrder ==
    \A c \in Conns : at[c] # "closed" /\ ~ failed[c] =>
        LET b == m_buf[<<c, "out">>]
            begun == IF at[c] \in {"room", "swap", "fill"} /\ side[c] = "body"
                         THEN SubSeq(msg[c], 1, MESSAGE_HEADER_SIZE)
                         ELSE <<>>
        IN  replied[c] \o begun = got[c] \o (IF b = None THEN <<>> ELSE Valid(mem[b]))

\* handle_read leaves no whole message behind: nothing would call it again for
\* bytes it has read.
NoMessageLeft ==
    \A c \in Conns : at[c] = "poll" => ~ WholeMessage(c)

==============================================================================
