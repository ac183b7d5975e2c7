------------------------------- MODULE Reporter -------------------------------
(***************************************************************************)
(* lars_reporter: IO loops parse the reports that arrive on their          *)
(* connections and hand each to a store loop, which writes one row of      *)
(* ServerCallStatus for every result in it.  All IO loops share the pool   *)
(* of store loops (LoopPool), without a lock; a store loop runs its tasks  *)
(* in the order they came (TaskChannel, which TaskQueue implements).       *)
(*                                                                         *)
(* The main thread starts the store loops first and the server after them, *)
(* so that nobody can connect before start() of the pool has returned.     *)
(*                                                                         *)
(* A client sends one report, when its connection has been made, as        *)
(* report_client.cc does.  Reports that a client sends one behind the      *)
(* other on one connection are beyond this module: tcp_conn loses the      *)
(* second of two messages that it reads together (Buffers, run             *)
(* buffers_frame).  MySQL is external: strict mode, the table of           *)
(* base/sql/lars_dns.sql.                                                  *)
(***************************************************************************)
EXTENDS LoopPool, LarsProto

CONSTANTS
    Reports,     \* reports that clients make, their ts still to be set
    MaxReports,  \* bound: reports sent
    MaxFaults,   \* bound: queries that fail though the row is in order
    None

\* reports are numbered by their ts, a uint32
ASSUME BoundsAssumption == MaxReports \in UINT32 /\ MaxFaults \in Nat

ASSUME ReportsAssumption == Reports \subseteq ReportStatusRequests

ReportNo == 1 .. MaxReports

VARIABLES
    sent,     \* reports in the order of their ts
    unread,   \* IO loop -> reports waiting on connections of it, one on each
    req,      \* IO loop -> the report it is handling
    queue,    \* store loop -> its tasks, each the report it has captured
    storing,  \* store loop -> report and number of the next result
    table,    \* rows of ServerCallStatus
    handed,   \* store loop -> reports it was given, in that order
    dropped,  \* reports given to no store loop
    written,  \* rows ever written
    faults,
    exited    \* exit(1), or a crash

store == <<queue, storing, table, written, faults>>
serverVars == <<sent, unread, req, store, handed, dropped, exited>>
vars == <<poolVars, serverVars>>

------------------------------------------------------------------------------
\* The table

\* Columns are printed with %u where the code says so, and int(11) is signed: a
\* negative int32 becomes a number above 2^31, which the column refuses.
Fits(row) == row.ip >= 0 /\ row.port >= 0 /\ row.caller >= 0

\* the values of the INSERT statement
Row(r, result) ==
    [modid |-> r.modid, cmdid |-> r.cmdid, ip |-> result.ip, port |-> result.port,
     caller |-> r.caller, succ_cnt |-> result.succ, err_cnt |-> result.err,
     ts |-> r.ts, overload |-> IF result.overload THEN 1 ELSE 0]

PrimaryKey(row) == <<row.modid, row.cmdid, row.ip, row.port, row.caller>>

SameKey(row) == {old \in table : PrimaryKey(old) = PrimaryKey(row)}

\* ON DUPLICATE KEY UPDATE
Update(old, row) ==
    [old EXCEPT !.succ_cnt = row.succ_cnt, !.err_cnt = row.err_cnt,
                !.ts = row.ts, !.overload = row.overload]

Upsert(row) ==
    IF SameKey(row) = {} THEN table \cup {row}
    ELSE (table \ SameKey(row)) \cup {Update(old, row) : old \in SameKey(row)}

------------------------------------------------------------------------------
\* The messages that the reports of the instance can make, and their rows
Messages ==
    {ReportStatusRequest_Clear} \cup {[r EXCEPT !.ts = n] : r \in Reports, n \in ReportNo}

Rows == UNION {{Row(r, r.results[i]) : i \in DOMAIN r.results} : r \in Messages}

\* what SerializeToString writes for a message, and what ParseFromArray reads back
Frame == [msg \in Messages |-> ReportStatusRequest_SerializeToString(msg)]

ReadBack == [frame \in {Frame[msg] : msg \in Messages} |->
              ReportStatusRequest_ParseFromArray(frame).msg]

TypeOK ==
    /\ PoolTypeOK
    /\ sent \in Seq(Messages) /\ Len(sent) <= MaxReports
    /\ unread \in [Callers -> SUBSET ReportNo]
    /\ req \in [Callers -> Messages]
    /\ queue \in [Thread -> Seq(Messages)]
    /\ storing \in [Thread -> {None} \cup [msg : Messages, at : Nat \ {0}]]
    /\ table \subseteq written
    /\ written \subseteq Rows
    /\ handed \in [Thread -> Seq(ReportNo)]
    /\ dropped \subseteq ReportNo
    /\ faults \in 0 .. MaxFaults
    /\ exited \in BOOLEAN

Init ==
    /\ PoolInit
    /\ sent = <<>>
    /\ unread = [c \in Callers |-> {}]
    /\ req = [c \in Callers |-> ReportStatusRequest_Clear]
    /\ queue = [s \in Thread |-> <<>>]
    /\ storing = [s \in Thread |-> None]
    /\ table = {}
    /\ written = {}
    /\ handed = [s \in Thread |-> <<>>]
    /\ dropped = {}
    /\ faults = 0
    /\ exited = FALSE

------------------------------------------------------------------------------
\* report_status of the client, on a new connection that IO loop c was given: ts is
\* the time, and each result is copied into the request
SendReport(c, report) ==
    /\ starterAt = "done"
    /\ Len(sent) < MaxReports
    /\ LET results == [i \in DOMAIN report.results |->
                          HostCallResult_CopyFrom(report.results[i])]
       IN  sent' = Append(sent, ReportStatusRequest_Of(report.modid, report.cmdid,
                                    report.caller, results, Len(sent) + 1))
    /\ unread' = [unread EXCEPT ![c] = @ \cup {Len(sent) + 1}]
    /\ UNCHANGED <<poolVars, req, store, handed, dropped, exited>>

\* get_report_status, up to get_next_loop, for one of the connections that are
\* readable; whether the parse succeeded is not asked
GetReportStatus(c) ==
    /\ CallNextLoop(c)
    /\ \E n \in unread[c] :
        /\ req' = [req EXCEPT ![c] = ReadBack[Frame[sent[n]]]]
        /\ unread' = [unread EXCEPT ![c] = @ \ {n}]
    /\ UNCHANGED <<sent, store, handed, dropped, exited>>

\* a store loop that takes the latest task first
AddTaskInFront(c) ==
    /\ UseLoop(c)
    /\ dealt[c] \in Thread
    /\ queue' = [queue EXCEPT ![dealt[c]] = <<req[c]>> \o @]
    /\ handed' = [handed EXCEPT ![dealt[c]] = Append(@, req[c].ts)]
    /\ UNCHANGED <<sent, unread, req, storing, table, written, faults, dropped, exited>>

\* store_thread_pool::add_task, with a loop of the pool
AddTask(c) ==
    /\ UseLoop(c)
    /\ dealt[c] \in Thread
    /\ queue' = [queue EXCEPT ![dealt[c]] = Append(@, req[c])]
    /\ handed' = [handed EXCEPT ![dealt[c]] = Append(@, req[c].ts)]
    /\ UNCHANGED <<sent, unread, req, storing, table, written, faults, dropped, exited>>

\* with a null loop the task is dropped; with a wild one it is lost or the
\* process crashes
AddTaskNowhere(c) ==
    /\ UseLoop(c)
    /\ dealt[c] \notin Thread
    /\ dropped' = dropped \cup {req[c].ts}
    /\ exited' \in IF dealt[c] = WildLoop THEN BOOLEAN ELSE {FALSE}
    /\ UNCHANGED <<sent, unread, req, store, handed>>

------------------------------------------------------------------------------
\* The task, in a store loop

\* the loop of store() at result i; after the last one the task returns
Round(msg, i) == IF i <= Len(msg.results) THEN [msg |-> msg, at |-> i] ELSE None

\* the constructor of store_reporter connects to the database
ConnectDb(s) ==
    /\ threadAt[s] = "loop"
    /\ storing[s] = None
    /\ queue[s] # <<>>
    /\ queue' = [queue EXCEPT ![s] = Tail(@)]
    /\ storing' = [storing EXCEPT ![s] = Round(Head(queue[s]), 1)]
    /\ UNCHANGED <<poolVars, sent, unread, req, table, written, faults, handed, dropped, exited>>

\* mysql_real_connect fails: exit(1)
ConnectFails(s) ==
    /\ threadAt[s] = "loop"
    /\ storing[s] = None
    /\ queue[s] # <<>>
    /\ exited' = TRUE
    /\ UNCHANGED <<poolVars, sent, unread, req, store, handed, dropped>>

NextRow(s) == Row(storing[s].msg, storing[s].msg.results[storing[s].at])

NextResult(s) == storing' = [storing EXCEPT ![s] = Round(@.msg, @.at + 1)]

\* one round of the loop of store(): the statement succeeds
StoreResult(s) ==
    /\ storing[s] # None
    /\ Fits(NextRow(s))
    /\ table' = Upsert(NextRow(s))
    /\ written' = written \cup (table' \ table)
    /\ NextResult(s)
    /\ UNCHANGED <<poolVars, sent, unread, req, queue, faults, handed, dropped, exited>>

\* store() returns at the first statement that fails
StopAtFailure(s) ==
    /\ storing[s] # None
    /\ IF Fits(NextRow(s)) THEN faults < MaxFaults /\ faults' = faults + 1
                           ELSE UNCHANGED faults
    /\ storing' = [storing EXCEPT ![s] = None]
    /\ UNCHANGED <<poolVars, sent, unread, req, queue, table, written, handed, dropped, exited>>

\* it fails: a value does not fit, or the database does; stderr says so
QueryFails(s) ==
    /\ storing[s] # None
    /\ IF Fits(NextRow(s)) THEN faults < MaxFaults /\ faults' = faults + 1
                           ELSE UNCHANGED faults
    /\ NextResult(s)
    /\ UNCHANGED <<poolVars, sent, unread, req, queue, table, written, handed, dropped, exited>>

------------------------------------------------------------------------------
Starts == ~exited /\ StartStep /\ UNCHANGED serverVars

IoStep(c) ==
    /\ ~exited
    /\ \/ GetReportStatus(c)
       \/ NextLoopStep(c) /\ UNCHANGED serverVars
       \/ AddTask(c)
       \/ AddTaskNowhere(c)

StoreStep(s) ==
    /\ ~exited
    /\ \/ ConnectDb(s)
       \/ StoreResult(s)
       \/ QueryFails(s)

Next ==
    \/ Starts
    \/ ~exited /\ SpuriousWakeup /\ UNCHANGED serverVars
    \/ \E c \in Callers :
        \/ \E report \in Reports : ~exited /\ SendReport(c, report)
        \/ IoStep(c)
    \/ \E s \in Thread :
        \/ ~exited /\ ConnectFails(s)
        \/ StoreStep(s)

\* Threads are scheduled and queries return.  Nobody has to send a report.
Fairness ==
    /\ WF_vars(Starts)
    /\ \A c \in Callers : WF_vars(IoStep(c))
    /\ \A s \in Thread : WF_vars(StoreStep(s))

Spec == Init /\ [][Next]_vars

FairSpec == Spec /\ Fairness

------------------------------------------------------------------------------
\* Properties

\* a store loop was given report n after report m
GivenAfter(m, n) ==
    \E s \in Thread : \E i, j \in DOMAIN handed[s] :
        i < j /\ handed[s][i] = m /\ handed[s][j] = n

\* A row that is written holds what one result of one report says, in all its
\* columns, after serialisation, parsing and the choice between INSERT and
\* UPDATE.  A row may be overwritten with an older one, since two store loops
\* overtake each other, but one store loop overwrites in the order in which it was
\* given the reports, whichever IO loops gave them.
RowsFollowReports ==
    [][\A row \in table' \ table :
        /\ row.ts \in DOMAIN sent
        /\ LET msg == sent[row.ts]
           IN  \E i \in DOMAIN msg.results : row = Row(msg, msg.results[i])
        /\ \A old \in SameKey(row) : ~GivenAfter(row.ts, old.ts)]_vars

\* Every result of a report that was sent is written in the end, those after a
\* result that is refused included: unless a column cannot hold it, the report
\* was given to a loop that does not exist (DealsAreReal says when that cannot be),
\* a query failed or the process ended.
ReportsAreStored ==
    \A n \in ReportNo :
        (Len(sent) >= n) ~>
            \/ exited \/ faults > 0 \/ n \in dropped
            \/ n \in DOMAIN sent
               /\ \A i \in DOMAIN sent[n].results :
                      LET row == Row(sent[n], sent[n].results[i])
                      IN  Fits(row) => row \in written

==============================================================================
