--------------------------- MODULE Reporter_proofs ----------------------------
(***************************************************************************)
(* The pool of store loops, for any number of threads and any callers: the *)
(* types, and that the loops dealt are real to calls that do not overlap.  *)
(* The reporter, for any reports, IO loops and bounds: that it uses its    *)
(* pool as LoopPool says, its types, and that the rows written follow the  *)
(* reports.                                                                *)
(***************************************************************************)
EXTENDS Reporter, LarsProto_proofs

------------------------------------------------------------------------------
(* LoopPool                                                                 *)

\* start() is at one of the threads until it has been at all of them; it learns
\* of a loop when its thread has set it up, and pushes the loops in order
StartInv ==
    /\ \A t \in Thread : m_loop[t] # NullLoop => m_loop[t] = t /\ Real(t)
    /\ \A t \in Thread : t > Starting => threadAt[t] = "none"
    /\ starterAt = "create" => threadAt[Starting] = "none"
    /\ \A i \in DOMAIN m_loops : m_loops[i] = i /\ Real(i)
    /\ starterAt # "done" => Len(m_loops) < m_thread_num
    /\ starterAt = "done" => Len(m_loops) = m_thread_num

\* the loops are dealt once they are all there; a call during which there is no other
\* finds m_next in range, or sets it so, and keeps it so until it has used it
DealInv ==
    /\ \A c \in Callers : at[c] # "idle" => starterAt = "done"
    /\ \A c \in Callers : ~overlapped[c] =>
          /\ Inside(c) => \A d \in Callers : Inside(d) => d = c
          /\ at[c] = "index" => index[c] = m_next /\ m_next < m_thread_num
          /\ at[c] = "bump" => index[c] < m_thread_num
          /\ at[c] = "dealt" => Real(dealt[c])

PoolInv == PoolTypeOK /\ StartInv /\ DealInv

LEMMA InitPoolInv == PoolInit => PoolInv
<1> SUFFICES ASSUME PoolInit PROVE PoolInv
  OBVIOUS
<1> USE ThreadNumAssumption DEF PoolInit
<1>1. PoolTypeOK
  <2>1. m_loops \in Seq(Thread \cup {NullLoop}) /\ Len(m_loops) <= m_thread_num
    BY EmptySeq
  <2>2. threadAt \in [Thread -> {"none", "set", "notify", "loop"}]
    OBVIOUS
  <2>3. at \in [Callers -> {"idle", "test", "reset", "index", "bump", "dealt"}]
    OBVIOUS
  <2>4. /\ m_loop \in [Thread -> Thread \cup {NullLoop}]
        /\ index \in [Callers -> Nat]
        /\ dealt \in [Callers -> Thread \cup {NullLoop, WildLoop}]
    OBVIOUS
  <2> QED
    BY <2>1, <2>2, <2>3, <2>4 DEF PoolTypeOK
<1>2. StartInv
  BY DEF StartInv, Starting, Thread
<1>3. DealInv
  BY DEF DealInv, Inside
<1> QED
  BY <1>1, <1>2, <1>3 DEF PoolInv

------------------------------------------------------------------------------
\* A step of start() or of a thread of the pool; no call is under way until
\* start() is done, and no loop that is real stops being so.
LEMMA StartingStep ==
    ASSUME PoolInv, StartStep \/ SpuriousWakeup
    PROVE  PoolInv'
<1> USE ThreadNumAssumption, LoopsAssumption DEF PoolInv, PoolTypeOK, StartInv, Thread, Starting, Real
<1>0. (\A c \in Callers : at[c] = "dealt" /\ ~overlapped[c] => Real(dealt[c])') => DealInv'
  <2>1. UNCHANGED dealVars /\ (starterAt = "done" => starterAt' = "done")
    BY DEF StartStep, SpuriousWakeup, CreateThread, TestLoop, Block, SetLoop, Notify
  <2> QED
    BY <2>1 DEF DealInv, dealVars, Inside
<1>1. CASE CreateThread
  <2>1. StartInv' /\ PoolTypeOK'
    BY <1>1 DEF CreateThread, dealVars
  <2>2. \A c \in Callers : at[c] = "idle"
    BY <1>1 DEF CreateThread, DealInv
  <2> QED
    BY <1>0, <2>1, <2>2
<1>2. CASE TestLoop
  <2>1. CASE m_loop[Starting] = NullLoop
    BY <1>0, <1>2, <2>1 DEF TestLoop, dealVars, DealInv
  <2>2. CASE m_loop[Starting] # NullLoop
    <3>1. /\ starterAt = "test" /\ Starting \in Thread
          /\ m_loops' = Append(m_loops, Starting) /\ Real(Starting)
          /\ UNCHANGED <<threadAt, m_loop, dealVars>>
          /\ starterAt' = IF Starting = m_thread_num THEN "done" ELSE "create"
      BY <1>2, <2>2 DEF TestLoop, PushLoop
    <3>2. /\ m_loops' \in Seq(Thread \cup {NullLoop})
          /\ Len(m_loops') = Len(m_loops) + 1
          /\ \A i \in 1 .. Len(m_loops) : m_loops'[i] = m_loops[i]
          /\ m_loops'[Starting] = Starting
      BY <3>1, AppendProperties
    <3>3. PoolTypeOK'
      BY <3>1, <3>2 DEF dealVars
    <3>4. StartInv'
      BY <3>1, <3>2
    <3> QED
      BY <1>0, <3>1, <3>3, <3>4 DEF DealInv, dealVars
  <2> QED
    BY <2>1, <2>2
<1>3. CASE Block \/ SpuriousWakeup
  BY <1>0, <1>3 DEF Block, SpuriousWakeup, dealVars, DealInv
<1>4. ASSUME NEW t \in Thread, SetLoop(t) PROVE PoolInv'
  <2>1. PoolTypeOK'
    BY <1>4 DEF SetLoop, dealVars
  <2>2. StartInv'
    BY <1>4 DEF SetLoop
  <2> QED
    BY <1>0, <1>4, <2>1, <2>2 DEF SetLoop, dealVars, DealInv
<1>5. ASSUME NEW t \in Thread, Notify(t) PROVE PoolInv'
  <2>1. PoolTypeOK'
    BY <1>5 DEF Notify, dealVars
  <2>2. StartInv'
    BY <1>5 DEF Notify
  <2> QED
    BY <1>0, <1>5, <2>1, <2>2 DEF Notify, dealVars, DealInv
<1> QED
  BY <1>1, <1>2, <1>3, <1>4, <1>5 DEF StartStep

------------------------------------------------------------------------------
\* A step of a call of get_next_loop.  If no other call has run during this one, m_next
\* is what it left it at; and a call during which this one takes a step has overlapped.
LEMMA DealingStep ==
    ASSUME PoolInv, NEW c \in Callers,
           CallNextLoop(c) \/ NextLoopStep(c) \/ UseLoop(c)
    PROVE  PoolInv'
<1> USE ThreadNumAssumption DEF PoolInv, PoolTypeOK, Goes
<1>1. /\ UNCHANGED startVars /\ starterAt = "done"
      /\ \A d \in Callers \ {c} : at'[d] = at[d] /\ index'[d] = index[d] /\ dealt'[d] = dealt[d]
  BY DEF CallNextLoop, NextLoopStep, UseLoop, TestNext, ResetNext, ReadIndex, Deal, DealInv
<1>2. StartInv'
  BY <1>1 DEF StartInv, startVars, Real, Starting
<1>3. \A l : Real(l) <=> Real(l)'
  BY <1>1 DEF Real, startVars
<1>4. CASE CallNextLoop(c)
  <2>1. overlapped' \in [Callers -> BOOLEAN]
    BY <1>4, Zenon DEF CallNextLoop, Others
  <2>2. PoolTypeOK'
    BY <1>4, <2>1 DEF CallNextLoop, startVars
  <2>3. /\ UNCHANGED <<starterAt, m_next, index, dealt>>
        /\ at'[c] = "test" /\ at[c] = "idle"
        /\ \A d \in Callers : Inside(d)' <=> Inside(d) \/ d = c
    BY <1>1, <1>4 DEF CallNextLoop, Inside, startVars
  <2>4. /\ ~overlapped'[c] => \A d \in Callers : Inside(d) => d = c
        /\ \A d \in Callers \ {c} : ~overlapped'[d] => ~overlapped[d] /\ ~Inside(d)
    BY <1>4 DEF CallNextLoop, Others
  <2>5. DealInv'
    BY <1>1, <1>3, <2>3, <2>4 DEF DealInv, Inside
  <2> QED
    BY <1>2, <2>2, <2>5
<1>5. CASE TestNext(c)
  <2>1. PoolTypeOK'
    BY <1>5 DEF TestNext, startVars
  <2> QED
    BY <1>1, <1>2, <1>3, <1>5, <2>1 DEF TestNext, DealInv, Inside, startVars
<1>6. CASE ResetNext(c)
  <2>1. PoolTypeOK'
    BY <1>6 DEF ResetNext, startVars
  <2> QED
    BY <1>1, <1>2, <1>3, <1>6, <2>1 DEF ResetNext, DealInv, Inside, startVars
<1>7. CASE ReadIndex(c)
  <2>1. PoolTypeOK'
    BY <1>7 DEF ReadIndex, startVars
  <2> QED
    BY <1>1, <1>2, <1>3, <1>7, <2>1 DEF ReadIndex, DealInv, Inside, startVars
<1>8. CASE Deal(c)
  <2>1. dealt'[c] \in Thread \cup {NullLoop, WildLoop}
    BY <1>1, <1>8 DEF Deal, StartInv
  <2>2. PoolTypeOK'
    BY <1>8, <2>1 DEF Deal, startVars
  <2>3. ~overlapped[c] => Real(dealt'[c])
    BY <1>1, <1>8 DEF Deal, StartInv, DealInv
  <2>4. \A d \in Callers : Inside(d)' => Inside(d) /\ d # c
    BY <1>1, <1>8 DEF Deal, Inside
  <2>5. /\ UNCHANGED <<starterAt, overlapped>> /\ at'[c] = "dealt" /\ Inside(c)
    BY <1>8 DEF Deal, startVars, Inside
  <2>6. DealInv'
    BY <1>1, <1>3, <2>3, <2>4, <2>5 DEF DealInv, Inside
  <2> QED
    BY <1>2, <2>2, <2>6
<1>9. CASE UseLoop(c)
  <2>1. PoolTypeOK'
    BY <1>9 DEF UseLoop, startVars
  <2>2. /\ UNCHANGED <<starterAt, m_next>> /\ at'[c] = "idle"
        /\ \A d \in Callers \ {c} : overlapped'[d] = overlapped[d]
    BY <1>9 DEF UseLoop, startVars
  <2> QED
    BY <1>1, <1>2, <1>3, <2>1, <2>2 DEF DealInv, Inside
<1> QED
  BY <1>4, <1>5, <1>6, <1>7, <1>8, <1>9 DEF NextLoopStep

LEMMA NextPoolInv == PoolInv /\ [PoolNext]_poolVars => PoolInv'
<1> SUFFICES ASSUME PoolInv, [PoolNext]_poolVars PROVE PoolInv'
  OBVIOUS
<1>1. CASE UNCHANGED poolVars
  BY <1>1 DEF poolVars, startVars, dealVars, PoolInv, PoolTypeOK, StartInv, DealInv,
              Real, Inside, Starting
<1> QED
  BY <1>1, StartingStep, DealingStep DEF PoolNext

------------------------------------------------------------------------------
\* Every variable of the pool keeps its type: in particular start() is never at
\* a thread that does not exist.
THEOREM PoolTypeCorrect == PoolSpec => []PoolTypeOK
<1>1. PoolInv => PoolTypeOK
  BY DEF PoolInv
<1> QED
  BY InitPoolInv, NextPoolInv, <1>1, PTL DEF PoolSpec

\* For any number of threads and callers, start() pushes no null loop, and a call of
\* get_next_loop during which there is no other is dealt a loop of the pool that has
\* been set up, whatever calls that overlapped have done to m_next before.
THEOREM PoolDealsAreReal == PoolSpec => []DealsAreReal
<1>1. PoolInv => DealsAreReal
  BY DEF PoolInv, StartInv, DealInv, DealsAreReal
<1> QED
  BY InitPoolInv, NextPoolInv, <1>1, PTL DEF PoolSpec

------------------------------------------------------------------------------
(* The server's inductive invariant                                         *)

Frames == {Frame[m] : m \in Messages}

\* TypeOK but for the pool
ReporterTypes ==
    /\ sent \in Seq(Messages) /\ Len(sent) <= MaxReports
    /\ unread \in [Callers -> SUBSET ReportNo]
    /\ req \in [Callers -> Messages]
    /\ queue \in [Thread -> Seq(Messages)]
    /\ storing \in [Thread -> {None} \cup [msg : Messages, at : Nat \ {0}]]
    /\ table \subseteq written
    /\ written \subseteq Rows
    /\ handed \in [Thread -> Seq(ReportNo)]
    /\ dropped \subseteq ReportNo
    /\ faults \in 0 .. MaxFaults
    /\ exited \in BOOLEAN

\* a message that is the report sent with its ts
IsReport(m) == m.ts \in DOMAIN sent /\ m = sent[m.ts]

\* no store loop has been given report n
Fresh(n) == \A s \in Thread : \A i \in DOMAIN handed[s] : handed[s][i] # n

\* A report has its number for its ts, and is given to one store loop, once.
SentInv ==
    /\ \A n \in DOMAIN sent : sent[n].ts = n
    /\ \A s \in Thread : \A i \in DOMAIN handed[s] : handed[s][i] \in DOMAIN sent
    /\ \A s, t \in Thread : \A i \in DOMAIN handed[s] : \A j \in DOMAIN handed[t] :
          handed[s][i] = handed[t][j] => s = t /\ i = j

\* It is not given away before it has been read, and is read on one connection.
UnreadInv ==
    \A c \in Callers : \A n \in unread[c] :
        /\ n \in DOMAIN sent /\ Fresh(n)
        /\ \A d \in Callers : n \in unread[d] => d = c

\* What an IO loop has in hand it has read, nobody else has, and it still has to give.
InHandInv ==
    \A c \in Callers : at[c] # "idle" =>
        /\ IsReport(req[c]) /\ Fresh(req[c].ts)
        /\ \A d \in Callers :
              /\ req[c].ts \notin unread[d]
              /\ at[d] # "idle" /\ req[d].ts = req[c].ts => d = c

\* how many of its reports a store loop has taken from its queue
Taken(s) == Len(handed[s]) - Len(queue[s])

\* A store loop's queue is the end of what it was given, and what it stores comes
\* just before that.
QueueInv ==
    \A s \in Thread :
        /\ Len(queue[s]) <= Len(handed[s])
        /\ \A i \in DOMAIN queue[s] :
              IsReport(queue[s][i]) /\ queue[s][i].ts = handed[s][Taken(s) + i]

StoringInv ==
    \A s \in Thread : storing[s] # None =>
        /\ IsReport(storing[s].msg)
        /\ Taken(s) \in DOMAIN handed[s] /\ storing[s].msg.ts = handed[s][Taken(s)]
        /\ storing[s].at \in DOMAIN storing[s].msg.results

\* a row that says what a result of the report with its ts says
IsRow(row) ==
    /\ row.ts \in DOMAIN sent
    /\ LET msg == sent[row.ts]
       IN  \E i \in DOMAIN msg.results : row = Row(msg, msg.results[i])

\* It is of a report that a store loop has taken.
RowInv ==
    \A row \in table :
        /\ IsRow(row)
        /\ \E s \in Thread : \E j \in DOMAIN handed[s] :
              handed[s][j] = row.ts /\ j <= Taken(s)

ServerInv ==
    ReporterTypes /\ SentInv /\ UnreadInv /\ InHandInv /\ QueueInv /\ StoringInv /\ RowInv

IInv == PoolInv /\ ServerInv

------------------------------------------------------------------------------
(* Messages                                                                 *)

LEMMA Number == MaxReports \in Nat /\ ReportNo \subseteq UINT32 /\ ReportNo \subseteq Nat
<1>1. MaxReports \in UINT32
  BY BoundsAssumption
<1> QED
  BY <1>1, Int32s DEF ReportNo, UINT32

LEMMA TypesHold == IInv => TypeOK
BY Zenon DEF IInv, PoolInv, ServerInv, ReporterTypes, TypeOK

LEMMA StampedFields ==
    ASSUME NEW r \in ReportStatusRequests, NEW n \in ReportNo,
           NEW m, m = [r EXCEPT !.ts = n]
    PROVE  /\ m \in ReportStatusRequests /\ m.ts = n
           /\ m = [modid |-> r.modid, cmdid |-> r.cmdid, caller |-> r.caller,
                   results |-> r.results, ts |-> n]
<1>1. n \in UINT32
  BY Number
<1>2. m = [modid |-> r.modid, cmdid |-> r.cmdid, caller |-> r.caller,
           results |-> r.results, ts |-> n]
  BY DEF ReportStatusRequests
<1>3. m.ts = n
  BY ONLY <1>2
<1> QED
  BY <1>1, <1>2, <1>3 DEF ReportStatusRequests

LEMMA MessagesAreRequests == Messages \subseteq ReportStatusRequests
<1>1. ReportStatusRequest_Clear \in ReportStatusRequests
  <2>1. 0 \in UINT32 /\ 0 \in INT32
    BY Int32s DEF UINT32, INT32
  <2>2. <<>> \in Seq(HostCallResults)
    BY EmptySeq
  <2> QED
    BY <2>1, <2>2 DEF ReportStatusRequest_Clear, ReportStatusRequests
<1>2. ASSUME NEW r \in Reports, NEW n \in ReportNo
      PROVE  [r EXCEPT !.ts = n] \in ReportStatusRequests
  BY ReportsAssumption, StampedFields
<1> QED
  BY <1>1, <1>2 DEF Messages

\* What the server parses is the message the client serialised.
LEMMA FramesAreRead ==
    ASSUME NEW m \in Messages
    PROVE  ReadBack[Frame[m]] = m /\ Frame[m] \in Frames
<1>1. PICK f : f = Frame[m]
  OBVIOUS
<1>2. f = ReportStatusRequest_SerializeToString(m) /\ f \in {Frame[x] : x \in Messages}
  BY <1>1 DEF Frame
<1>3. ReadBack[f] = ReportStatusRequest_ParseFromArray(f).msg
  BY <1>2 DEF ReadBack
<1>4. ReportStatusRequest_ParseFromArray(f) = Parsed(TRUE, m)
  BY <1>2, MessagesAreRequests, ReportStatusRequestReadsBack
<1> QED
  BY <1>1, <1>2, <1>3, <1>4 DEF Parsed, Frames

\* What the client makes of its report, and of its results one by one.
LEMMA SentMessage ==
    ASSUME NEW r \in Reports, NEW n \in ReportNo, NEW m,
           m = ReportStatusRequest_Of(r.modid, r.cmdid, r.caller,
                   [i \in DOMAIN r.results |-> HostCallResult_CopyFrom(r.results[i])], n)
    PROVE  m \in Messages /\ m.ts = n
<1>1. r \in ReportStatusRequests /\ r.results \in Seq(HostCallResults)
  BY ReportsAssumption DEF ReportStatusRequests
<1>2. PICK results : results = [i \in DOMAIN r.results |-> HostCallResult_CopyFrom(r.results[i])]
  OBVIOUS
<1>3. results = r.results
  <2>1. \A i \in DOMAIN r.results : r.results[i] \in HostCallResults
    BY <1>1
  <2>2. \A i \in DOMAIN r.results : HostCallResult_CopyFrom(r.results[i]) = r.results[i]
    BY <2>1, HostCallResultCopies, Zenon
  <2>3. \A i \in DOMAIN results : results[i] = r.results[i]
    BY <1>2, <2>2, Zenon
  <2>4. DOMAIN results = DOMAIN r.results /\ results = [i \in DOMAIN results |-> results[i]]
    BY <1>2
  <2>5. r.results = [i \in DOMAIN r.results |-> r.results[i]]
    BY <1>1
  <2> QED
    BY <2>3, <2>4, <2>5
<1>4. m = [modid |-> r.modid, cmdid |-> r.cmdid, caller |-> r.caller, results |-> results,
           ts |-> n]
  BY <1>2 DEF ReportStatusRequest_Of, ReportStatusRequest_Clear
<1>5. PICK x : x = [r EXCEPT !.ts = n]
  OBVIOUS
<1>6. m = x
  BY <1>1, <1>3, <1>4, <1>5, StampedFields
<1>7. x.ts = n
  BY <1>1, <1>5, StampedFields
<1>8. x \in Messages
  BY <1>5 DEF Messages
<1> QED
  BY <1>6, <1>7, <1>8

LEMMA SentAreMessages ==
    ASSUME ReporterTypes
    PROVE  /\ Len(sent) \in Nat /\ DOMAIN sent = 1 .. Len(sent)
           /\ DOMAIN sent \subseteq ReportNo /\ ReportNo \subseteq Nat
           /\ \A n \in DOMAIN sent : sent[n] \in Messages
<1>1. sent \in Seq(Messages) /\ Len(sent) <= MaxReports
  BY DEF ReporterTypes
<1>2. Len(sent) \in Nat /\ DOMAIN sent = 1 .. Len(sent)
  BY <1>1
<1>3. \A n \in DOMAIN sent : sent[n] \in Messages
  BY <1>1
<1> QED
  BY <1>1, <1>2, <1>3, Number DEF ReportNo

\* A step of the pool that does not hand over a report.
LEMMA PoolMoves ==
    ASSUME ServerInv, UNCHANGED serverVars, \A c \in Callers : at'[c] # "idle" => at[c] # "idle"
    PROVE  ServerInv'
<1>1. UNCHANGED <<sent, unread, req, queue, storing, table, written, faults, handed, dropped,
                  exited>>
  BY DEF serverVars, store
<1>2. ReporterTypes' /\ SentInv' /\ UnreadInv'
  BY <1>1 DEF ServerInv, ReporterTypes, SentInv, UnreadInv, Fresh
<1>3. InHandInv'
  BY <1>1 DEF ServerInv, InHandInv, IsReport, Fresh
<1>4. QueueInv' /\ StoringInv'
  BY <1>1 DEF ServerInv, QueueInv, StoringInv, IsReport, Taken
<1>5. RowInv'
  BY <1>1 DEF ServerInv, RowInv, IsRow, Taken
<1> QED
  BY <1>2, <1>3, <1>4, <1>5 DEF ServerInv

\* The reports sent stay what they are, and nobody has met the new one.
LEMMA SendingStep ==
    ASSUME ServerInv, NEW c \in Callers, NEW r \in Reports, SendReport(c, r)
    PROVE  ServerInv'
<1> USE DEF ServerInv
<1>1. PICK n : n = Len(sent) + 1
  OBVIOUS
<1>2. PICK msg : msg = ReportStatusRequest_Of(r.modid, r.cmdid, r.caller,
                          [i \in DOMAIN r.results |-> HostCallResult_CopyFrom(r.results[i])], n)
  OBVIOUS
<1>3. /\ Len(sent) < MaxReports
      /\ sent' = Append(sent, msg) /\ unread' = [unread EXCEPT ![c] = @ \cup {n}]
      /\ UNCHANGED <<at, req, queue, storing, table, written, faults, handed, dropped, exited>>
  BY <1>1, <1>2 DEF SendReport, poolVars, dealVars, store
<1>4. Len(sent) \in Nat /\ DOMAIN sent = 1 .. Len(sent) /\ sent \in Seq(Messages)
  BY SentAreMessages DEF ReporterTypes
<1>5. n \in ReportNo /\ n \in Nat /\ n \notin DOMAIN sent
  BY <1>1, <1>3, <1>4, Number DEF ReportNo
<1>6. msg \in Messages /\ msg.ts = n
  BY <1>2, <1>5, SentMessage
<1>7. /\ sent' \in Seq(Messages) /\ Len(sent') = n
      /\ DOMAIN sent' = DOMAIN sent \cup {n} /\ sent'[n] = msg
      /\ \A k \in DOMAIN sent : sent'[k] = sent[k]
  BY <1>1, <1>3, <1>4, <1>6
<1>8. \A m : IsReport(m) => IsReport(m)'
  BY <1>7 DEF IsReport
<1>9. /\ unread' \in [Callers -> SUBSET ReportNo]
      /\ \A d \in Callers : unread'[d] = IF d = c THEN unread[d] \cup {n} ELSE unread[d]
  BY <1>3, <1>5 DEF ReporterTypes
<1>10. Fresh(n) /\ \A k : Fresh(k)' <=> Fresh(k)
  BY <1>3, <1>5 DEF SentInv, Fresh
<1>11. ReporterTypes'
  <2>1. Len(sent') <= MaxReports
    BY <1>1, <1>3, <1>4, <1>7, Number
  <2> QED
    BY <1>3, <1>7, <1>9, <2>1, Zenon DEF ReporterTypes
<1>12. SentInv'
  BY <1>3, <1>6, <1>7 DEF SentInv
<1>13. UnreadInv'
  BY <1>5, <1>7, <1>9, <1>10 DEF UnreadInv
<1>14. InHandInv'
  <2>1. \A d \in Callers : at[d] # "idle" => req[d].ts # n
    BY <1>5 DEF InHandInv, IsReport
  <2>2. \A d \in Callers : at[d] # "idle" => IsReport(req[d])' /\ Fresh(req[d].ts)'
    BY <1>3, <1>8, <1>10 DEF InHandInv, IsReport, Fresh
  <2>3. \A d, e \in Callers : at[d] # "idle" => req[d].ts \notin unread'[e]
    BY <1>9, <2>1 DEF InHandInv
  <2> QED
    BY <1>3, <2>2, <2>3 DEF InHandInv
<1>15. QueueInv' /\ StoringInv'
  <2>1. \A s \in Thread : \A i \in DOMAIN queue[s] : IsReport(queue[s][i])'
    BY <1>3, <1>8 DEF QueueInv, IsReport
  <2>2. \A s \in Thread : storing[s] # None => IsReport(storing[s].msg)'
    BY <1>3, <1>8 DEF StoringInv, IsReport
  <2> QED
    BY <1>3, <2>1, <2>2 DEF QueueInv, StoringInv, Taken
<1>16. RowInv'
  <2>1. \A row : IsRow(row) => IsRow(row)'
    BY <1>7 DEF IsRow
  <2> QED
    BY <1>3, <2>1 DEF RowInv, Taken
<1> QED
  BY <1>11, <1>12, <1>13, <1>14, <1>15, <1>16

\* The IO loop takes a frame: it is read as the report that was sent.
LEMMA GettingStep ==
    ASSUME PoolInv, ServerInv, NEW c \in Callers, GetReportStatus(c)
    PROVE  ServerInv'
<1> USE DEF ServerInv
<1>1. PICK n \in unread[c] :
         /\ req' = [req EXCEPT ![c] = ReadBack[Frame[sent[n]]]]
         /\ unread' = [unread EXCEPT ![c] = @ \ {n}]
  BY DEF GetReportStatus
<1>2. /\ at[c] = "idle" /\ at' = [at EXCEPT ![c] = "test"]
      /\ UNCHANGED <<sent, queue, storing, table, written, faults, handed, dropped, exited>>
  BY DEF GetReportStatus, CallNextLoop, Goes, store
<1>3. n \in DOMAIN sent /\ Fresh(n)
  BY DEF UnreadInv
<1>4. PICK m \in Messages : m = sent[n]
  BY <1>3, SentAreMessages
<1>5. m.ts = n /\ IsReport(m)
  BY <1>3, <1>4 DEF SentInv, IsReport
<1>6. req' = [req EXCEPT ![c] = m]
  <2>1. ReadBack[Frame[m]] = m
    BY FramesAreRead
  <2> QED
    BY <1>1, <1>4, <2>1
<1>7. /\ req'[c] = m /\ req' \in [Callers -> Messages]
      /\ \A d \in Callers \ {c} : req'[d] = req[d] /\ (at'[d] # "idle" => at[d] # "idle")
  BY <1>2, <1>6 DEF ReporterTypes, PoolInv, PoolTypeOK
<1>8. /\ unread' \in [Callers -> SUBSET ReportNo]
      /\ \A d \in Callers : unread'[d] \subseteq unread[d] /\ n \notin unread'[d]
  BY <1>1 DEF ReporterTypes, UnreadInv
<1>9. \A d \in Callers : at[d] # "idle" => req[d].ts # n
  BY DEF InHandInv
<1>10. ReporterTypes' /\ SentInv'
  BY <1>2, <1>7, <1>8 DEF ReporterTypes, SentInv
<1>11. UnreadInv'
  BY <1>2, <1>8 DEF UnreadInv, Fresh
<1>12. InHandInv'
  <2> SUFFICES ASSUME NEW d \in Callers, at'[d] # "idle"
               PROVE  /\ IsReport(req'[d]) /\ Fresh(req'[d].ts)
                      /\ \A e \in Callers :
                            /\ req'[d].ts \notin unread'[e]
                            /\ at'[e] # "idle" /\ req'[e].ts = req'[d].ts => e = d
    BY <1>2 DEF InHandInv, IsReport, Fresh
  <2>1. CASE d = c
    BY <1>3, <1>5, <1>7, <1>8, <1>9, <2>1
  <2>2. CASE d # c
    BY <1>5, <1>7, <1>8, <1>9, <2>2 DEF InHandInv
  <2> QED
    BY <2>1, <2>2
<1>13. QueueInv' /\ StoringInv'
  BY <1>2 DEF QueueInv, StoringInv, IsReport, Taken
<1>14. RowInv'
  BY <1>2 DEF RowInv, IsRow, Taken
<1> QED
  BY <1>10, <1>11, <1>12, <1>13, <1>14

\* The report in hand goes to the end of a queue, and of what its store loop was given.
LEMMA AddingStep ==
    ASSUME PoolInv, ServerInv, NEW c \in Callers, AddTask(c)
    PROVE  ServerInv'
<1> USE DEF ServerInv
<1>1. PICK m : m = req[c]
  OBVIOUS
<1>2. PICK s \in Thread : s = dealt[c]
  BY DEF AddTask
<1>3. /\ at[c] = "dealt" /\ at' = [at EXCEPT ![c] = "idle"]
      /\ queue' = [queue EXCEPT ![s] = Append(@, m)]
      /\ handed' = [handed EXCEPT ![s] = Append(@, m.ts)]
      /\ UNCHANGED <<sent, unread, req, storing, table, written, faults, dropped, exited>>
  BY <1>1, <1>2 DEF AddTask, UseLoop, Goes
<1>4. /\ IsReport(m) /\ Fresh(m.ts) /\ m \in Messages
      /\ \A d \in Callers : /\ m.ts \notin unread[d]
                            /\ at[d] # "idle" /\ req[d].ts = m.ts => d = c
  BY <1>1, <1>3 DEF InHandInv, ReporterTypes
<1>5. m.ts \in DOMAIN sent /\ m.ts \in ReportNo
  BY <1>4, SentAreMessages DEF IsReport
<1>6. /\ queue' \in [Thread -> Seq(Messages)] /\ handed' \in [Thread -> Seq(ReportNo)]
      /\ \A t \in Thread : t # s => queue'[t] = queue[t] /\ handed'[t] = handed[t]
      /\ queue'[s] = Append(queue[s], m) /\ handed'[s] = Append(handed[s], m.ts)
  BY <1>3, <1>4, <1>5 DEF ReporterTypes
<1>7. PICK b \in Seq(Messages), h \in Seq(ReportNo) : b = queue[s] /\ h = handed[s]
  BY DEF ReporterTypes
<1>8. /\ Len(b) \in Nat /\ Len(h) \in Nat /\ DOMAIN b = 1 .. Len(b) /\ DOMAIN h = 1 .. Len(h)
      /\ Len(queue'[s]) = Len(b) + 1 /\ Len(handed'[s]) = Len(h) + 1
      /\ DOMAIN queue'[s] = 1 .. Len(b) + 1 /\ DOMAIN handed'[s] = 1 .. Len(h) + 1
      /\ \A i \in 1 .. Len(b) : queue'[s][i] = b[i]
      /\ \A i \in 1 .. Len(h) : handed'[s][i] = h[i]
      /\ queue'[s][Len(b) + 1] = m /\ handed'[s][Len(h) + 1] = m.ts
  BY <1>6, <1>7
<1>9. Len(b) <= Len(h)
  BY <1>7 DEF QueueInv
<1>10. \A t \in Thread : Taken(t)' = Taken(t)
  <2>1. \A t \in Thread : t # s => Taken(t)' = Taken(t)
    BY <1>6 DEF Taken
  <2>2. Taken(s)' = (Len(h) + 1) - (Len(b) + 1)
    BY <1>8 DEF Taken
  <2>3. Taken(s) = Len(h) - Len(b)
    BY <1>7 DEF Taken
  <2>4. (Len(h) + 1) - (Len(b) + 1) = Len(h) - Len(b)
    BY <1>8
  <2> QED
    BY <2>1, <2>2, <2>3, <2>4
<1>11. \A t \in Thread : \A i \in DOMAIN handed'[t] :
          \/ i \in DOMAIN handed[t] /\ handed'[t][i] = handed[t][i]
          \/ t = s /\ i = Len(h) + 1 /\ handed'[t][i] = m.ts
  <2> SUFFICES ASSUME NEW t \in Thread, NEW i \in DOMAIN handed'[t]
               PROVE  \/ i \in DOMAIN handed[t] /\ handed'[t][i] = handed[t][i]
                      \/ t = s /\ i = Len(h) + 1 /\ handed'[t][i] = m.ts
    OBVIOUS
  <2>1. CASE t # s
    BY <1>6, <2>1
  <2>2. CASE t = s
    <3>1. i \in 1 .. Len(h) \/ i = Len(h) + 1
      BY <1>8, <2>2
    <3> QED
      BY <1>7, <1>8, <2>2, <3>1
  <2> QED
    BY <2>1, <2>2
<1>12. \A t \in Thread : \A i \in DOMAIN handed[t] :
          /\ i \in DOMAIN handed'[t] /\ handed'[t][i] = handed[t][i]
          /\ handed[t][i] # m.ts
  <2> SUFFICES ASSUME NEW t \in Thread, NEW i \in DOMAIN handed[t]
               PROVE  i \in DOMAIN handed'[t] /\ handed'[t][i] = handed[t][i]
    BY <1>4 DEF Fresh
  <2>1. CASE t # s
    BY <1>6, <2>1
  <2>2. CASE t = s
    <3>1. i \in 1 .. Len(h) /\ i \in 1 .. Len(h) + 1
      BY <1>7, <1>8, <2>2
    <3> QED
      BY <1>7, <1>8, <2>2, <3>1
  <2> QED
    BY <2>1, <2>2
<1>13. \A k : Fresh(k) /\ k # m.ts => Fresh(k)'
  BY <1>11 DEF Fresh
<1>14. ReporterTypes'
  BY <1>3, <1>6 DEF ReporterTypes
<1>15. SentInv'
  <2>1. ASSUME NEW t \in Thread, NEW u \in Thread, NEW i \in DOMAIN handed'[t],
               NEW j \in DOMAIN handed'[u], handed'[t][i] = handed'[u][j]
        PROVE  t = u /\ i = j
    BY <1>11, <1>12, <2>1 DEF SentInv
  <2>2. \A t \in Thread : \A i \in DOMAIN handed'[t] : handed'[t][i] \in DOMAIN sent
    BY <1>5, <1>11 DEF SentInv
  <2> QED
    BY <1>3, <2>1, <2>2 DEF SentInv
<1>16. UnreadInv'
  BY <1>3, <1>4, <1>13 DEF UnreadInv
<1>17. InHandInv'
  <2>1. ASSUME NEW d \in Callers, at'[d] # "idle"
        PROVE  d # c /\ at[d] # "idle"
    BY <1>3, <2>1 DEF PoolInv, PoolTypeOK
  <2>2. ASSUME NEW d \in Callers, at'[d] # "idle"
        PROVE  IsReport(req[d])' /\ Fresh(req[d].ts)'
    BY <1>3, <1>4, <1>13, <2>1, <2>2 DEF InHandInv, IsReport, Fresh
  <2> QED
    BY <1>3, <2>1, <2>2 DEF InHandInv
<1>18. QueueInv'
  <2>0. UNCHANGED sent
    BY <1>3
  <2> SUFFICES ASSUME NEW t \in Thread
               PROVE  /\ Len(queue'[t]) <= Len(handed'[t])
                      /\ \A i \in DOMAIN queue'[t] :
                            /\ IsReport(queue'[t][i])
                            /\ queue'[t][i].ts = handed'[t][Taken(t)' + i]
    BY <2>0 DEF QueueInv, IsReport
  <2>1. CASE t # s
    BY <1>6, <1>10, <2>1 DEF QueueInv
  <2>2. CASE t = s
    <3>1. Taken(s) = Len(h) - Len(b) /\ Taken(t)' = Taken(s)
      BY <1>7, <1>10, <2>2 DEF Taken
    <3>2. ASSUME NEW i \in 1 .. Len(b)
          PROVE  IsReport(queue'[s][i]) /\ queue'[s][i].ts = handed'[s][Taken(s) + i]
      <4>1. IsReport(b[i]) /\ b[i].ts = h[Taken(s) + i]
        BY <1>7, <1>8 DEF QueueInv
      <4>2. Taken(s) + i \in 1 .. Len(h)
        BY <1>8, <1>9, <3>1
      <4> QED
        BY <1>8, <4>1, <4>2
    <3>3. Taken(s) + (Len(b) + 1) = Len(h) + 1
      BY <1>8, <3>1
    <3>4. ASSUME NEW i \in DOMAIN queue'[s]
          PROVE  IsReport(queue'[s][i]) /\ queue'[s][i].ts = handed'[s][Taken(s) + i]
      <4>1. CASE i = Len(b) + 1
        BY <1>4, <1>8, <3>3, <4>1
      <4>2. CASE i # Len(b) + 1
        <5>1. i \in 1 .. Len(b)
          BY <1>8, <4>2
        <5> QED
          BY <3>2, <5>1
      <4> QED
        BY <4>1, <4>2
    <3>5. Len(queue'[s]) <= Len(handed'[s])
      BY <1>8, <1>9
    <3> QED
      BY <2>2, <3>1, <3>4, <3>5
  <2> QED
    BY <2>1, <2>2
<1>19. StoringInv'
  BY <1>3, <1>10, <1>12 DEF StoringInv, IsReport
<1>20. RowInv'
  <2>1. ASSUME NEW row \in table
        PROVE  \E t \in Thread : \E j \in DOMAIN handed'[t] :
                  handed'[t][j] = row.ts /\ j <= Taken(t)'
    BY <1>10, <1>12 DEF RowInv
  <2> QED
    BY <1>3, <2>1 DEF RowInv, IsRow
<1> QED
  BY <1>14, <1>15, <1>16, <1>17, <1>18, <1>19, <1>20

\* A task dropped is not handed over.
LEMMA DroppingStep ==
    ASSUME PoolInv, ServerInv, NEW c \in Callers, AddTaskNowhere(c)
    PROVE  ServerInv'
<1> USE DEF ServerInv
<1>1. PICK n : n = req[c].ts
  OBVIOUS
<1>2. /\ at[c] = "dealt" /\ at' = [at EXCEPT ![c] = "idle"]
      /\ dropped' = dropped \cup {n}
      /\ exited' \in BOOLEAN
      /\ UNCHANGED <<sent, unread, req, queue, storing, table, written, faults, handed>>
  BY <1>1 DEF AddTaskNowhere, UseLoop, Goes, store
<1>3. n \in ReportNo
  BY <1>1, <1>2, SentAreMessages DEF InHandInv, IsReport
<1>4. \A d \in Callers : at'[d] # "idle" => at[d] # "idle"
  BY <1>2 DEF PoolInv, PoolTypeOK
<1>5. ReporterTypes' /\ SentInv' /\ UnreadInv'
  BY <1>2, <1>3 DEF ReporterTypes, SentInv, UnreadInv, Fresh
<1>6. InHandInv'
  BY <1>2, <1>4 DEF InHandInv, IsReport, Fresh
<1>7. QueueInv' /\ StoringInv'
  BY <1>2 DEF QueueInv, StoringInv, IsReport, Taken
<1>8. RowInv'
  BY <1>2 DEF RowInv, IsRow, Taken
<1> QED
  BY <1>5, <1>6, <1>7, <1>8

------------------------------------------------------------------------------
(* Store loops                                                              *)

\* A step of a store loop leaves the connections alone.
LEMMA ConnectionsStay ==
    ASSUME SentInv, UnreadInv, InHandInv, UNCHANGED <<at, sent, unread, req, handed>>
    PROVE  SentInv' /\ UnreadInv' /\ InHandInv'
<1>1. SentInv' /\ UnreadInv'
  BY DEF SentInv, UnreadInv, Fresh
<1>2. InHandInv'
  BY DEF InHandInv, IsReport, Fresh
<1> QED
  BY <1>1, <1>2

\* the loop of store() at one of its results, or past the last
LEMMA RoundTypes ==
    ASSUME NEW m \in Messages, NEW i \in Nat \ {0}, NEW x, x = Round(m, i)
    PROVE  /\ x \in {None} \cup [msg : Messages, at : Nat \ {0}]
           /\ x # None => x.msg = m /\ x.at \in DOMAIN m.results
<1>1. m.results \in Seq(HostCallResults)
  BY MessagesAreRequests DEF ReportStatusRequests
<1>2. CASE i <= Len(m.results)
  <2>1. x = [msg |-> m, at |-> i]
    BY <1>2 DEF Round
  <2>2. x.msg = m /\ x.at = i
    BY ONLY <2>1
  <2>3. i \in DOMAIN m.results
    BY <1>1, <1>2
  <2>4. x \in [msg : Messages, at : Nat \ {0}]
    BY <2>1
  <2> QED
    BY <2>2, <2>3, <2>4
<1>3. CASE ~(i <= Len(m.results))
  BY <1>3 DEF Round
<1> QED
  BY <1>2, <1>3

\* The first task: it is the next of those its loop was given.
LEMMA ConnectingStep ==
    ASSUME ServerInv, NEW s \in Thread, ConnectDb(s)
    PROVE  ServerInv'
<1> USE DEF ServerInv
<1>1. PICK b \in Seq(Messages), h \in Seq(ReportNo) : b = queue[s] /\ h = handed[s]
  BY DEF ReporterTypes
<1>2. PICK m : m = Head(b)
  OBVIOUS
<1>3. PICK x : x = Round(m, 1)
  OBVIOUS
<1>4. /\ b # <<>> /\ storing[s] = None
      /\ queue' = [queue EXCEPT ![s] = Tail(b)]
      /\ storing' = [storing EXCEPT ![s] = x]
      /\ UNCHANGED <<at, sent, unread, req, table, written, faults, handed, dropped, exited>>
  BY <1>1, <1>2, <1>3 DEF ConnectDb, poolVars, dealVars
<1>5. /\ 1 \in DOMAIN b /\ m = b[1] /\ m \in Messages
      /\ Tail(b) \in Seq(Messages) /\ Len(b) \in Nat /\ Len(Tail(b)) = Len(b) - 1
      /\ \A i \in DOMAIN Tail(b) : i \in Nat /\ i + 1 \in DOMAIN b /\ Tail(b)[i] = b[i + 1]
      /\ Len(h) \in Nat /\ DOMAIN h = 1 .. Len(h) /\ 1 <= Len(b)
  BY <1>2, <1>4
<1>6. /\ x \in {None} \cup [msg : Messages, at : Nat \ {0}]
      /\ x # None => x.msg = m /\ x.at \in DOMAIN m.results
  BY <1>3, <1>5, RoundTypes
<1>7. /\ queue' \in [Thread -> Seq(Messages)] /\ queue'[s] = Tail(b)
      /\ storing' \in [Thread -> {None} \cup [msg : Messages, at : Nat \ {0}]]
      /\ storing'[s] = x
      /\ \A t \in Thread : t # s => queue'[t] = queue[t] /\ storing'[t] = storing[t]
  BY <1>4, <1>5, <1>6 DEF ReporterTypes
<1>8. /\ Taken(s)' = Taken(s) + 1 /\ Taken(s) = Len(h) - Len(b) /\ Len(b) <= Len(h)
      /\ \A t \in Thread : t # s => Taken(t)' = Taken(t)
  <2>1. Taken(s) = Len(h) - Len(b) /\ Len(b) <= Len(h)
    BY <1>1 DEF Taken, QueueInv
  <2>2. Taken(s)' = Len(h) - Len(Tail(b))
    BY <1>1, <1>4, <1>7 DEF Taken
  <2>3. \A t \in Thread : t # s => Taken(t)' = Taken(t)
    BY <1>4, <1>7 DEF Taken
  <2> QED
    BY <1>5, <2>1, <2>2, <2>3
<1>9. \A i \in DOMAIN b : IsReport(b[i]) /\ b[i].ts = h[Taken(s) + i]
  BY <1>1 DEF QueueInv
<1>10. ReporterTypes'
  BY <1>4, <1>7 DEF ReporterTypes
<1>11. SentInv' /\ UnreadInv' /\ InHandInv'
  BY <1>4, ConnectionsStay
<1>12. QueueInv'
  <2> SUFFICES ASSUME NEW t \in Thread
               PROVE  /\ Len(queue'[t]) <= Len(handed[t])
                      /\ \A i \in DOMAIN queue'[t] :
                            /\ IsReport(queue'[t][i])
                            /\ queue'[t][i].ts = handed[t][Taken(t)' + i]
    BY <1>4 DEF QueueInv, IsReport
  <2>1. CASE t # s
    BY <1>7, <1>8, <2>1 DEF QueueInv
  <2>2. CASE t = s
    <3>1. \A i \in DOMAIN Tail(b) : (Taken(s) + 1) + i = Taken(s) + (i + 1)
      BY <1>5, <1>8
    <3>2. \A i \in DOMAIN Tail(b) :
             IsReport(Tail(b)[i]) /\ Tail(b)[i].ts = h[(Taken(s) + 1) + i]
      BY <1>5, <1>9, <3>1
    <3>3. queue'[t] = Tail(b) /\ handed[t] = h /\ Taken(t)' = Taken(s) + 1
      BY <1>1, <1>7, <1>8, <2>2
    <3>4. Len(Tail(b)) <= Len(h)
      BY <1>5, <1>8
    <3> QED
      BY <3>2, <3>3, <3>4
  <2> QED
    BY <2>1, <2>2
<1>13. StoringInv'
  <2> SUFFICES ASSUME NEW t \in Thread, storing'[t] # None
               PROVE  /\ IsReport(storing'[t].msg)
                      /\ Taken(t)' \in DOMAIN handed[t]
                      /\ storing'[t].msg.ts = handed[t][Taken(t)']
                      /\ storing'[t].at \in DOMAIN storing'[t].msg.results
    BY <1>4 DEF StoringInv, IsReport
  <2>1. CASE t # s
    BY <1>7, <1>8, <2>1 DEF StoringInv
  <2>2. CASE t = s
    <3>1. storing'[t] = x /\ handed[t] = h /\ Taken(t)' = Taken(s) + 1 /\ x # None
      BY <1>1, <1>7, <1>8, <2>2
    <3>2. IsReport(m) /\ m.ts = h[Taken(s) + 1]
      BY <1>5, <1>9
    <3>3. Taken(s) + 1 \in DOMAIN h
      BY <1>5, <1>8
    <3> QED
      BY <1>6, <3>1, <3>2, <3>3
  <2> QED
    BY <2>1, <2>2
<1>14. RowInv'
  <2>1. \A t \in Thread : \A j \in DOMAIN handed[t] : j <= Taken(t) => j <= Taken(t)'
    <3>1. \A j \in DOMAIN h : j <= Taken(s) => j <= Taken(s) + 1
      BY <1>5, <1>8
    <3> QED
      BY <1>1, <1>8, <3>1
  <2> QED
    BY <1>4, <2>1 DEF RowInv, IsRow
<1> QED
  BY <1>10, <1>11, <1>12, <1>13, <1>14

LEMMA RowFields ==
    ASSUME NEW m, NEW result
    PROVE  /\ Row(m, result).ts = m.ts
           /\ PrimaryKey(Row(m, result)) = <<m.modid, m.cmdid, result.ip, result.port, m.caller>>
<1>1. PICK row : row = Row(m, result)
  OBVIOUS
<1>2. row = [modid |-> m.modid, cmdid |-> m.cmdid, ip |-> result.ip, port |-> result.port,
             caller |-> m.caller, succ_cnt |-> result.succ, err_cnt |-> result.err,
             ts |-> m.ts, overload |-> IF result.overload THEN 1 ELSE 0]
  BY <1>1 DEF Row
<1>3. /\ row.ts = m.ts /\ row.modid = m.modid /\ row.cmdid = m.cmdid /\ row.ip = result.ip
      /\ row.port = result.port /\ row.caller = m.caller
  BY ONLY <1>2
<1> QED
  BY <1>1, <1>3 DEF PrimaryKey

\* ON DUPLICATE KEY UPDATE sets every column that is not in the key.
LEMMA UpdateReplaces ==
    ASSUME NEW m, NEW result, NEW n, NEW other, NEW old, NEW row,
           old = Row(n, other), row = Row(m, result), PrimaryKey(old) = PrimaryKey(row)
    PROVE  Update(old, row) = row
<1>1. /\ n.modid = m.modid /\ n.cmdid = m.cmdid /\ other.ip = result.ip
      /\ other.port = result.port /\ n.caller = m.caller
  <2>1. <<n.modid, n.cmdid, other.ip, other.port, n.caller>>
           = <<m.modid, m.cmdid, result.ip, result.port, m.caller>>
    BY RowFields
  <2> QED
    BY ONLY <2>1
<1>2. PICK over, under : /\ over = IF result.overload THEN 1 ELSE 0
                         /\ under = IF other.overload THEN 1 ELSE 0
  OBVIOUS
<1>3. row = [modid |-> m.modid, cmdid |-> m.cmdid, ip |-> result.ip, port |-> result.port,
             caller |-> m.caller, succ_cnt |-> result.succ, err_cnt |-> result.err,
             ts |-> m.ts, overload |-> over]
  BY <1>2 DEF Row
<1>4. old = [modid |-> m.modid, cmdid |-> m.cmdid, ip |-> result.ip, port |-> result.port,
             caller |-> m.caller, succ_cnt |-> other.succ, err_cnt |-> other.err,
             ts |-> n.ts, overload |-> under]
  BY <1>1, <1>2 DEF Row
<1>5. /\ row.succ_cnt = result.succ /\ row.err_cnt = result.err /\ row.ts = m.ts
      /\ row.overload = over
  BY ONLY <1>3
<1>6. PICK a : a = [old EXCEPT !.succ_cnt = result.succ]
  OBVIOUS
<1>7. a = [modid |-> m.modid, cmdid |-> m.cmdid, ip |-> result.ip, port |-> result.port,
           caller |-> m.caller, succ_cnt |-> result.succ, err_cnt |-> other.err,
           ts |-> n.ts, overload |-> under]
  BY ONLY <1>4, <1>6
<1>8. PICK b : b = [a EXCEPT !.err_cnt = result.err]
  OBVIOUS
<1>9. b = [modid |-> m.modid, cmdid |-> m.cmdid, ip |-> result.ip, port |-> result.port,
           caller |-> m.caller, succ_cnt |-> result.succ, err_cnt |-> result.err,
           ts |-> n.ts, overload |-> under]
  BY ONLY <1>7, <1>8
<1>10. PICK c : c = [b EXCEPT !.ts = m.ts]
  OBVIOUS
<1>11. c = [modid |-> m.modid, cmdid |-> m.cmdid, ip |-> result.ip, port |-> result.port,
           caller |-> m.caller, succ_cnt |-> result.succ, err_cnt |-> result.err,
           ts |-> m.ts, overload |-> under]
  BY ONLY <1>9, <1>10
<1>12. PICK d : d = [c EXCEPT !.overload = over]
  OBVIOUS
<1>13. d = row
  BY ONLY <1>3, <1>11, <1>12
<1>14. [old EXCEPT !.succ_cnt = result.succ, !.err_cnt = result.err,
                   !.ts = m.ts, !.overload = over] = d
  BY ONLY <1>6, <1>8, <1>10, <1>12
<1>15. Update(old, row) = [old EXCEPT !.succ_cnt = result.succ, !.err_cnt = result.err,
                                      !.ts = m.ts, !.overload = over]
  BY <1>5 DEF Update
<1> QED
  BY <1>13, <1>14, <1>15, Zenon

\* What the table holds after a statement that succeeds.
LEMMA UpsertRows ==
    ASSUME NEW m, NEW result, NEW row, row = Row(m, result),
           \A old \in table : \E n, other : old = Row(n, other)
    PROVE  Upsert(row) \subseteq table \cup {row}
<1>1. ASSUME NEW old \in SameKey(row)
      PROVE  Update(old, row) = row
  <2>1. old \in table /\ PrimaryKey(old) = PrimaryKey(row)
    BY DEF SameKey
  <2>2. PICK n, other : old = Row(n, other)
    BY <2>1
  <2> QED
    BY <2>1, <2>2, UpdateReplaces
<1>2. {Update(old, row) : old \in SameKey(row)} \subseteq {row}
  BY <1>1
<1> QED
  BY <1>2 DEF Upsert

LEMMA RowsAreRows == RowInv => \A old \in table : \E n, other : old = Row(n, other)
BY DEF RowInv, IsRow

\* The row of the result that a store loop is at.
LEMMA NextRowIs ==
    ASSUME ServerInv, NEW s \in Thread, storing[s] # None
    PROVE  /\ storing[s].msg \in Messages /\ storing[s].at \in Nat \ {0}
           /\ IsRow(NextRow(s)) /\ NextRow(s) \in Rows
           /\ Taken(s) \in DOMAIN handed[s] /\ handed[s][Taken(s)] = NextRow(s).ts
<1> USE DEF ServerInv
<1>1. PICK x : x = storing[s]
  OBVIOUS
<1>2. /\ x \in [msg : Messages, at : Nat \ {0}]
      /\ IsReport(x.msg) /\ x.at \in DOMAIN x.msg.results
      /\ Taken(s) \in DOMAIN handed[s] /\ x.msg.ts = handed[s][Taken(s)]
  BY <1>1 DEF ReporterTypes, StoringInv
<1>3. PICK m, i : m = x.msg /\ i = x.at
  OBVIOUS
<1>4. m \in Messages /\ i \in Nat \ {0}
  BY <1>2, <1>3
<1>5. PICK row : row = Row(m, m.results[i])
  OBVIOUS
<1>6. row = NextRow(s)
  BY <1>1, <1>3, <1>5 DEF NextRow
<1>7. row.ts = m.ts
  BY <1>5, RowFields
<1>8. m.ts \in DOMAIN sent /\ m = sent[m.ts] /\ i \in DOMAIN m.results
  BY <1>2, <1>3 DEF IsReport
<1>9. IsRow(row)
  BY <1>5, <1>7, <1>8 DEF IsRow
<1>10. row \in Rows
  BY <1>4, <1>5, <1>8 DEF Rows
<1> QED
  BY <1>1, <1>2, <1>3, <1>4, <1>6, <1>7, <1>9, <1>10

\* On to the next result, with the row of this one in the table or not.
LEMMA NextResultStep ==
    ASSUME ServerInv, NEW s \in Thread, storing[s] # None, NextResult(s),
           table' \subseteq table \cup {NextRow(s)}, table' \subseteq written',
           written' \subseteq written \cup {NextRow(s)}, faults' \in 0 .. MaxFaults,
           UNCHANGED <<at, sent, unread, req, queue, handed, dropped, exited>>
    PROVE  ServerInv'
<1> USE DEF ServerInv
<1>1. PICK m, i : m = storing[s].msg /\ i = storing[s].at
  OBVIOUS
<1>2. m \in Messages /\ i \in Nat \ {0} /\ i + 1 \in Nat \ {0}
  BY <1>1, NextRowIs
<1>3. PICK x : x = Round(m, i + 1)
  OBVIOUS
<1>4. storing' = [storing EXCEPT ![s] = x]
  BY <1>1, <1>3 DEF NextResult
<1>5. /\ x \in {None} \cup [msg : Messages, at : Nat \ {0}]
      /\ x # None => x.msg = m /\ x.at \in DOMAIN m.results
  BY <1>2, <1>3, RoundTypes
<1>6. /\ storing' \in [Thread -> {None} \cup [msg : Messages, at : Nat \ {0}]]
      /\ storing'[s] = x /\ \A t \in Thread : t # s => storing'[t] = storing[t]
  BY <1>4, <1>5 DEF ReporterTypes
<1>7. ReporterTypes'
  <2>1. written' \subseteq Rows
    BY NextRowIs DEF ReporterTypes
  <2> QED
    BY <1>6, <2>1 DEF ReporterTypes
<1>8. SentInv' /\ UnreadInv' /\ InHandInv'
  BY ConnectionsStay
<1>9. QueueInv'
  BY DEF QueueInv, IsReport, Taken
<1>10. StoringInv'
  <2>1. ASSUME NEW t \in Thread, storing'[t] # None
        PROVE  /\ storing[t] # None /\ storing'[t].msg = storing[t].msg
               /\ storing'[t].at \in DOMAIN storing[t].msg.results
    BY <1>1, <1>5, <1>6, <2>1 DEF StoringInv
  <2> QED
    BY <2>1 DEF StoringInv, IsReport, Taken
<1>11. RowInv'
  <2> SUFFICES ASSUME NEW row \in table'
               PROVE  /\ IsRow(row)
                      /\ \E t \in Thread : \E j \in DOMAIN handed[t] :
                            handed[t][j] = row.ts /\ j <= Taken(t)
    BY DEF RowInv, IsRow, Taken
  <2>1. CASE row \in table
    BY <2>1 DEF RowInv
  <2>2. CASE row = NextRow(s)
    <3>1. Taken(s) <= Taken(s)
      BY DEF Taken, ReporterTypes
    <3> QED
      BY <2>2, <3>1, NextRowIs
  <2> QED
    BY <2>1, <2>2
<1> QED
  BY <1>7, <1>8, <1>9, <1>10, <1>11

LEMMA StoringStep ==
    ASSUME ServerInv, NEW s \in Thread, StoreResult(s) \/ QueryFails(s)
    PROVE  ServerInv'
<1>1. /\ storing[s] # None /\ NextResult(s)
      /\ UNCHANGED <<at, sent, unread, req, queue, handed, dropped, exited>>
  BY DEF StoreResult, QueryFails, poolVars, dealVars
<1>2. table \subseteq written /\ faults \in 0 .. MaxFaults
  BY DEF ServerInv, ReporterTypes
<1>3. CASE StoreResult(s)
  <2>1. PICK row : row = NextRow(s)
    OBVIOUS
  <2>2. table' = Upsert(row) /\ written' = written \cup (table' \ table) /\ faults' = faults
    BY <1>3, <2>1 DEF StoreResult
  <2>3. Upsert(row) \subseteq table \cup {row}
    <3>1. \E m, result : row = Row(m, result)
      BY <2>1 DEF NextRow
    <3>2. \A old \in table : \E n, other : old = Row(n, other)
      BY RowsAreRows DEF ServerInv
    <3> QED
      BY <3>1, <3>2, UpsertRows
  <2>4. /\ table' \subseteq table \cup {NextRow(s)} /\ table' \subseteq written'
        /\ written' \subseteq written \cup {NextRow(s)}
    BY <1>2, <2>1, <2>2, <2>3
  <2> QED
    BY <1>1, <1>2, <2>2, <2>4, NextResultStep
<1>4. CASE QueryFails(s)
  <2>1. table' = table /\ written' = written
    BY <1>4 DEF QueryFails
  <2>2. faults' \in 0 .. MaxFaults
    BY <1>2, <1>4, BoundsAssumption DEF QueryFails
  <2>3. /\ table' \subseteq table \cup {NextRow(s)} /\ table' \subseteq written'
        /\ written' \subseteq written \cup {NextRow(s)}
    BY <1>2, <2>1
  <2> QED
    BY <1>1, <2>2, <2>3, NextResultStep
<1> QED
  BY <1>3, <1>4

LEMMA ExitingStep ==
    ASSUME ServerInv, NEW s \in Thread, ConnectFails(s)
    PROVE  ServerInv'
<1> USE DEF ServerInv
<1>1. UNCHANGED <<at, sent, unread, req, queue, storing, table, written, faults, handed, dropped>>
      /\ exited' = TRUE
  BY DEF ConnectFails, poolVars, dealVars, store
<1>2. ReporterTypes'
  BY <1>1 DEF ReporterTypes
<1>3. SentInv' /\ UnreadInv' /\ InHandInv'
  BY <1>1, ConnectionsStay
<1>4. QueueInv' /\ StoringInv'
  BY <1>1 DEF QueueInv, StoringInv, IsReport, Taken
<1>5. RowInv'
  BY <1>1 DEF RowInv, IsRow, Taken
<1> QED
  BY <1>2, <1>3, <1>4, <1>5

------------------------------------------------------------------------------
(* The specification                                                        *)

LEMMA InitServerInv == Init => ServerInv
<1> SUFFICES ASSUME Init PROVE ServerInv
  OBVIOUS
<1> USE DEF Init
<1>1. ReporterTypes
  <2>1. /\ sent \in Seq(Messages) /\ Len(sent) = 0
        /\ unread \in [Callers -> SUBSET ReportNo] /\ queue \in [Thread -> Seq(Messages)]
        /\ handed \in [Thread -> Seq(ReportNo)]
    BY EmptySeq
  <2>2. req \in [Callers -> Messages]
    BY DEF Messages
  <2>3. storing \in [Thread -> {None} \cup [msg : Messages, at : Nat \ {0}]]
    OBVIOUS
  <2>4. faults \in 0 .. MaxFaults /\ 0 <= MaxReports
    BY BoundsAssumption, Number
  <2> QED
    BY <2>1, <2>2, <2>3, <2>4 DEF ReporterTypes
<1>2. /\ DOMAIN sent = {} /\ \A c \in Callers : unread[c] = {}
      /\ \A s \in Thread : DOMAIN handed[s] = {}
      /\ \A s \in Thread : DOMAIN queue[s] = {} /\ Len(queue[s]) = 0 /\ Len(handed[s]) = 0
  OBVIOUS
<1>3. SentInv
  BY <1>2 DEF SentInv
<1>4. UnreadInv /\ InHandInv
  BY <1>2 DEF UnreadInv, InHandInv, PoolInit
<1>5. QueueInv /\ StoringInv /\ RowInv
  BY <1>2 DEF QueueInv, StoringInv, RowInv
<1> QED
  BY <1>1, <1>3, <1>4, <1>5 DEF ServerInv

\* Each step is a step of the pool, or leaves it alone.
LEMMA StepsUsePool == Next => [PoolNext]_poolVars
<1>1. ASSUME NEW c \in Callers, IoStep(c) PROVE PoolNext
  BY <1>1 DEF IoStep, GetReportStatus, AddTask, AddTaskNowhere, PoolNext
<1>2. ASSUME NEW c \in Callers, NEW r \in Reports, SendReport(c, r) PROVE UNCHANGED poolVars
  BY <1>2 DEF SendReport
<1>3. ASSUME NEW s \in Thread, ConnectFails(s) \/ StoreStep(s) PROVE UNCHANGED poolVars
  BY <1>3 DEF ConnectFails, StoreStep, ConnectDb, StoreResult, QueryFails
<1>4. CASE Starts \/ SpuriousWakeup
  BY <1>4 DEF Starts, PoolNext
<1> QED
  BY <1>1, <1>2, <1>3, <1>4 DEF Next

LEMMA StepServerInv == PoolInv /\ ServerInv /\ [Next]_vars => ServerInv'
<1> SUFFICES ASSUME PoolInv, ServerInv, [Next]_vars PROVE ServerInv'
  OBVIOUS
<1>1. CASE Starts \/ (SpuriousWakeup /\ UNCHANGED serverVars)
  <2>1. UNCHANGED serverVars /\ at' = at
    BY <1>1 DEF Starts, StartStep, SpuriousWakeup, CreateThread, TestLoop, Block, SetLoop,
                Notify, dealVars
  <2> QED
    BY <2>1, PoolMoves
<1>2. ASSUME NEW c \in Callers, NEW r \in Reports, SendReport(c, r) PROVE ServerInv'
  BY <1>2, SendingStep
<1>3. ASSUME NEW c \in Callers, IoStep(c) PROVE ServerInv'
  <2>1. CASE NextLoopStep(c) /\ UNCHANGED serverVars
    <3>1. \A d \in Callers : at'[d] # "idle" => at[d] # "idle"
      BY <2>1 DEF NextLoopStep, TestNext, ResetNext, ReadIndex, Deal, Goes, PoolInv, PoolTypeOK
    <3> QED
      BY <2>1, <3>1, PoolMoves
  <2> QED
    BY <1>3, <2>1, GettingStep, AddingStep, DroppingStep DEF IoStep
<1>4. ASSUME NEW s \in Thread, ConnectFails(s) \/ StoreStep(s) PROVE ServerInv'
  BY <1>4, ExitingStep, ConnectingStep, StoringStep DEF StoreStep
<1>5. CASE UNCHANGED vars
  <2>1. UNCHANGED serverVars /\ at' = at
    BY <1>5 DEF vars, poolVars, dealVars
  <2> QED
    BY <2>1, PoolMoves
<1> QED
  BY <1>1, <1>2, <1>3, <1>4, <1>5 DEF Next

\* The reporter uses its pool as LoopPool says: no call before start() has returned,
\* and a caller uses the loop it was dealt before it calls again.
THEOREM ReporterUsesPool == Spec => PoolSpec
<1>1. Init => PoolInit
  BY DEF Init
<1>2. [Next]_vars => [PoolNext]_poolVars
  BY StepsUsePool DEF vars
<1> QED
  BY <1>1, <1>2, PTL DEF Spec, PoolSpec

LEMMA Invariance == Spec => []IInv
<1>1. PoolSpec => []PoolInv
  BY InitPoolInv, NextPoolInv, PTL DEF PoolSpec
<1>2. Spec => []PoolInv
  BY <1>1, ReporterUsesPool, PTL
<1>3. Spec => []ServerInv
  BY <1>2, InitServerInv, StepServerInv, PTL DEF Spec
<1>4. PoolInv /\ ServerInv => IInv
  BY DEF IInv
<1> QED
  BY <1>2, <1>3, <1>4, PTL

\* What the server keeps has its type: what a frame is read as, and waits in a queue
\* or is being stored, is a message that a client made, and a row is one of theirs.
THEOREM TypeCorrect == Spec => []TypeOK
BY Invariance, TypesHold, PTL

\* In the reporter too, start() pushes no null loop, and a task goes to a loop that has
\* been set up unless another IO loop was in get_next_loop at the same time.
THEOREM ReporterDealsAreReal == Spec => []DealsAreReal
BY ReporterUsesPool, PoolDealsAreReal, PTL

\* A row that is written says what a result of the report with its ts says, and takes
\* the place of no row of a report that the same store loop was given later.
THEOREM RowsAreOfReports == Spec => RowsFollowReports
<1> DEFINE Follows ==
      \A row \in table' \ table :
        /\ row.ts \in DOMAIN sent
        /\ LET msg == sent[row.ts]
           IN  \E i \in DOMAIN msg.results : row = Row(msg, msg.results[i])
        /\ \A old \in SameKey(row) : ~GivenAfter(row.ts, old.ts)
<1>1. IInv /\ [Next]_vars => [Follows]_vars
  <2> SUFFICES ASSUME IInv, [Next]_vars, NEW row \in table' \ table
               PROVE  /\ IsRow(row)
                      /\ \A old \in SameKey(row) : ~GivenAfter(row.ts, old.ts)
    BY DEF IsRow
  <2>1. PICK s \in Thread : StoreResult(s)
    <3>1. table' # table
      OBVIOUS
    <3> QED
      BY <3>1 DEF Next, Starts, IoStep, StoreStep, SendReport, GetReportStatus, AddTask,
                  AddTaskNowhere, ConnectFails, ConnectDb, QueryFails, serverVars, vars, store
  <2>2. storing[s] # None /\ row = NextRow(s)
    <3>1. storing[s] # None /\ table' = Upsert(NextRow(s))
      BY <2>1 DEF StoreResult
    <3>2. PICK new : new = NextRow(s)
      OBVIOUS
    <3>3. Upsert(new) \subseteq table \cup {new}
      <4>1. \E m, result : new = Row(m, result)
        BY <3>2 DEF NextRow
      <4>2. \A old \in table : \E n, other : old = Row(n, other)
        BY RowsAreRows DEF IInv, ServerInv
      <4> QED
        BY <4>1, <4>2, UpsertRows
    <3> QED
      BY <3>1, <3>2, <3>3
  <2>3. IsRow(row) /\ Taken(s) \in DOMAIN handed[s] /\ handed[s][Taken(s)] = row.ts
    BY <2>2, NextRowIs DEF IInv
  <2>4. ASSUME NEW old \in SameKey(row), NEW t \in Thread, NEW i \in DOMAIN handed[t],
               NEW j \in DOMAIN handed[t], i < j, handed[t][i] = row.ts, handed[t][j] = old.ts
        PROVE  FALSE
    <3>1. t = s /\ i = Taken(s)
      BY <2>3, <2>4 DEF IInv, ServerInv, SentInv
    <3>2. PICK u \in Thread :
              \E k \in DOMAIN handed[u] : handed[u][k] = old.ts /\ k <= Taken(u)
      BY DEF SameKey, IInv, ServerInv, RowInv
    <3>3. PICK k \in DOMAIN handed[u] : handed[u][k] = old.ts /\ k <= Taken(u)
      BY <3>2
    <3>4. u = t /\ k = j
      BY <2>4, <3>3 DEF IInv, ServerInv, SentInv
    <3>5. i \in Nat /\ j \in Nat
      BY DEF IInv, ServerInv, ReporterTypes
    <3> QED
      BY <2>4, <3>1, <3>3, <3>4, <3>5
  <2> QED
    BY <2>3, <2>4 DEF GivenAfter
<1> QED
  BY <1>1, Invariance, PTL DEF Spec, RowsFollowReports

==============================================================================
