----------------------------- MODULE Agent_proofs -----------------------------
(***************************************************************************)
(* For any clients, keys, and bounds, and any of the three UDP servers:    *)
(* the types; that an answer reaches the client that asked; and that       *)
(* NOEXIST is answered on the strength of a pull.                          *)
(***************************************************************************)
EXTENDS Agent, LarsProto_proofs, FiniteSetTheorems

-----------------------------------------------------------------------------
(* The inductive invariant                                                 *)

Places == {"start", "register", "idle", "check", "status", "reply", "delete"} \cup MapPlaces

Works == [at : Places, rl : RouteLbs, key : Keys, lb : 0 .. MaxLb, seq : 0 .. MaxReq,
          hosts : BOOLEAN]

Frames == {RequestFrame[m] : m \in Requests}

\* TypeOK in parts: clients and sockets; threads; load_balances; the connection.
ClientTypes ==
    /\ dgrams \in [Servers -> Seq([from : Clients, frame : Frames])]
    /\ m_client_addr \in [Servers -> Clients \cup {None}]
    /\ asked \subseteq Clients \X Requests /\ answered \subseteq Clients \X Responses

WorkTypes == work \in [Threads -> Works]

LbTypes ==
    /\ m_lb_map \in [RouteLbs -> [Keys -> LbIds \cup {None}]]
    /\ status \in [LbIds -> {"free", "uninit", "PULLING", "deleted"}]
    /\ posted \subseteq LbIds \X Keys
    /\ tasks \in Seq(LbIds)

ConnTypes ==
    /\ mainAt \in {"thread", "client", "connect", "done"}
    /\ handlers \in [{ID_GetHostRequest, ID_GetRouteResponse} -> Servers \cup {Dns, None}]
    /\ tcp \in {"none", "syn", "up", "closed", "failed"}
    /\ events \subseteq {"IN", "OUT"}
    /\ m_connected \in BOOLEAN
    /\ m_obuf \in Nat
    /\ pushes \in Seq({RouteFrame[m] : m \in Routes})
    /\ Len(pushes) <= pushed /\ pushed \in 0 .. MaxPush
    /\ exited \in BOOLEAN

\* Requests are numbered by how many were asked: a client asks once.
AskedOnce ==
    /\ IsFiniteSet(asked)
    /\ Cardinality(asked) = Cardinality({a[1] : a \in asked})

\* What is in a socket was asked by the client it comes from.
DatagramsAreAsked ==
    \A u \in Servers : \A i \in DOMAIN dgrams[u] :
        \E q \in Requests :
            <<dgrams[u][i].from, q>> \in asked /\ dgrams[u][i].frame = RequestFrame[q]

\* from do_read to the answer
Busy == {"find", "insert", "pull", "status", "check", "reply"}

\* What a server works on was asked by the client in m_client_addr.
WorkIsAsked ==
    \A u \in Servers :
        work[u].at \in Busy =>
            \E q \in Requests :
                /\ <<m_client_addr[u], q>> \in asked
                /\ work[u].seq = q.seq /\ work[u].key = <<q.modid, q.cmdid>>

\* get_host_handler is bound to the route_lb of a server, and only the dns client's
\* loop deletes load_balances.
HandlersAreServers ==
    /\ handlers[ID_GetHostRequest] \in Servers \cup {None}
    /\ \A u \in Servers : work[u].at \notin {"delete", "erase"}

IInv ==
    /\ ClientTypes /\ WorkTypes /\ LbTypes /\ ConnTypes
    /\ AskedOnce /\ DatagramsAreAsked /\ WorkIsAsked /\ HandlersAreServers
    /\ AnswersReachAsker /\ NoexistIsPulled

LEMMA TypeParts == TypeOK <=> ClientTypes /\ WorkTypes /\ LbTypes /\ ConnTypes
BY DEF TypeOK, ClientTypes, WorkTypes, LbTypes, ConnTypes, Works, Places, Frames

-----------------------------------------------------------------------------
(* Messages                                                                *)

LEMMA KeyNumbers ==
    ASSUME NEW key \in Keys
    PROVE  key = <<key[1], key[2]>> /\ key[1] \in UINT32 /\ key[2] \in UINT32
BY KeysAssumption

LEMMA Uint32IsInt32 == UINT32 \subseteq INT32 /\ 0 \in UINT32
BY Int32s DEF UINT32, INT32

LEMMA MaxReqNumber == MaxReq \in Nat /\ 1 .. MaxReq \subseteq UINT32
<1>1. MaxReq \in Nat
  BY BoundsAssumption, FS_CardinalityType DEF MaxReq
<1>2. MaxReq \in UINT32
  BY BoundsAssumption DEF MaxReq
<1> QED
  BY <1>1, <1>2, Int32s DEF UINT32

LEMMA RequestFields ==
    ASSUME NEW n, NEW a, NEW b
    PROVE  GetHostRequest_Of(n, a, b) = [seq |-> n, modid |-> a, cmdid |-> b]
<1>1. PICK r : r = GetHostRequest_Of(n, a, b)
  OBVIOUS
<1>2. r = [seq |-> n, modid |-> a, cmdid |-> b]
  BY <1>1 DEF GetHostRequest_Of, GetHostRequest_Clear
<1> QED
  BY <1>1, <1>2

LEMMA RequestTypes ==
    ASSUME NEW q \in Requests
    PROVE  /\ q \in GetHostRequests
           /\ q.seq \in 1 .. MaxReq /\ <<q.modid, q.cmdid>> \in Keys
<1>1. PICK n \in 1 .. MaxReq, key \in Keys : q = GetHostRequest_Of(n, key[1], key[2])
  BY DEF Requests
<1>2. q = [seq |-> n, modid |-> key[1], cmdid |-> key[2]]
  BY <1>1, RequestFields
<1>3. key[1] \in INT32 /\ key[2] \in INT32 /\ n \in UINT32 /\ key = <<key[1], key[2]>>
  BY KeyNumbers, Uint32IsInt32, MaxReqNumber
<1> QED
  BY <1>2, <1>3 DEF GetHostRequests

\* What do_read parses is the request that was sent.
LEMMA RequestIsRead ==
    ASSUME NEW q \in Requests
    PROVE  /\ RequestOf[RequestFrame[q]] = q
           /\ RequestFrame[q].id = ID_GetHostRequest
<1>1. PICK f : f = RequestFrame[q]
  OBVIOUS
<1>2. f.id = ID_GetHostRequest /\ f.body = GetHostRequest_SerializeToString(q)
  BY <1>1 DEF RequestFrame, Datagram
<1>3. f \in {RequestFrame[m] : m \in Requests}
  BY <1>1
<1>4. RequestOf[f] = GetHostRequest_ParseFromArray(f.body).msg
  BY <1>3 DEF RequestOf
<1>5. GetHostRequest_ParseFromArray(f.body) = Parsed(TRUE, q)
  BY <1>2, RequestTypes, GetHostRequestReadsBack
<1> QED
  BY <1>1, <1>2, <1>4, <1>5 DEF Parsed

LEMMA HostInfoOfTypes ==
    ASSUME NEW a \in UINT32, NEW b \in UINT32
    PROVE  HostInfo_Of(a, b) \in HostInfos
BY Uint32IsInt32 DEF HostInfo_Of, HostInfo_Clear, HostInfos

\* What deal_recv_route parses are the routes of SubKey.
LEMMA RoutesAreRead ==
    ASSUME NEW m \in Routes
    PROVE  RouteOf[RouteFrame[m]].modid = SubKey[1] /\ RouteOf[RouteFrame[m]].cmdid = SubKey[2]
<1>1. PICK hosts \in {<<>>, <<HostInfo_Of(1, 1)>>} :
         m = GetRouteResponse_Of(SubKey[1], SubKey[2], hosts)
  BY DEF Routes
<1>2. m = [modid |-> SubKey[1], cmdid |-> SubKey[2], host |-> hosts]
  BY <1>1 DEF GetRouteResponse_Of, GetRouteResponse_Clear
<1>3. SubKey[1] \in INT32 /\ SubKey[2] \in INT32
  BY KeysAssumption, KeyNumbers, Uint32IsInt32
<1>4. hosts \in Seq(HostInfos)
  <2>1. 1 \in UINT32
    BY Int32s DEF UINT32
  <2>2. HostInfo_Of(1, 1) \in HostInfos
    BY <2>1, HostInfoOfTypes
  <2>3. PICK h : h = HostInfo_Of(1, 1)
    OBVIOUS
  <2>4. <<h>> \in Seq(HostInfos) /\ <<>> \in Seq(HostInfos)
    BY <2>2, <2>3, EmptySeq
  <2> QED
    BY <2>3, <2>4
<1>5. m \in GetRouteResponses
  BY <1>2, <1>3, <1>4 DEF GetRouteResponses
<1>6. RouteFrame[m] = GetRouteResponse_SerializeToString(m)
  BY DEF RouteFrame
<1>7. RouteOf[RouteFrame[m]] = GetRouteResponse_ParseFromArray(RouteFrame[m]).msg
  BY DEF RouteOf
<1>8. GetRouteResponse_ParseFromArray(RouteFrame[m]) = Parsed(TRUE, m)
  BY <1>5, <1>6, GetRouteResponseReadsBack
<1> QED
  BY <1>2, <1>7, <1>8 DEF Parsed

\* What the client parses is the response that was sent, to the request's number
\* and key.
LEMMA ResponseIsRead ==
    ASSUME NEW q \in Requests, NEW m, m = Response(q.seq, <<q.modid, q.cmdid>>, RET_NOEXIST)
    PROVE  /\ m \in Responses /\ ResponseOf[m] = m
           /\ m.seq = q.seq /\ m.modid = q.modid /\ m.cmdid = q.cmdid
<1>1. HostInfo_Clear \in HostInfos
  BY Uint32IsInt32 DEF HostInfo_Clear, HostInfos
<1>2. PICK host : host = <<HostInfo_CopyFrom(HostInfo_Clear)>>
  OBVIOUS
<1>3. host \in Seq(HostInfos) /\ Len(host) <= 1
  BY <1>1, <1>2, HostInfoCopies
<1>4. m = [seq |-> q.seq, modid |-> q.modid, cmdid |-> q.cmdid, retcode |-> RET_NOEXIST,
           host |-> host]
  BY <1>2 DEF Response, GetHostResponse_Of, GetHostResponse_Clear
<1>5. m \in GetHostResponses
  <2>1. RET_NOEXIST \in UINT32
    BY Int32s DEF RET_NOEXIST, UINT32
  <2>2. q.seq \in UINT32 /\ q.modid \in INT32 /\ q.cmdid \in INT32
    BY RequestTypes DEF GetHostRequests
  <2>3. RET_NOEXIST \in INT32
    BY <2>1, Uint32IsInt32
  <2> QED
    BY <1>3, <1>4, <2>2, <2>3 DEF GetHostResponses
<1>6. m \in Responses
  BY DEF Responses
<1>7. ResponseOf[m] = GetHostResponse_ParseFromArray(GetHostResponse_SerializeToString(m)).msg
  BY <1>6 DEF ResponseOf
<1>8. GetHostResponse_ParseFromArray(GetHostResponse_SerializeToString(m)) = Parsed(TRUE, m)
  BY <1>5, GetHostResponseReadsBack
<1> QED
  BY <1>4, <1>6, <1>7, <1>8 DEF Parsed

-----------------------------------------------------------------------------
(* Steps of threads                                                        *)

LEMMA WorkFields ==
    ASSUME NEW w \in Works, NEW to \in Places, NEW lb \in 0 .. MaxLb
    PROVE  /\ [w EXCEPT !.at = to] \in Works
           /\ [w EXCEPT !.at = to, !.lb = lb] \in Works
           /\ [w EXCEPT !.at = to].at = to /\ [w EXCEPT !.at = to, !.lb = lb].at = to
           /\ [w EXCEPT !.at = to].key = w.key /\ [w EXCEPT !.at = to, !.lb = lb].key = w.key
           /\ [w EXCEPT !.at = to].seq = w.seq /\ [w EXCEPT !.at = to, !.lb = lb].seq = w.seq
BY DEF Works

LEMMA IdleFields ==
    ASSUME NEW at \in Places
    PROVE  Idle(at) \in Works /\ Idle(at).at = at
BY KeysAssumption, BoundsAssumption, MaxReqNumber DEF Idle, Works, RouteLbs

LEMMA FindFields ==
    ASSUME NEW rl \in RouteLbs, NEW key \in Keys, NEW seq \in 0 .. MaxReq, NEW hosts \in BOOLEAN,
           NEW w, w = [Idle("find") EXCEPT !.rl = rl, !.key = key, !.seq = seq, !.hosts = hosts]
    PROVE  w \in Works /\ w.at = "find" /\ w.key = key /\ w.seq = seq
<1>1. w = [at |-> "find", rl |-> rl, key |-> key, lb |-> 0, seq |-> seq, hosts |-> hosts]
  BY DEF Idle
<1>2. "find" \in Places /\ 0 \in 0 .. MaxLb
  BY BoundsAssumption DEF Places, MapPlaces
<1>3. [at |-> "find", rl |-> rl, key |-> key, lb |-> 0, seq |-> seq, hosts |-> hosts] \in Works
  BY <1>2 DEF Works
<1>4. w.at = "find" /\ w.key = key /\ w.seq = seq
  BY ONLY <1>1
<1> QED
  BY <1>1, <1>3, <1>4

\* A step that gives thread t the work w.
LEMMA WorkStep ==
    ASSUME WorkTypes, WorkIsAsked, HandlersAreServers,
           NEW t \in Threads, NEW w \in Works, work' = [work EXCEPT ![t] = w],
           t \in Servers => w.at \notin {"delete", "erase"},
           t \in Servers /\ w.at \in Busy =>
               /\ work[t].at \in Busy
               /\ w.key = work[t].key /\ w.seq = work[t].seq,
           UNCHANGED <<m_client_addr, asked, handlers>>
    PROVE  WorkTypes' /\ WorkIsAsked' /\ HandlersAreServers'
<1>1. WorkTypes'
  BY DEF WorkTypes
<1>2. Servers \subseteq Threads /\ \A u \in Threads : work'[u] = IF u = t THEN w ELSE work[u]
  BY DEF Threads, WorkTypes
<1>3. WorkIsAsked'
  <2> SUFFICES ASSUME NEW u \in Servers, work'[u].at \in Busy
               PROVE  \E q \in Requests :
                         /\ <<m_client_addr[u], q>> \in asked
                         /\ work'[u].seq = q.seq /\ work'[u].key = <<q.modid, q.cmdid>>
    BY DEF WorkIsAsked
  <2>1. work[u].at \in Busy /\ work'[u].seq = work[u].seq /\ work'[u].key = work[u].key
    BY <1>2
  <2> QED
    BY <2>1 DEF WorkIsAsked
<1>4. HandlersAreServers'
  BY <1>2 DEF HandlersAreServers
<1> QED
  BY <1>1, <1>3, <1>4

\* A step that leaves the entries of the maps, and the threads that are about to post.
LEMMA PullsStay ==
    ASSUME NoexistIsPulled, exited => exited', posted \subseteq posted',
           \A r \in RouteLbs, k \in Keys :
               m_lb_map'[r][k] # None => m_lb_map'[r][k] = m_lb_map[r][k],
           \A t \in Threads :
               work[t].at = "pull" =>
                   \/ work'[t] = work[t]
                   \/ exited'
                   \/ <<m_lb_map'[work[t].rl][work[t].key], work[t].key>> \in posted'
    PROVE  NoexistIsPulled'
<1> SUFFICES ASSUME NEW r \in RouteLbs, NEW k \in Keys, m_lb_map'[r][k] # None, ~exited',
                    <<m_lb_map'[r][k], k>> \notin posted'
             PROVE  \E t \in Threads : work'[t].at = "pull" /\ work'[t].rl = r /\ work'[t].key = k
  BY DEF NoexistIsPulled
<1>1. m_lb_map'[r][k] = m_lb_map[r][k]
  OBVIOUS
<1>2. PICK t \in Threads : work[t].at = "pull" /\ work[t].rl = r /\ work[t].key = k
  BY <1>1 DEF NoexistIsPulled
<1>3. work'[t] = work[t]
  BY <1>2
<1> QED
  BY <1>2, <1>3

\* Clients and sockets that a step does not touch.
LEMMA ClientsStay ==
    ASSUME ClientTypes, AskedOnce, DatagramsAreAsked, AnswersReachAsker,
           UNCHANGED <<dgrams, m_client_addr, asked, answered>>
    PROVE  ClientTypes' /\ AskedOnce' /\ DatagramsAreAsked' /\ AnswersReachAsker'
BY DEF ClientTypes, AskedOnce, DatagramsAreAsked, AnswersReachAsker

LEMMA LbsStay ==
    ASSUME LbTypes, UNCHANGED lbs
    PROVE  LbTypes'
BY DEF LbTypes, lbs

LEMMA ConnStays ==
    ASSUME ConnTypes, UNCHANGED <<mainAt, handlers, conn>>, exited' \in BOOLEAN
    PROVE  ConnTypes'
BY DEF ConnTypes, conn

-----------------------------------------------------------------------------
(* Each action                                                             *)

LEMMA SendStep ==
    ASSUME IInv, NEW c \in Clients, NEW u \in Servers, NEW key \in Keys, ClientSend(c, u, key)
    PROVE  IInv'
<1> USE DEF IInv
<1>1. PICK m : m = GetHostRequest_Of(Cardinality(asked) + 1, key[1], key[2])
  OBVIOUS
<1>2. /\ ~ \E q \in Requests : <<c, q>> \in asked
      /\ asked' = asked \cup {<<c, m>>}
      /\ dgrams' = [dgrams EXCEPT ![u] =
             IF work[u].at = "start" THEN @
             ELSE Append(@, [from |-> c, frame |-> RequestFrame[m]])]
      /\ UNCHANGED <<mainAt, handlers, m_client_addr, work, lbs, conn, answered, exited>>
  BY <1>1 DEF ClientSend
<1>3. c \notin {a[1] : a \in asked}
  <2> SUFFICES ASSUME NEW a \in asked, a[1] = c PROVE FALSE
    OBVIOUS
  <2>1. a \in Clients \X Requests
    BY DEF ClientTypes
  <2>2. a = <<c, a[2]>> /\ a[2] \in Requests
    BY <2>1
  <2> QED
    BY <1>2, <2>2
<1>4. /\ IsFiniteSet({a[1] : a \in asked}) /\ IsFiniteSet(Clients)
      /\ Cardinality(asked) \in 0 .. MaxReq - 1
  <2>1. IsFiniteSet(Clients \ {c}) /\ Cardinality(Clients \ {c}) = MaxReq - 1
    BY BoundsAssumption, FS_RemoveElement DEF MaxReq
  <2>2. {a[1] : a \in asked} \subseteq Clients \ {c}
    BY <1>3 DEF ClientTypes
  <2>3. /\ IsFiniteSet({a[1] : a \in asked})
        /\ Cardinality({a[1] : a \in asked}) <= Cardinality(Clients \ {c})
    BY <2>1, <2>2, FS_Subset
  <2>4. Cardinality(asked) \in Nat
    BY FS_CardinalityType DEF AskedOnce
  <2> QED
    BY <2>1, <2>3, <2>4, BoundsAssumption, MaxReqNumber DEF AskedOnce
<1>5. m \in Requests
  <2>1. Cardinality(asked) + 1 \in 1 .. MaxReq
    BY <1>4, MaxReqNumber
  <2> QED
    BY <1>1, <2>1 DEF Requests
<1>6. AskedOnce'
  <2>1. <<c, m>> \notin asked
    BY <1>2, <1>5
  <2>2. IsFiniteSet(asked') /\ Cardinality(asked') = Cardinality(asked) + 1
    BY <1>2, <2>1, FS_AddElement DEF AskedOnce
  <2>3. {a[1] : a \in asked'} = {a[1] : a \in asked} \cup {c}
    <3>1. PICK e : e = <<c, m>>
      OBVIOUS
    <3>2. e[1] = c /\ asked' = asked \cup {e}
      BY <1>2, <3>1
    <3> QED
      BY ONLY <3>2
  <2>4. Cardinality({a[1] : a \in asked} \cup {c}) = Cardinality({a[1] : a \in asked}) + 1
    BY <1>3, <1>4, FS_AddElement
  <2> QED
    BY <2>2, <2>3, <2>4 DEF AskedOnce
<1>7. ClientTypes'
  <2>1. PICK d : d = [from |-> c, frame |-> RequestFrame[m]]
    OBVIOUS
  <2>2. d \in [from : Clients, frame : Frames]
    BY <1>5, <2>1 DEF Frames
  <2>3. dgrams[u] \in Seq([from : Clients, frame : Frames])
    BY DEF ClientTypes
  <2>4. PICK s : s = IF work[u].at = "start" THEN dgrams[u] ELSE Append(dgrams[u], d)
    OBVIOUS
  <2>5. s \in Seq([from : Clients, frame : Frames])
    <3>1. Append(dgrams[u], d) \in Seq([from : Clients, frame : Frames])
      BY <2>2, <2>3, AppendProperties
    <3> QED
      BY <2>3, <2>4, <3>1, Zenon
  <2>6. dgrams' = [dgrams EXCEPT ![u] = s]
    BY <1>2, <2>1, <2>4
  <2>7. dgrams' \in [Servers -> Seq([from : Clients, frame : Frames])]
    BY <2>5, <2>6 DEF ClientTypes
  <2>8. asked' \subseteq Clients \X Requests
    BY <1>2, <1>5 DEF ClientTypes
  <2> QED
    BY <1>2, <2>7, <2>8 DEF ClientTypes
<1>8. DatagramsAreAsked'
  <2> SUFFICES ASSUME NEW v \in Servers, NEW i \in DOMAIN dgrams'[v]
               PROVE  \E q \in Requests : /\ <<dgrams'[v][i].from, q>> \in asked'
                                          /\ dgrams'[v][i].frame = RequestFrame[q]
    BY DEF DatagramsAreAsked
  <2>1. CASE i \in DOMAIN dgrams[v] /\ dgrams'[v][i] = dgrams[v][i]
    <3>1. PICK q \in Requests : /\ <<dgrams[v][i].from, q>> \in asked
                               /\ dgrams[v][i].frame = RequestFrame[q]
      BY <2>1 DEF DatagramsAreAsked
    <3>2. <<dgrams[v][i].from, q>> \in asked'
      BY <1>2, <3>1, Zenon
    <3> QED
      BY <2>1, <3>1, <3>2, Zenon
  <2>2. CASE dgrams'[v][i] = [from |-> c, frame |-> RequestFrame[m]]
    BY <1>2, <1>5, <2>2
  <2>3. dgrams'[v] \in {dgrams[v], Append(dgrams[v], [from |-> c, frame |-> RequestFrame[m]])}
    BY <1>2 DEF ClientTypes
  <2>4. PICK s \in Seq([from : Clients, frame : Frames]) : s = dgrams[v]
    BY DEF ClientTypes
  <2>5. PICK e : e = [from |-> c, frame |-> RequestFrame[m]]
    OBVIOUS
  <2>6. CASE dgrams'[v] = Append(s, e)
    <3>1. i \in 1 .. Len(s) + 1
      BY <2>4, <2>6
    <3>2. dgrams'[v][i] = IF i = Len(s) + 1 THEN e ELSE s[i]
      BY <2>4, <2>6, <3>1
    <3>3. CASE i = Len(s) + 1
      BY <2>2, <2>5, <3>2, <3>3
    <3>4. CASE i # Len(s) + 1
      <4>1. i \in DOMAIN dgrams[v] /\ dgrams'[v][i] = dgrams[v][i]
        BY <2>4, <3>1, <3>2, <3>4
      <4> QED
        BY <2>1, <4>1
    <3> QED
      BY <3>3, <3>4
  <2> QED
    BY <2>1, <2>3, <2>4, <2>5, <2>6
<1>9. WorkIsAsked' /\ AnswersReachAsker'
  BY <1>2 DEF WorkIsAsked, AnswersReachAsker
<1>10. WorkTypes' /\ HandlersAreServers' /\ NoexistIsPulled'
  BY <1>2 DEF WorkTypes, HandlersAreServers, NoexistIsPulled, lbs
<1>11. LbTypes' /\ ConnTypes'
  BY <1>2, LbsStay, ConnStays DEF ConnTypes
<1> QED
  BY <1>6, <1>7, <1>8, <1>9, <1>10, <1>11

\* A step of a thread that only moves: no map entry, no task and no message changes.
LEMMA MoveStep ==
    ASSUME IInv, NEW t \in Threads, NEW w \in Works, work' = [work EXCEPT ![t] = w],
           work[t].at # "pull",
           t \in Servers => w.at \notin {"delete", "erase"},
           t \in Servers /\ w.at \in Busy =>
               /\ work[t].at \in Busy
               /\ w.key = work[t].key /\ w.seq = work[t].seq,
           UNCHANGED <<mainAt, handlers, udp, lbs, conn, client, exited>>
    PROVE  IInv'
<1> USE DEF IInv, udp, client
<1>1. WorkTypes' /\ WorkIsAsked' /\ HandlersAreServers'
  BY WorkStep, Zenon
<1>2. ClientTypes' /\ AskedOnce' /\ DatagramsAreAsked' /\ AnswersReachAsker'
  BY ClientsStay
<1>3. LbTypes' /\ ConnTypes'
  BY LbsStay, ConnStays DEF ConnTypes
<1>4. NoexistIsPulled'
  <2>1. \A o \in Threads : work[o].at = "pull" => work'[o] = work[o]
    BY DEF WorkTypes
  <2> QED
    BY <2>1, PullsStay DEF lbs
<1> QED
  BY <1>1, <1>2, <1>3, <1>4

LEMMA BindStep ==
    ASSUME IInv, NEW u \in Servers, BindServer(u)
    PROVE  IInv'
<1>1. work[u] \in Works /\ u \in Threads /\ work[u].at = "start"
  BY DEF IInv, WorkTypes, Threads, BindServer, Moves
<1>2. PICK w : w = [work[u] EXCEPT !.at = "register"]
  OBVIOUS
<1>3. work' = [work EXCEPT ![u] = w]
  BY <1>2 DEF BindServer, Moves
<1>4. w \in Works /\ w.at = "register"
  <2>1. "register" \in Places /\ 0 \in 0 .. MaxLb
    BY BoundsAssumption DEF Places
  <2> QED
    BY <1>1, <1>2, <2>1, WorkFields
<1> QED
  BY <1>1, <1>3, <1>4, MoveStep DEF BindServer, Busy

LEMMA AddRouterStep ==
    ASSUME IInv, NEW u \in Servers, AddRouter(u)
    PROVE  IInv'
<1> USE DEF IInv
<1>1. work[u].at = "register" /\ u \in Threads
  BY DEF AddRouter, Moves, Threads
<1>2. /\ work' = [work EXCEPT ![u] = Idle("idle")]
      /\ handlers' = [handlers EXCEPT ![ID_GetHostRequest] = u]
      /\ UNCHANGED <<mainAt, udp, lbs, conn, client, exited>>
  BY DEF AddRouter, Moves
<1>3. Idle("idle") \in Works /\ Idle("idle").at = "idle"
  BY IdleFields DEF Places
<1>4. PICK w : w = Idle("idle")
  OBVIOUS
<1>5. WorkTypes' /\ \A v \in Threads : work'[v] = IF v = u THEN w ELSE work[v]
  BY <1>2, <1>3, <1>4 DEF WorkTypes
<1>6. WorkIsAsked'
  <2> SUFFICES ASSUME NEW v \in Servers, work'[v].at \in Busy
               PROVE  \E q \in Requests :
                         /\ <<m_client_addr'[v], q>> \in asked'
                         /\ work'[v].seq = q.seq /\ work'[v].key = <<q.modid, q.cmdid>>
    BY DEF WorkIsAsked
  <2>1. v \in Threads /\ w.at \notin Busy
    BY <1>3, <1>4 DEF Busy, Threads
  <2>2. work'[v] = work[v]
    BY <1>5, <2>1
  <2> QED
    BY <1>2, <2>2 DEF WorkIsAsked, udp, client
<1>7. ConnTypes'
  BY <1>2 DEF ConnTypes, conn
<1>8. HandlersAreServers'
  BY <1>2, <1>3, <1>4, <1>5 DEF HandlersAreServers, ConnTypes, Threads
<1>9. ClientTypes' /\ AskedOnce' /\ DatagramsAreAsked' /\ AnswersReachAsker' /\ LbTypes'
  BY <1>2, ClientsStay, LbsStay DEF udp, client
<1>10. NoexistIsPulled'
  BY <1>1, <1>2, <1>5, PullsStay DEF lbs
<1> QED
  BY <1>5, <1>6, <1>7, <1>8, <1>9, <1>10

LEMMA FindStep ==
    ASSUME IInv, NEW t \in Threads, Find(t)
    PROVE  IInv'
<1>1. work[t] \in Works /\ work[t].at = "find"
  BY DEF IInv, WorkTypes, Find
<1>2. work[t].rl \in RouteLbs /\ work[t].key \in Keys
  BY <1>1 DEF Works
<1>3. Entry(t) \in LbIds \cup {None}
  BY <1>2 DEF IInv, LbTypes, Entry
<1>4. UNCHANGED <<mainAt, handlers, udp, lbs, conn, client, exited>>
  BY DEF Find
<1>5. 0 \in 0 .. MaxLb /\ {"insert", "check", "delete", "idle"} \subseteq Places
  BY BoundsAssumption DEF Places, MapPlaces
<1>6. CASE Entry(t) = None
  <2>1. PICK w : w = [work[t] EXCEPT !.at = "insert"]
    OBVIOUS
  <2>2. work' = [work EXCEPT ![t] = w]
    BY <1>6, <2>1, SMT DEF Find
  <2>3. w \in Works /\ w.at = "insert" /\ w.key = work[t].key /\ w.seq = work[t].seq
    BY <1>1, <1>5, <2>1, WorkFields
  <2> QED
    BY <1>1, <1>4, <2>2, <2>3, MoveStep DEF Busy
<1>7. CASE Entry(t) # None /\ t # Dns
  <2>1. PICK w : w = [work[t] EXCEPT !.at = "check", !.lb = Entry(t)]
    OBVIOUS
  <2>2. work' = [work EXCEPT ![t] = w]
    BY <1>7, <2>1, SMT DEF Find
  <2>3. Entry(t) \in 0 .. MaxLb
    BY <1>3, <1>7 DEF LbIds
  <2>4. w \in Works
    BY <1>1, <1>5, <2>1, <2>3, WorkFields
  <2>5. w.at = "check" /\ w.key = work[t].key /\ w.seq = work[t].seq
    BY <1>1, <2>1 DEF Works
  <2> QED
    BY <1>1, <1>4, <2>2, <2>4, <2>5, MoveStep DEF Busy
<1>8. CASE Entry(t) # None /\ t = Dns /\ ~work[t].hosts
  <2>1. PICK w : w = [work[t] EXCEPT !.at = "delete", !.lb = Entry(t)]
    OBVIOUS
  <2>2. work' = [work EXCEPT ![t] = w]
    BY <1>8, <2>1, SMT DEF Find
  <2>3. Entry(t) \in 0 .. MaxLb /\ t \notin Servers
    BY <1>3, <1>8, ServersAssumption DEF LbIds
  <2>4. w \in Works
    BY <1>1, <1>5, <2>1, <2>3, WorkFields
  <2> QED
    BY <1>1, <1>4, <2>2, <2>3, <2>4, MoveStep
<1>9. CASE Entry(t) # None /\ t = Dns /\ work[t].hosts
  <2>1. PICK w : w = Idle("idle")
    OBVIOUS
  <2>2. work' = [work EXCEPT ![t] = w]
    BY <1>9, <2>1, SMT DEF Find
  <2>3. w \in Works /\ t \notin Servers
    BY <1>5, <1>9, <2>1, IdleFields, ServersAssumption
  <2> QED
    BY <1>1, <1>4, <2>2, <2>3, MoveStep
<1> QED
  BY <1>6, <1>7, <1>8, <1>9

LEMMA CheckStep ==
    ASSUME IInv, NEW u \in Servers, CheckStatus(u)
    PROVE  IInv'
<1>1. work[u] \in Works /\ u \in Threads /\ work[u].at = "check"
  BY DEF IInv, WorkTypes, Threads, CheckStatus, Moves
<1>2. PICK w : w = [work[u] EXCEPT !.at = "reply"]
  OBVIOUS
<1>3. work' = [work EXCEPT ![u] = w]
  BY <1>2 DEF CheckStatus, Moves
<1>4. w \in Works /\ w.at = "reply" /\ w.key = work[u].key /\ w.seq = work[u].seq
  <2>1. "reply" \in Places /\ 0 \in 0 .. MaxLb
    BY BoundsAssumption DEF Places
  <2> QED
    BY <1>1, <1>2, <2>1, WorkFields
<1> QED
  BY <1>1, <1>3, <1>4, MoveStep DEF CheckStatus, Busy

LEMMA DoReadStep ==
    ASSUME IInv, NEW u \in Servers, DoRead(u)
    PROVE  IInv'
<1> USE DEF IInv
<1>1. /\ work[u].at = "idle" /\ u \in Threads /\ dgrams[u] # <<>>
      /\ dgrams' = [dgrams EXCEPT ![u] = Tail(@)]
      /\ m_client_addr' = [m_client_addr EXCEPT ![u] = Head(dgrams[u]).from]
      /\ UNCHANGED <<mainAt, handlers, lbs, conn, client, exited>>
  BY DEF DoRead, Threads
<1>2. PICK s \in Seq([from : Clients, frame : Frames]) : s = dgrams[u]
  BY DEF ClientTypes
<1>3. PICK d : d = Head(s)
  OBVIOUS
<1>4. 1 \in DOMAIN s /\ d = s[1] /\ d \in [from : Clients, frame : Frames]
  <2>1. s # <<>>
    BY <1>1, <1>2
  <2>2. 1 \in 1 .. Len(s) /\ DOMAIN s = 1 .. Len(s)
    BY <2>1, EmptySeq, LenProperties
  <2>3. d = s[1]
    BY <1>3, <2>1
  <2> QED
    BY <2>2, <2>3, ElementOfSeq
<1>5. /\ Tail(s) \in Seq([from : Clients, frame : Frames])
      /\ \A i \in DOMAIN Tail(s) : i + 1 \in DOMAIN s /\ Tail(s)[i] = s[i + 1]
  BY <1>1, <1>2
<1>6. PICK q \in Requests : <<d.from, q>> \in asked /\ d.frame = RequestFrame[q]
  BY <1>2, <1>4 DEF DatagramsAreAsked
<1>7. d.frame.id = ID_GetHostRequest /\ RequestOf[d.frame] = q
  BY <1>6, RequestIsRead
<1>8. /\ q.seq \in 0 .. MaxReq /\ <<q.modid, q.cmdid>> \in Keys
      /\ handlers[ID_GetHostRequest] # None => handlers[ID_GetHostRequest] \in RouteLbs
  <2>1. handlers[ID_GetHostRequest] \in Servers \cup {None}
    BY DEF HandlersAreServers
  <2> QED
    BY <2>1, RequestTypes, MaxReqNumber, ServersAssumption
<1>9. PICK w : w = [Idle("find") EXCEPT !.rl = handlers[ID_GetHostRequest],
                                        !.key = <<q.modid, q.cmdid>>, !.seq = q.seq]
  OBVIOUS
<1>10. \/ work' = work
       \/ handlers[ID_GetHostRequest] # None /\ work' = [work EXCEPT ![u] = w]
  <2>1. PICK f : f = Head(dgrams[u]).frame
    OBVIOUS
  <2>2. \/ work' = work
        \/ /\ handlers[f.id] # None
           /\ work' = [work EXCEPT ![u] =
                [Idle("find") EXCEPT
                    !.rl = handlers[f.id],
                    !.key = <<RequestOf[f].modid, RequestOf[f].cmdid>>, !.seq = RequestOf[f].seq]]
    BY <2>1 DEF DoRead
  <2>3. f = d.frame
    BY <1>2, <1>3, <2>1
  <2>4. f.id = ID_GetHostRequest /\ RequestOf[f] = q
    BY <1>7, <2>3
  <2> QED
    BY <1>9, <2>2, <2>4
<1>11. handlers[ID_GetHostRequest] # None =>
          w \in Works /\ w.at = "find" /\ w.key = <<q.modid, q.cmdid>> /\ w.seq = q.seq
  <2>1. w = [at |-> "find", rl |-> handlers[ID_GetHostRequest], key |-> <<q.modid, q.cmdid>>,
             lb |-> 0, seq |-> q.seq, hosts |-> FALSE]
    BY <1>9 DEF Idle
  <2>2. "find" \in Places /\ 0 \in 0 .. MaxLb
    BY BoundsAssumption DEF Places, MapPlaces
  <2>3. handlers[ID_GetHostRequest] # None => w \in Works
    BY <1>8, <2>1, <2>2 DEF Works
  <2>4. w.at = "find" /\ w.key = <<q.modid, q.cmdid>> /\ w.seq = q.seq
    BY ONLY <2>1
  <2> QED
    BY <2>3, <2>4
<1>12. WorkTypes' /\ \A t \in Threads : work'[t] = work[t] \/ (t = u /\ work'[t] = w)
  <2>1. work \in [Threads -> Works]
    BY DEF WorkTypes
  <2>2. CASE work' = work
    BY <2>1, <2>2 DEF WorkTypes
  <2>3. CASE handlers[ID_GetHostRequest] # None /\ work' = [work EXCEPT ![u] = w]
    <3>1. w \in Works
      BY <1>11, <2>3
    <3>2. work' \in [Threads -> Works]
      BY <2>1, <2>3, <3>1
    <3>3. \A t \in Threads : work'[t] = work[t] \/ (t = u /\ work'[t] = w)
      BY <2>1, <2>3
    <3> QED
      BY <3>2, <3>3 DEF WorkTypes
  <2> QED
    BY <1>10, <2>2, <2>3
<1>13. handlers[ID_GetHostRequest] # None \/ work' = work
  BY <1>10
<1>14. d.from \in Clients
  BY <1>4
<1>15. ClientTypes' /\ DatagramsAreAsked'
  <2>1. dgrams' = [dgrams EXCEPT ![u] = Tail(s)]
        /\ m_client_addr' = [m_client_addr EXCEPT ![u] = d.from]
    BY <1>1, <1>2, <1>3
  <2>2. /\ dgrams' \in [Servers -> Seq([from : Clients, frame : Frames])]
        /\ m_client_addr' \in [Servers -> Clients \cup {None}]
    BY <1>5, <1>14, <2>1 DEF ClientTypes
  <2>3. ClientTypes'
    BY <1>1, <2>2 DEF ClientTypes, client
  <2>4. ASSUME NEW v \in Servers, NEW i \in DOMAIN dgrams'[v]
        PROVE  \E p \in Requests : /\ <<dgrams'[v][i].from, p>> \in asked'
                                   /\ dgrams'[v][i].frame = RequestFrame[p]
    <3>1. asked' = asked
      BY <1>1 DEF client
    <3>2. CASE v = u
      <4>1. dgrams'[v] = Tail(s)
        BY <2>1, <3>2 DEF ClientTypes
      <4>2. i + 1 \in DOMAIN dgrams[u] /\ dgrams'[v][i] = dgrams[u][i + 1]
        BY <1>2, <1>5, <4>1
      <4> QED
        BY <3>1, <4>2 DEF DatagramsAreAsked
    <3>3. CASE v # u
      <4>1. dgrams'[v] = dgrams[v]
        BY <2>1, <3>3 DEF ClientTypes
      <4> QED
        BY <3>1, <4>1 DEF DatagramsAreAsked
    <3> QED
      BY <3>2, <3>3
  <2> QED
    BY <2>3, <2>4 DEF DatagramsAreAsked
<1>16. WorkIsAsked'
  <2> SUFFICES ASSUME NEW v \in Servers, work'[v].at \in Busy
               PROVE  \E p \in Requests :
                         /\ <<m_client_addr'[v], p>> \in asked'
                         /\ work'[v].seq = p.seq /\ work'[v].key = <<p.modid, p.cmdid>>
    BY DEF WorkIsAsked
  <2>1. asked' = asked /\ v \in Threads
    BY <1>1 DEF client, Threads
  <2>2. CASE v = u
    <3>1. m_client_addr'[v] = d.from
      BY <1>1, <1>2, <1>3, <2>2 DEF ClientTypes
    <3>2. work'[v] # work[v]
      BY <1>1, <2>2 DEF Busy
    <3>3. work'[v] = w /\ work' # work
      BY <1>12, <2>1, <3>2
    <3>4. w.key = <<q.modid, q.cmdid>> /\ w.seq = q.seq
      BY <1>10, <1>11, <3>3
    <3> QED
      BY <1>6, <2>1, <3>1, <3>3, <3>4
  <2>3. CASE v # u
    <3>1. m_client_addr'[v] = m_client_addr[v] /\ work'[v] = work[v]
      BY <1>1, <1>12, <2>1, <2>3 DEF ClientTypes
    <3> QED
      BY <2>1, <3>1 DEF WorkIsAsked
  <2> QED
    BY <2>2, <2>3
<1>17. HandlersAreServers'
  <2>1. handlers' = handlers /\ Servers \subseteq Threads
    BY <1>1 DEF Threads
  <2>2. ASSUME NEW v \in Servers
        PROVE  work'[v].at \notin {"delete", "erase"}
    <3>1. CASE work'[v] = work[v]
      BY <3>1 DEF HandlersAreServers
    <3>2. CASE work'[v] # work[v]
      BY <1>10, <1>11, <1>12, <2>1, <3>2
    <3> QED
      BY <3>1, <3>2
  <2> QED
    BY <2>1, <2>2 DEF HandlersAreServers
<1>18. AskedOnce' /\ AnswersReachAsker' /\ LbTypes' /\ ConnTypes'
  <2>1. AskedOnce' /\ AnswersReachAsker'
    BY <1>1 DEF AskedOnce, AnswersReachAsker, client
  <2> QED
    BY <1>1, <2>1, LbsStay, ConnStays DEF ConnTypes
<1>19. NoexistIsPulled'
  <2>1. \A t \in Threads : work[t].at = "pull" => work'[t] = work[t]
    BY <1>1, <1>12
  <2> QED
    BY <1>1, <2>1, PullsStay DEF lbs
<1> QED
  BY <1>12, <1>15, <1>16, <1>17, <1>18, <1>19

LEMMA SetStatusStep ==
    ASSUME IInv, NEW t \in Threads, SetStatus(t)
    PROVE  IInv'
<1> USE DEF IInv
<1>1. work[t] \in Works /\ work[t].at = "status"
  BY DEF WorkTypes, SetStatus, Moves
<1>2. UNCHANGED <<mainAt, handlers, udp, m_lb_map, posted, tasks, conn, client, exited>>
  BY DEF SetStatus
<1>3. PICK w : w = IF t = Dns THEN Idle("idle") ELSE [work[t] EXCEPT !.at = "reply"]
  OBVIOUS
<1>4. work' = [work EXCEPT ![t] = w]
  BY <1>3 DEF SetStatus, Moves, Continues
<1>5. w \in Works /\ w.at \in {"idle", "reply"}
      /\ (t \in Servers => w.key = work[t].key /\ w.seq = work[t].seq)
  <2>1. {"reply", "idle"} \subseteq Places /\ 0 \in 0 .. MaxLb
    BY BoundsAssumption DEF Places
  <2>2. CASE t = Dns
    BY <1>3, <2>1, <2>2, IdleFields, ServersAssumption
  <2>3. CASE t # Dns
    BY <1>1, <1>3, <2>1, <2>3, WorkFields
  <2> QED
    BY <2>2, <2>3
<1>6. WorkTypes' /\ WorkIsAsked' /\ HandlersAreServers'
  BY <1>1, <1>2, <1>4, <1>5, WorkStep DEF udp, client, Busy
<1>7. ClientTypes' /\ AskedOnce' /\ DatagramsAreAsked' /\ AnswersReachAsker'
  BY <1>2, ClientsStay DEF udp, client
<1>8. LbTypes' /\ ConnTypes'
  BY <1>2, ConnStays DEF ConnTypes, LbTypes, SetStatus
<1>9. NoexistIsPulled'
  <2>1. \A o \in Threads : work[o].at = "pull" => work'[o] = work[o]
    BY <1>1, <1>4 DEF WorkTypes
  <2> QED
    BY <1>2, <2>1, PullsStay
<1> QED
  BY <1>6, <1>7, <1>8, <1>9

LEMMA InsertStep ==
    ASSUME IInv, NEW t \in Threads, Insert(t)
    PROVE  IInv'
<1> USE DEF IInv
<1>1. work[t] \in Works /\ work[t].at = "insert"
  BY DEF WorkTypes, Insert, Moves
<1>2. UNCHANGED <<mainAt, handlers, udp, posted, tasks, conn, client, exited>>
  BY DEF Insert
<1>3. PICK w : w = [work[t] EXCEPT !.at = "pull"]
  OBVIOUS
<1>4. work' = [work EXCEPT ![t] = w]
  BY <1>3 DEF Insert, Moves
<1>5. w \in Works /\ w.at = "pull" /\ w.key = work[t].key /\ w.seq = work[t].seq
  <2>1. "pull" \in Places /\ 0 \in 0 .. MaxLb
    BY BoundsAssumption DEF Places, MapPlaces
  <2> QED
    BY <1>1, <1>3, <2>1, WorkFields
<1>6. w.rl = work[t].rl /\ work[t].rl \in RouteLbs /\ work[t].key \in Keys
  BY <1>1, <1>3 DEF Works
<1>7. PICK i \in LbIds :
         /\ status' = [status EXCEPT ![i] = "uninit"]
         /\ m_lb_map' = [m_lb_map EXCEPT ![work[t].rl][work[t].key] = i]
  BY DEF Insert
<1>8. WorkTypes' /\ WorkIsAsked' /\ HandlersAreServers'
  BY <1>1, <1>2, <1>4, <1>5, WorkStep DEF udp, client, Busy
<1>9. ClientTypes' /\ AskedOnce' /\ DatagramsAreAsked' /\ AnswersReachAsker'
  BY <1>2, ClientsStay DEF udp, client
<1>10. ConnTypes'
  BY <1>2, ConnStays DEF ConnTypes
<1>11. LbTypes'
  BY <1>2, <1>6, <1>7 DEF LbTypes
<1>12. NoexistIsPulled'
  <2> SUFFICES ASSUME NEW r \in RouteLbs, NEW k \in Keys, m_lb_map'[r][k] # None, ~exited',
                      <<m_lb_map'[r][k], k>> \notin posted'
               PROVE  \E o \in Threads :
                         work'[o].at = "pull" /\ work'[o].rl = r /\ work'[o].key = k
    BY DEF NoexistIsPulled
  <2>1. work'[t] = w /\ \A o \in Threads : o # t => work'[o] = work[o]
    BY <1>4 DEF WorkTypes
  <2>2. CASE r = work[t].rl /\ k = work[t].key
    BY <1>5, <1>6, <2>1, <2>2
  <2>3. CASE ~(r = work[t].rl /\ k = work[t].key)
    <3>1. m_lb_map'[r][k] = m_lb_map[r][k]
      BY <1>6, <1>7, <2>3 DEF LbTypes
    <3>2. PICK o \in Threads : work[o].at = "pull" /\ work[o].rl = r /\ work[o].key = k
      BY <1>2, <3>1 DEF NoexistIsPulled
    <3>3. work'[o] = work[o]
      BY <1>1, <2>1, <3>2
    <3> QED
      BY <3>2, <3>3
  <2> QED
    BY <2>2, <2>3
<1> QED
  BY <1>8, <1>9, <1>10, <1>11, <1>12

LEMMA PostPullStep ==
    ASSUME IInv, NEW t \in Threads, PostPull(t)
    PROVE  IInv'
<1> USE DEF IInv
<1>1. work[t] \in Works /\ work[t].at = "pull"
  BY DEF WorkTypes, PostPull
<1>2. UNCHANGED <<mainAt, handlers, udp, m_lb_map, status, conn, client>>
  BY DEF PostPull
<1>3. ClientTypes' /\ AskedOnce' /\ DatagramsAreAsked' /\ AnswersReachAsker'
  BY <1>2, ClientsStay DEF udp, client
<1>4. work[t].rl \in RouteLbs /\ work[t].key \in Keys
  BY <1>1 DEF Works
<1>5. CASE Exit /\ UNCHANGED <<work, posted, tasks>>
  <2>1. NoexistIsPulled' /\ exited' \in BOOLEAN
    BY <1>5 DEF Exit, NoexistIsPulled
  <2>2. WorkTypes' /\ WorkIsAsked' /\ HandlersAreServers'
    BY <1>2, <1>5 DEF WorkTypes, WorkIsAsked, HandlersAreServers, udp, client
  <2>3. ConnTypes' /\ LbTypes'
    BY <1>2, <1>5, <2>1, LbsStay, ConnStays DEF lbs
  <2> QED
    BY <1>3, <2>1, <2>2, <2>3
<1>6. CASE /\ Entry(t) # None
           /\ tasks' = Append(tasks, Entry(t))
           /\ posted' = posted \cup {<<Entry(t), work[t].key>>}
           /\ work' = [work EXCEPT ![t].at = "status", ![t].lb = Entry(t)]
           /\ UNCHANGED exited
  <2>1. PICK w : w = [work[t] EXCEPT !.at = "status", !.lb = Entry(t)]
    OBVIOUS
  <2>2. work' = [work EXCEPT ![t] = w]
    BY <1>6, <2>1 DEF WorkTypes
  <2>3. Entry(t) \in LbIds /\ Entry(t) = m_lb_map[work[t].rl][work[t].key]
    BY <1>4, <1>6 DEF LbTypes, Entry
  <2>4. w \in Works /\ w.at = "status" /\ w.key = work[t].key /\ w.seq = work[t].seq
    <3>1. "status" \in Places /\ Entry(t) \in 0 .. MaxLb
      BY <2>3, BoundsAssumption DEF Places, LbIds
    <3>2. w \in Works
      BY <1>1, <2>1, <3>1, WorkFields
    <3>3. w.at = "status" /\ w.key = work[t].key /\ w.seq = work[t].seq
      BY <1>1, <2>1 DEF Works
    <3> QED
      BY <3>2, <3>3
  <2>5. WorkTypes' /\ WorkIsAsked' /\ HandlersAreServers'
    BY <1>1, <1>2, <2>2, <2>4, WorkStep DEF udp, client, Busy
  <2>6. ConnTypes'
    BY <1>2, <1>6, ConnStays DEF ConnTypes
  <2>7. LbTypes'
    <3>1. Append(tasks, Entry(t)) \in Seq(LbIds)
      BY <2>3, AppendProperties DEF LbTypes
    <3> QED
      BY <1>2, <1>4, <1>6, <2>3, <3>1 DEF LbTypes
  <2>8. NoexistIsPulled'
    <3>1. \A o \in Threads : o # t => work'[o] = work[o]
      BY <2>2 DEF WorkTypes
    <3>2. <<m_lb_map'[work[t].rl][work[t].key], work[t].key>> \in posted'
      BY <1>2, <1>6, <2>3
    <3> QED
      BY <1>2, <1>6, <3>1, <3>2, PullsStay
  <2> QED
    BY <1>3, <2>5, <2>6, <2>7, <2>8
<1> QED
  BY <1>5, <1>6 DEF PostPull

LEMMA ReplyStep ==
    ASSUME IInv, NEW u \in Servers, Reply(u)
    PROVE  IInv'
<1> USE DEF IInv
<1>1. work[u].at = "reply" /\ u \in Threads
  BY DEF Reply, Moves, Threads
<1>2. PICK w : w = Idle("idle")
  OBVIOUS
<1>3. w \in Works /\ w.at = "idle" /\ work' = [work EXCEPT ![u] = w]
  <2>1. "idle" \in Places
    BY DEF Places
  <2> QED
    BY <1>2, <2>1, IdleFields DEF Reply, Moves
<1>4. PICK q \in Requests : /\ <<m_client_addr[u], q>> \in asked
                            /\ work[u].seq = q.seq /\ work[u].key = <<q.modid, q.cmdid>>
  BY <1>1 DEF WorkIsAsked, Busy
<1>5. PICK m : m = Response(q.seq, <<q.modid, q.cmdid>>, RET_NOEXIST)
  OBVIOUS
<1>6. m \in Responses /\ ResponseOf[m] = m
      /\ m.seq = q.seq /\ m.modid = q.modid /\ m.cmdid = q.cmdid
  BY <1>5, ResponseIsRead
<1>7. answered' = answered \cup {<<m_client_addr[u], m>>}
  BY <1>4, <1>5, <1>6 DEF Reply
<1>8. UNCHANGED <<mainAt, handlers, udp, lbs, conn, asked, exited>>
  BY DEF Reply
<1>9. WorkTypes' /\ WorkIsAsked' /\ HandlersAreServers'
  BY <1>1, <1>3, <1>8, WorkStep DEF udp, Busy
<1>10. m_client_addr[u] \in Clients
  <2>1. <<m_client_addr[u], q>> \in Clients \X Requests
    BY <1>4 DEF ClientTypes
  <2> QED
    BY <2>1
<1>11. ClientTypes' /\ AskedOnce' /\ DatagramsAreAsked'
  <2>1. answered' \subseteq Clients \X Responses
    BY <1>6, <1>7, <1>10 DEF ClientTypes
  <2>2. ClientTypes'
    BY <1>8, <2>1 DEF ClientTypes, udp
  <2>3. AskedOnce' /\ DatagramsAreAsked'
    BY <1>8 DEF AskedOnce, DatagramsAreAsked, udp
  <2> QED
    BY <2>2, <2>3
<1>12. AnswersReachAsker'
  <2>1. PICK e : e = <<m_client_addr[u], m>>
    OBVIOUS
  <2>2. e[1] = m_client_addr[u] /\ e[2] = m
    BY <2>1
  <2>3. asked' = asked /\ answered' = answered \cup {e}
    BY <1>7, <1>8, <2>1
  <2> QED
    BY <1>4, <1>6, <2>2, <2>3 DEF AnswersReachAsker
<1>13. LbTypes' /\ ConnTypes'
  BY <1>8, LbsStay, ConnStays DEF ConnTypes
<1>14. NoexistIsPulled'
  <2>1. \A o \in Threads : work[o].at = "pull" => work'[o] = work[o]
    BY <1>1, <1>3 DEF WorkTypes
  <2> QED
    BY <1>8, <2>1, PullsStay DEF lbs
<1> QED
  BY <1>9, <1>11, <1>12, <1>13, <1>14

\* update_host, of the dns client's loop only
LEMMA DnsIsNoServer == Dns \in Threads /\ Dns \notin Servers
BY ServersAssumption DEF Threads

LEMMA DeleteStep ==
    ASSUME IInv, DeleteLb
    PROVE  IInv'
<1> USE DEF IInv
<1>1. work[Dns] \in Works /\ work[Dns].at = "delete"
  BY DnsIsNoServer DEF WorkTypes, DeleteLb, Moves
<1>2. PICK w : w = [work[Dns] EXCEPT !.at = "erase"]
  OBVIOUS
<1>3. work' = [work EXCEPT ![Dns] = w]
  BY <1>2 DEF DeleteLb, Moves
<1>4. w \in Works
  <2>1. "erase" \in Places /\ 0 \in 0 .. MaxLb
    BY BoundsAssumption DEF Places, MapPlaces
  <2> QED
    BY <1>1, <1>2, <2>1, WorkFields
<1>5. UNCHANGED <<mainAt, handlers, udp, m_lb_map, posted, tasks, conn, client, exited>>
  BY DEF DeleteLb
<1>6. WorkTypes' /\ WorkIsAsked' /\ HandlersAreServers'
  BY <1>3, <1>4, <1>5, WorkStep, DnsIsNoServer DEF udp, client
<1>7. ClientTypes' /\ AskedOnce' /\ DatagramsAreAsked' /\ AnswersReachAsker'
  BY <1>5, ClientsStay DEF udp, client
<1>8. LbTypes' /\ ConnTypes'
  BY <1>5, ConnStays DEF ConnTypes, LbTypes, DeleteLb
<1>9. NoexistIsPulled'
  <2>1. \A o \in Threads : work[o].at = "pull" => work'[o] = work[o]
    BY <1>1, <1>3 DEF WorkTypes
  <2> QED
    BY <1>5, <2>1, PullsStay
<1> QED
  BY <1>6, <1>7, <1>8, <1>9

LEMMA EraseStep ==
    ASSUME IInv, EraseLb
    PROVE  IInv'
<1> USE DEF IInv
<1>1. work[Dns] \in Works /\ work[Dns].at = "erase"
  BY DnsIsNoServer DEF WorkTypes, EraseLb, Moves
<1>2. PICK w : w = Idle("idle")
  OBVIOUS
<1>3. w \in Works /\ work' = [work EXCEPT ![Dns] = w]
  <2>1. "idle" \in Places
    BY DEF Places
  <2> QED
    BY <1>2, <2>1, IdleFields DEF EraseLb, Moves
<1>4. /\ m_lb_map' = [m_lb_map EXCEPT ![work[Dns].rl][work[Dns].key] = None]
      /\ UNCHANGED <<mainAt, handlers, udp, status, posted, tasks, conn, client, exited>>
  BY DEF EraseLb
<1>5. work[Dns].rl \in RouteLbs /\ work[Dns].key \in Keys
  BY <1>1 DEF Works
<1>6. WorkTypes' /\ WorkIsAsked' /\ HandlersAreServers'
  BY <1>3, <1>4, WorkStep, DnsIsNoServer DEF udp, client
<1>7. ClientTypes' /\ AskedOnce' /\ DatagramsAreAsked' /\ AnswersReachAsker'
  BY <1>4, ClientsStay DEF udp, client
<1>8. ConnTypes'
  BY <1>4, ConnStays DEF ConnTypes
<1>9. LbTypes'
  BY <1>4, <1>5 DEF LbTypes
<1>10. NoexistIsPulled'
  <2>1. \A o \in Threads : work[o].at = "pull" => work'[o] = work[o]
    BY <1>1, <1>3 DEF WorkTypes
  <2>2. ASSUME NEW r \in RouteLbs, NEW k \in Keys, m_lb_map'[r][k] # None
        PROVE  m_lb_map'[r][k] = m_lb_map[r][k]
    BY <1>4, <1>5, <2>2 DEF LbTypes
  <2> QED
    BY <1>4, <2>1, <2>2, PullsStay
<1> QED
  BY <1>6, <1>7, <1>8, <1>9, <1>10

\* A step that leaves the threads where they are, the clients and the maps.
LEMMA StaysStep ==
    ASSUME IInv, UNCHANGED <<udp, work, m_lb_map, status, posted, client>>,
           handlers'[ID_GetHostRequest] = handlers[ID_GetHostRequest],
           exited => exited', ConnTypes', tasks' \in Seq(LbIds)
    PROVE  IInv'
<1> USE DEF IInv
<1>1. ClientTypes' /\ AskedOnce' /\ DatagramsAreAsked' /\ AnswersReachAsker'
  BY ClientsStay DEF udp, client
<1>2. WorkTypes' /\ WorkIsAsked'
  BY DEF WorkTypes, WorkIsAsked, udp, client
<1>3. HandlersAreServers'
  BY DEF HandlersAreServers
<1>4. LbTypes'
  BY DEF LbTypes
<1>5. NoexistIsPulled'
  BY DEF NoexistIsPulled
<1> QED
  BY <1>1, <1>2, <1>3, <1>4, <1>5

LEMMA MainStepKeeps ==
    ASSUME IInv, MainStep
    PROVE  IInv'
<1> USE DEF IInv
<1>1. tasks \in Seq(LbIds) /\ ConnTypes
  BY DEF LbTypes
<1>2. CASE StartDnsThread
  <2>1. ConnTypes' /\ UNCHANGED <<udp, work, lbs, client, handlers, exited>>
    BY <1>1, <1>2 DEF ConnTypes, conn, StartDnsThread
  <2> QED
    BY <1>1, <2>1, StaysStep DEF lbs
<1>3. CASE MakeDnsClient
  <2>1. handlers' = [handlers EXCEPT ![ID_GetRouteResponse] = Dns]
        /\ UNCHANGED <<udp, work, lbs, conn, client, exited>>
    BY <1>3 DEF MakeDnsClient
  <2>2. handlers'[ID_GetHostRequest] = handlers[ID_GetHostRequest]
    BY <1>1, <2>1 DEF ConnTypes, ID_GetHostRequest, ID_GetRouteResponse
  <2>3. ConnTypes'
    BY <1>1, <1>3, <2>1 DEF ConnTypes, conn, MakeDnsClient
  <2> QED
    BY <1>1, <2>1, <2>2, <2>3, StaysStep DEF lbs
<1>4. CASE DoConnect
  <2>1. /\ UNCHANGED <<handlers, udp, work, lbs, m_connected, m_obuf, pushes, pushed, client>>
        /\ mainAt' = "done" /\ tcp' \in {"syn", "failed", "up"}
    BY <1>4 DEF DoConnect
  <2>2. exited' = exited \/ exited' = TRUE
    BY <1>4 DEF DoConnect, Exit
  <2>3. events' \subseteq {"IN", "OUT"}
    <3>1. events \subseteq {"IN", "OUT"}
      BY <1>1 DEF ConnTypes
    <3>2. events' = events \/ events' = {"OUT"}
      BY <1>4 DEF DoConnect
    <3> QED
      BY ONLY <3>1, <3>2
  <2>4. exited' \in BOOLEAN /\ (exited => exited')
    BY <1>1, <2>2 DEF ConnTypes
  <2>5. ConnTypes'
    BY <1>1, <2>1, <2>3, <2>4 DEF ConnTypes
  <2> QED
    BY <1>1, <2>1, <2>4, <2>5, StaysStep DEF lbs
<1> QED
  BY <1>2, <1>3, <1>4 DEF MainStep

LEMMA NetworkKeeps ==
    ASSUME IInv, Network
    PROVE  IInv'
<1> USE DEF IInv
<1>1. tasks \in Seq(LbIds) /\ ConnTypes
  BY DEF LbTypes
<1>2. ASSUME NEW from, NEW to \in {"up", "failed", "closed"}, Tcp(from, to)
      PROVE  IInv'
  <2>1. ConnTypes' /\ UNCHANGED <<handlers, udp, work, lbs, client, exited>>
    BY <1>1, <1>2 DEF ConnTypes, Tcp
  <2> QED
    BY <1>1, <2>1, StaysStep DEF lbs
<1>3. ASSUME NEW m \in Routes, PushRoutes(m)
      PROVE  IInv'
  <2>1. RouteFrame[m] \in {RouteFrame[x] : x \in Routes}
    OBVIOUS
  <2>2. PICK f \in {RouteFrame[x] : x \in Routes} : f = RouteFrame[m]
    BY <2>1
  <2>3. /\ pushes' = Append(pushes, f) /\ pushed' = pushed + 1 /\ pushed < MaxPush
        /\ UNCHANGED <<mainAt, handlers, udp, work, lbs, tcp, events, m_connected, m_obuf,
                       client, exited>>
    BY <1>3, <2>2 DEF PushRoutes
  <2>4. /\ pushes' \in Seq({RouteFrame[x] : x \in Routes})
        /\ Len(pushes') = Len(pushes) + 1 /\ Len(pushes) \in Nat
    BY <1>1, <2>2, <2>3, AppendProperties, LenProperties DEF ConnTypes
  <2>5. pushed' \in 0 .. MaxPush /\ Len(pushes') <= pushed'
    BY <1>1, <2>3, <2>4, BoundsAssumption DEF ConnTypes
  <2>6. ConnTypes'
    BY <1>1, <2>3, <2>4, <2>5 DEF ConnTypes
  <2> QED
    BY <1>1, <2>3, <2>6, StaysStep DEF lbs
<1> QED
  BY <1>2, <1>3 DEF Network

LEMMA RunPullStep ==
    ASSUME IInv, RunPull, ~exited
    PROVE  IInv'
<1> USE DEF IInv
<1>1. UNCHANGED <<mainAt, handlers, udp, work, m_lb_map, status, posted, tcp, m_connected,
                  pushes, pushed, client>>
  BY DEF RunPull
<1>2. exited' \in BOOLEAN
  BY DEF RunPull, Exit, ConnTypes
<1>3. m_obuf' \in Nat /\ events' \subseteq {"IN", "OUT"}
  <2>1. m_obuf \in Nat /\ events \subseteq {"IN", "OUT"}
    BY DEF ConnTypes
  <2>2. \/ m_obuf' = m_obuf + 1 /\ events' = events \cup {"OUT"}
        \/ m_obuf' = m_obuf /\ events' = events
    BY DEF RunPull
  <2>3. m_obuf' \in Nat
    BY <2>1, <2>2
  <2>4. events' = events \/ events' = events \cup {"OUT"}
    BY <2>2
  <2>5. events' \subseteq {"IN", "OUT"}
    BY ONLY <2>1, <2>4
  <2> QED
    BY <2>3, <2>5
<1>4. tasks' \in Seq(LbIds)
  BY HeadTailProperties DEF RunPull, LbTypes
<1>5. ConnTypes'
  BY <1>1, <1>2, <1>3 DEF ConnTypes
<1> QED
  BY <1>1, <1>4, <1>5, StaysStep

LEMMA ConnectionSteps ==
    ASSUME IInv, ~exited, HandleConnect \/ HandleWrite \/ HandleClose
    PROVE  IInv'
<1> USE DEF IInv
<1>1. UNCHANGED <<mainAt, handlers, udp, work, lbs, tcp, pushes, pushed, client>>
  BY DEF HandleConnect, HandleWrite, HandleClose
<1>2. exited' \in BOOLEAN /\ m_connected' \in BOOLEAN
  BY DEF HandleConnect, HandleWrite, HandleClose, ConnTypes
<1>3. m_obuf' \in Nat
  BY DEF HandleConnect, HandleWrite, HandleClose, ConnTypes
<1>4. events' \subseteq {"IN", "OUT"}
  <2>1. events \subseteq {"IN", "OUT"}
    BY DEF ConnTypes
  <2>2. events' \in {{}, {"IN"}, events \ {"OUT"}}
    BY DEF HandleConnect, HandleWrite, HandleClose
  <2> QED
    BY ONLY <2>1, <2>2
<1>5. ConnTypes'
  BY <1>1, <1>2, <1>3, <1>4 DEF ConnTypes
<1>6. tasks' \in Seq(LbIds)
  BY <1>1 DEF LbTypes, lbs
<1> QED
  BY <1>1, <1>5, <1>6, StaysStep DEF lbs

LEMMA HandleReadStep ==
    ASSUME IInv, ~exited, HandleRead
    PROVE  IInv'
<1> USE DEF IInv
<1>1. /\ work[Dns].at = "idle" /\ pushes # <<>> /\ pushes' = Tail(pushes)
      /\ exited' = ~m_connected
      /\ UNCHANGED <<mainAt, handlers, udp, lbs, tcp, events, m_connected, m_obuf, pushed,
                     client>>
  BY DEF HandleRead
<1>2. PICK f \in {RouteFrame[x] : x \in Routes} : f = Head(pushes)
  BY <1>1, HeadTailProperties DEF ConnTypes
<1>3. PICK m : m = RouteOf[f]
  OBVIOUS
<1>4. m.modid = SubKey[1] /\ m.cmdid = SubKey[2]
  BY <1>2, <1>3, RoutesAreRead
<1>5. PICK w : w = [Idle("find") EXCEPT !.rl = (m.modid + m.cmdid) % 3,
                                       !.key = <<m.modid, m.cmdid>>, !.hosts = m.host # <<>>]
  OBVIOUS
<1>6. work' = [work EXCEPT ![Dns] = w]
  BY <1>2, <1>3, <1>5 DEF HandleRead, UpdateHost
<1>7. w \in Works /\ w.at = "find"
  <2>1. (m.modid + m.cmdid) % 3 \in RouteLbs
    <3>1. SubKey[1] \in UINT32 /\ SubKey[2] \in UINT32
      BY KeysAssumption, KeyNumbers
    <3>2. SubKey[1] \in Int /\ SubKey[2] \in Int
      BY <3>1 DEF UINT32
    <3> QED
      BY <1>4, <3>2 DEF RouteLbs
  <2>2. <<m.modid, m.cmdid>> \in Keys
    BY <1>4, KeysAssumption, KeyNumbers
  <2>3. (m.host # <<>>) \in BOOLEAN
    OBVIOUS
  <2>4. PICK rl, key, hosts : /\ rl = (m.modid + m.cmdid) % 3 /\ key = <<m.modid, m.cmdid>>
                              /\ hosts = (m.host # <<>>)
    OBVIOUS
  <2>5. w = [at |-> "find", rl |-> rl, key |-> key, lb |-> 0, seq |-> 0, hosts |-> hosts]
    BY <1>5, <2>4 DEF Idle
  <2>6. "find" \in Places /\ 0 \in 0 .. MaxLb /\ 0 \in 0 .. MaxReq
    BY BoundsAssumption, MaxReqNumber DEF Places, MapPlaces
  <2>7. [at |-> "find", rl |-> rl, key |-> key, lb |-> 0, seq |-> 0, hosts |-> hosts] \in Works
    BY <2>1, <2>2, <2>3, <2>4, <2>6 DEF Works
  <2>8. w.at = "find"
    BY ONLY <2>5
  <2> QED
    BY <2>5, <2>7, <2>8
<1>8. WorkTypes' /\ WorkIsAsked' /\ HandlersAreServers'
  BY <1>1, <1>6, <1>7, WorkStep, DnsIsNoServer DEF udp, client
<1>9. ClientTypes' /\ AskedOnce' /\ DatagramsAreAsked' /\ AnswersReachAsker'
  BY <1>1, ClientsStay DEF udp, client
<1>10. LbTypes'
  BY <1>1, LbsStay
<1>11. ConnTypes'
  <2>1. /\ Tail(pushes) \in Seq({RouteFrame[x] : x \in Routes})
        /\ Len(Tail(pushes)) = Len(pushes) - 1 /\ Len(pushes) \in Nat
    BY <1>1, HeadTailProperties, LenProperties DEF ConnTypes
  <2>2. Len(pushes') <= pushed'
    BY <1>1, <2>1 DEF ConnTypes
  <2> QED
    BY <1>1, <2>1, <2>2 DEF ConnTypes
<1>12. NoexistIsPulled'
  <2>1. \A o \in Threads : work[o].at = "pull" => work'[o] = work[o]
    BY <1>1, <1>6 DEF WorkTypes
  <2> QED
    BY <1>1, <2>1, PullsStay DEF lbs
<1> QED
  BY <1>8, <1>9, <1>10, <1>11, <1>12

LEMMA CrashStep ==
    ASSUME IInv, Crash
    PROVE  IInv'
<1>1. UNCHANGED <<mainAt, handlers, udp, work, lbs, conn, client>> /\ exited' = TRUE
  BY DEF Crash, Exit
<1>2. ConnTypes' /\ tasks' \in Seq(LbIds)
  BY <1>1, ConnStays DEF IInv, LbTypes, lbs
<1> QED
  BY <1>1, <1>2, StaysStep DEF lbs

LEMMA HostStepKeeps ==
    ASSUME IInv, NEW t \in Threads, HostStep(t)
    PROVE  IInv'
BY FindStep, InsertStep, PostPullStep, SetStatusStep DEF HostStep

LEMMA InitHolds == Init => IInv
<1> SUFFICES ASSUME Init PROVE IInv
  OBVIOUS
<1> USE DEF Init
<1>1. Idle("idle") \in Works /\ Idle("start") \in Works
      /\ Idle("idle").at = "idle" /\ Idle("start").at = "start"
  BY IdleFields DEF Places
<1>2. WorkTypes /\ \A t \in Threads : work[t].at \in {"idle", "start"}
  BY <1>1 DEF WorkTypes
<1>3. WorkIsAsked /\ HandlersAreServers
  BY <1>2 DEF WorkIsAsked, HandlersAreServers, Busy, Threads
<1>4. ClientTypes
  BY EmptySeq DEF ClientTypes
<1>5. AskedOnce
  <2>1. asked = {} /\ {a[1] : a \in asked} = {}
    OBVIOUS
  <2> QED
    BY <2>1, FS_EmptySet DEF AskedOnce
<1>6. DatagramsAreAsked /\ AnswersReachAsker
  BY DEF DatagramsAreAsked, AnswersReachAsker
<1>7. LbTypes /\ NoexistIsPulled
  BY EmptySeq DEF LbTypes, NoexistIsPulled
<1>8. ConnTypes
  <2>1. pushes \in Seq({RouteFrame[m] : m \in Routes}) /\ Len(pushes) = 0
    BY EmptySeq
  <2>2. pushed \in 0 .. MaxPush /\ Len(pushes) <= pushed
    BY <2>1, BoundsAssumption
  <2>3. handlers \in [{ID_GetHostRequest, ID_GetRouteResponse} -> Servers \cup {Dns, None}]
    OBVIOUS
  <2> QED
    BY <2>1, <2>2, <2>3 DEF ConnTypes
<1> QED
  BY <1>2, <1>3, <1>4, <1>5, <1>6, <1>7, <1>8 DEF IInv

LEMMA StepKeeps == IInv /\ [Next]_vars => IInv'
<1> SUFFICES ASSUME IInv, [Next]_vars PROVE IInv'
  OBVIOUS
<1>1. ASSUME NEW c \in Clients, NEW u \in Servers, NEW k \in Keys, ClientSend(c, u, k)
      PROVE  IInv'
  BY <1>1, SendStep
<1>2. ASSUME NEW u \in Servers, ServerStep(u)
      PROVE  IInv'
  <2>1. u \in Threads
    BY DEF Threads
  <2> QED
    BY <1>2, <2>1, BindStep, AddRouterStep, DoReadStep, HostStepKeeps, CheckStep, ReplyStep
       DEF ServerStep
<1>3. CASE MainStep
  BY <1>3, MainStepKeeps
<1>4. CASE DnsStep
  BY <1>4, DnsIsNoServer, HostStepKeeps, DeleteStep, EraseStep, RunPullStep, ConnectionSteps,
     HandleReadStep DEF DnsStep
<1>5. CASE Network
  BY <1>5, NetworkKeeps
<1>6. CASE Crash
  BY <1>6, CrashStep
<1>7. CASE UNCHANGED vars
  <2>1. UNCHANGED <<mainAt, handlers, udp, work, lbs, conn, client, exited>>
    BY <1>7 DEF vars
  <2>2. ConnTypes' /\ tasks' \in Seq(LbIds)
    BY <2>1, ConnStays DEF IInv, LbTypes, ConnTypes, lbs
  <2> QED
    BY <2>1, <2>2, StaysStep DEF lbs
<1> QED
  BY <1>1, <1>2, <1>3, <1>4, <1>5, <1>6, <1>7 DEF Next

LEMMA Invariance == Spec => []IInv
BY InitHolds, StepKeeps, PTL DEF Spec

-----------------------------------------------------------------------------
(* Theorems                                                                *)

\* What the threads of the agent keep has its type: a thread of update_host or
\* get_host works on a key that was asked for or pushed, in one of the three maps,
\* whichever of them registered its handler last.
THEOREM TypeCorrect == Spec => []TypeOK
<1>1. IInv => TypeOK
  BY TypeParts DEF IInv
<1> QED
  BY <1>1, Invariance, PTL

\* An answer reaches the client that asked, and repeats the number and the key of
\* what it asked, after the bytes of both have been written and read.
THEOREM AnswersAreForAskers == Spec => []AnswersReachAsker
<1>1. IInv => AnswersReachAsker
  BY DEF IInv
<1> QED
  BY <1>1, Invariance, PTL

\* While a key has a load_balance, the pull of that object is posted or about to be.
THEOREM NoexistHasPull == Spec => []NoexistIsPulled
<1>1. IInv => NoexistIsPulled
  BY DEF IInv
<1> QED
  BY <1>1, Invariance, PTL

==============================================================================
