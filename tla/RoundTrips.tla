------------------------------ MODULE RoundTrips ------------------------------
(***************************************************************************)
(* The messages of LarsProto over numbers at the borders of their          *)
(* encodings: what SerializeToString writes, ParseFromArray reads back.    *)
(***************************************************************************)
EXTENDS LarsProto

\* the last number of one byte and the first of two, of three and four, ...; the
\* least and the greatest int32
Borders == {-2147483647 - 1, -128, -1, 0, 1, 127, 128, 2097151, 2097152, 268435456, 2147483647}

Counts == {n \in Borders : n >= 0}

Hosts == {HostInfo_Of(ip, port) : ip \in Borders, port \in {0, 80, 65535}}

Results ==
    {HostCallResult_Of(ip, 80, succ, 300, overload) :
        ip \in Borders, succ \in Counts, overload \in BOOLEAN}

\* none, one, and two with a cleared message between them
Lists(cleared, S) == {<<>>} \cup {<<m>> : m \in S} \cup {<<m, cleared, m>> : m \in S}

ReadsBack(messages, SerializeToString(_), ParseFromArray(_)) ==
    \A m \in messages : ParseFromArray(SerializeToString(m)) = Parsed(TRUE, m)

ASSUME RouteRequestsReadBack ==
    ReadsBack({GetRouteRequest_Of(modid, cmdid) : modid, cmdid \in Borders},
              GetRouteRequest_SerializeToString, GetRouteRequest_ParseFromArray)

ASSUME RoutesReadBack ==
    ReadsBack({GetRouteResponse_Of(1, -1, hosts) : hosts \in Lists(HostInfo_Clear, Hosts)},
              GetRouteResponse_SerializeToString, GetRouteResponse_ParseFromArray)

ASSUME ReportsReadBack ==
    ReadsBack({ReportStatusRequest_Of(1, 2, -3, results, 1700000000) :
                  results \in Lists(HostCallResult_Clear, Results)},
              ReportStatusRequest_SerializeToString, ReportStatusRequest_ParseFromArray)

ASSUME HostRequestsReadBack ==
    ReadsBack({GetHostRequest_Of(seq, modid, 2) : seq \in Counts, modid \in Borders},
              GetHostRequest_SerializeToString, GetHostRequest_ParseFromArray)

ASSUME HostResponsesReadBack ==
    ReadsBack({GetHostResponse_Of(seq, 1, 2, retcode, host) :
                  seq \in Counts, retcode \in {RET_SUCC, RET_NOEXIST}, host \in Hosts}
              \cup {GetHostResponse_Clear},
              GetHostResponse_SerializeToString, GetHostResponse_ParseFromArray)

==============================================================================
