------------------------------ MODULE MCReporter ------------------------------
(***************************************************************************)
(* Two reports of one caller about the same host, the first also about a   *)
(* host whose address, read as an int32, is negative.                      *)
(***************************************************************************)
EXTENDS Reporter

Host == HostCallResult_Of(1, 1, 100, 3, TRUE)

SameHost == HostCallResult_Of(1, 1, 300, 0, FALSE)

NegativeHost == HostCallResult_Of(-1062731776, 80, 1, 0, FALSE)

MCReports ==
    {ReportStatusRequest_Of(1, 1, 123, <<NegativeHost, Host>>, 0),
     ReportStatusRequest_Of(1, 1, 123, <<SameHost>>, 0)}

==============================================================================
