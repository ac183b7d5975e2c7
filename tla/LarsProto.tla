------------------------------ MODULE LarsProto ------------------------------
(***************************************************************************)
(* The messages of lars.proto on the wire: what the generated classes of   *)
(* lars.pb.h and lars.pb.cc write for a message and what they read back.   *)
(* A message is a record of its fields, a string of bytes a sequence of    *)
(* numbers below 256.  An optional submessage is a sequence of at most one *)
(* message, so that has_host() is a length.                                *)
(*                                                                         *)
(* An int32 is any number of -2^31 .. 2^31 - 1; a uint32 is one of         *)
(* 0 .. 2^31 - 1, the upper half of the type being beyond what TLC counts. *)
(* Unknown fields are skipped: nothing here sends on what it has parsed.   *)
(* Bytes that end inside a number end the parse; the part of the number    *)
(* that the library may have stored by then is left out.                   *)
(***************************************************************************)
EXTENDS Integers, Sequences, SequencesExt

INT_MAX == 2147483647

INT32 == (-INT_MAX - 1) .. INT_MAX

UINT32 == 0 .. INT_MAX

Bytes == Seq(0 .. 255)

ID_GetRouteResponse == 2
ID_ReportStatusRequest == 3
ID_GetHostRequest == 4
ID_GetHostResponse == 5

RET_SUCC == 0
RET_NOEXIST == 3

-----------------------------------------------------------------------------
(* Scalars, of the protobuf library: seven bits to a byte, lowest first,   *)
(* the top bit set on all bytes but the last.                              *)

Varint[v \in Nat] ==
    IF v < 128 THEN <<v>> ELSE <<128 + (v % 128)>> \o Varint[v \div 128]

\* 128 ^ (i - 1)
Place == <<1, 128, 16384, 2097152, 268435456>>

\* the i-th group of seven bits of a negative number extended to 64 bits
Group(v, i) == IF i <= 5 THEN (v \div Place[i]) % 128 ELSE 127

\* a negative int32 is written as the 64 bit number: ten bytes
WriteInt32(v) ==
    IF v >= 0 THEN Varint[v]
    ELSE [i \in 1 .. 10 |-> IF i = 10 THEN 1 ELSE 128 + Group(v, i)]

WriteScalar(type, v) ==
    CASE type = "int32" -> WriteInt32(v)
      [] type = "uint32" -> Varint[v]
      [] type = "bool" -> IF v THEN <<1>> ELSE <<0>>

\* Int32Size, UInt32Size: how many bytes the number takes, counted, not written
ScalarSize(type, v) ==
    CASE type = "bool" -> 1
      [] type = "int32" /\ v < 0 -> 10
      [] OTHER -> CHOOSE n \in 1 .. 5 : /\ n = 5 \/ v < Place[n + 1]
                                        /\ n = 1 \/ v >= Place[n]

\* bytes of the varint at the head of b; 0 when none ends there
VarintLen(b) ==
    LET ends == {i \in 1 .. 10 : i <= Len(b) /\ b[i] < 128}
    IN  IF ends = {} THEN 0 ELSE CHOOSE i \in ends : \A j \in ends : i <= j

\* the lower 32 bits, as the signed number they are: later groups are cut off
ReadInt32(b) ==
    LET group(i) == IF i <= VarintLen(b) THEN b[i] % 128 ELSE 0
        top == group(5) % 16
    IN  (IF top < 8 THEN top ELSE top - 16) * Place[5]
        + group(4) * Place[4] + group(3) * Place[3] + group(2) * Place[2] + group(1)

ReadScalar(type, b) ==
    IF type = "bool" THEN ReadInt32(b) # 0 ELSE ReadInt32(b)

-----------------------------------------------------------------------------
(* Fields, in the order of their numbers, which is the order they are      *)
(* written in.                                                             *)

Scalar(num, name, type) ==
    [num |-> num, name |-> name, type |-> type, label |-> "scalar"]
Optional(num, name, type) ==
    [num |-> num, name |-> name, type |-> type, label |-> "optional"]
Repeated(num, name, type) ==
    [num |-> num, name |-> name, type |-> type, label |-> "repeated"]

HostInfo_Fields == <<Scalar(1, "ip", "int32"), Scalar(2, "port", "int32")>>

GetRouteRequest_Fields == <<Scalar(1, "modid", "int32"), Scalar(2, "cmdid", "int32")>>

GetRouteResponse_Fields ==
    <<Scalar(1, "modid", "int32"), Scalar(2, "cmdid", "int32"),
      Repeated(3, "host", "HostInfo")>>

HostCallResult_Fields ==
    <<Scalar(1, "ip", "int32"), Scalar(2, "port", "int32"),
      Scalar(3, "succ", "uint32"), Scalar(4, "err", "uint32"),
      Scalar(5, "overload", "bool")>>

ReportStatusRequest_Fields ==
    <<Scalar(1, "modid", "int32"), Scalar(2, "cmdid", "int32"),
      Scalar(3, "caller", "int32"), Repeated(4, "results", "HostCallResult"),
      Scalar(5, "ts", "uint32")>>

GetHostRequest_Fields ==
    <<Scalar(1, "seq", "uint32"), Scalar(2, "modid", "int32"),
      Scalar(3, "cmdid", "int32")>>

GetHostResponse_Fields ==
    <<Scalar(1, "seq", "uint32"), Scalar(2, "modid", "int32"),
      Scalar(3, "cmdid", "int32"), Scalar(4, "retcode", "int32"),
      Optional(5, "host", "HostInfo")>>

\* a new or a cleared message
HostInfo_Clear == [ip |-> 0, port |-> 0]
GetRouteRequest_Clear == [modid |-> 0, cmdid |-> 0]
GetRouteResponse_Clear == [modid |-> 0, cmdid |-> 0, host |-> <<>>]
HostCallResult_Clear ==
    [ip |-> 0, port |-> 0, succ |-> 0, err |-> 0, overload |-> FALSE]
ReportStatusRequest_Clear ==
    [modid |-> 0, cmdid |-> 0, caller |-> 0, results |-> <<>>, ts |-> 0]
GetHostRequest_Clear == [seq |-> 0, modid |-> 0, cmdid |-> 0]
GetHostResponse_Clear ==
    [seq |-> 0, modid |-> 0, cmdid |-> 0, retcode |-> 0, host |-> <<>>]

SubClear == [HostInfo |-> HostInfo_Clear, HostCallResult |-> HostCallResult_Clear]

\* what the fields of the classes may hold
HostInfos == [ip : INT32, port : INT32]

GetRouteRequests == [modid : INT32, cmdid : INT32]

GetRouteResponses == [modid : INT32, cmdid : INT32, host : Seq(HostInfos)]

HostCallResults ==
    [ip : INT32, port : INT32, succ : UINT32, err : UINT32, overload : BOOLEAN]

ReportStatusRequests ==
    [modid : INT32, cmdid : INT32, caller : INT32, results : Seq(HostCallResults),
     ts : UINT32]

GetHostRequests == [seq : UINT32, modid : INT32, cmdid : INT32]

GetHostResponses ==
    {m \in [seq : UINT32, modid : INT32, cmdid : INT32, retcode : INT32,
            host : Seq(HostInfos)] : Len(m.host) <= 1}

\* messages as the callers of the accessors fill them in
HostInfo_Of(ip, port) == [HostInfo_Clear EXCEPT !.ip = ip, !.port = port]

GetRouteRequest_Of(modid, cmdid) ==
    [GetRouteRequest_Clear EXCEPT !.modid = modid, !.cmdid = cmdid]

GetRouteResponse_Of(modid, cmdid, hosts) ==
    [GetRouteResponse_Clear EXCEPT !.modid = modid, !.cmdid = cmdid, !.host = hosts]

HostCallResult_Of(ip, port, succ, err, overload) ==
    [HostCallResult_Clear EXCEPT
        !.ip = ip, !.port = port, !.succ = succ, !.err = err, !.overload = overload]

ReportStatusRequest_Of(modid, cmdid, caller, results, ts) ==
    [ReportStatusRequest_Clear EXCEPT
        !.modid = modid, !.cmdid = cmdid, !.caller = caller,
        !.results = results, !.ts = ts]

GetHostRequest_Of(seq, modid, cmdid) ==
    [GetHostRequest_Clear EXCEPT !.seq = seq, !.modid = modid, !.cmdid = cmdid]

GetHostResponse_Of(seq, modid, cmdid, retcode, host) ==
    [GetHostResponse_Clear EXCEPT
        !.seq = seq, !.modid = modid, !.cmdid = cmdid, !.retcode = retcode,
        !.host = <<host>>]

-----------------------------------------------------------------------------
(* What the generated functions of the classes do, field by field.  sub    *)
(* stands for the functions of the submessages: Nested, or Leaf in a class *)
(* whose fields are all scalars.                                           *)

\* a field's value in a cleared message
Nothing(f) ==
    IF f.label # "scalar" THEN <<>> ELSE IF f.type = "bool" THEN FALSE ELSE 0

\* scalars that are zero are neither counted nor written nor merged
Has(f, m) == m[f.name] # Nothing(f)

Sum(s) ==
    LET sum[i \in 0 .. Len(s)] == IF i = 0 THEN 0 ELSE sum[i - 1] + s[i]
    IN  sum[Len(s)]

SizeOf(sub, f, m) ==
    IF f.label = "scalar" THEN 1 + ScalarSize(f.type, m[f.name])
    ELSE Sum([i \in DOMAIN m[f.name] |->
                LET n == sub.size[f.type][m[f.name][i]]
                IN  1 + ScalarSize("uint32", n) + n])

SizeOfFields(sub, fields, m) ==
    Sum([i \in DOMAIN fields |->
            IF Has(fields[i], m) THEN SizeOf(sub, fields[i], m) ELSE 0])

WireType(f) == IF f.label = "scalar" THEN 0 ELSE 2

Tag(f) == 8 * f.num + WireType(f)

\* InternalWriteMessage puts the counted size before a submessage
WriteField(sub, f, m) ==
    IF f.label = "scalar" THEN <<Tag(f)>> \o WriteScalar(f.type, m[f.name])
    ELSE FlattenSeq([i \in DOMAIN m[f.name] |->
            <<Tag(f)>> \o Varint[sub.size[f.type][m[f.name][i]]]
                \o sub.bytes[f.type][m[f.name][i]]])

WriteFields(sub, fields, m) ==
    FlattenSeq([i \in DOMAIN fields |->
        IF Has(fields[i], m) THEN WriteField(sub, fields[i], m) ELSE <<>>])

MergeFields(fields, m, from) ==
    [name \in DOMAIN m |->
        IF \E i \in DOMAIN fields : fields[i].name = name /\ Has(fields[i], from)
        THEN from[name] ELSE m[name]]

Parsed(ok, m) == [ok |-> ok, msg |-> m]

\* handle_unusual: how many bytes of b an unknown field takes; 0 ends the parse
UnknownLen(wireType, b) ==
    CASE wireType = 0 -> VarintLen(b)
      [] wireType = 1 -> 8
      [] wireType = 2 -> VarintLen(b) + ReadInt32(b)
      [] wireType = 5 -> 4
      [] OTHER -> 0

\* the bytes of the field at the head of b, its tag taken off
FieldLen(wireType, b) ==
    LET n == IF VarintLen(b) = 0 THEN 0 ELSE UnknownLen(wireType, b)
    IN  IF n \in 1 .. Len(b) THEN n ELSE 0

\* the submessage that bytes are merged into: an optional one that is there
\* already, or a new one
Into(sub, f, m) == IF f.label = "optional" /\ m[f.name] # <<>> THEN Head(m[f.name])
                   ELSE sub.clear[f.type]

\* mutable_results where add_results is meant
KeepLast(f, m, msg) == <<msg>>

\* mutable_host or add_results
Added(f, m, msg) ==
    IF f.label = "optional" THEN <<msg>> ELSE Append(m[f.name], msg)

Stored(f, m, read) == Parsed(read.ok, [m EXCEPT ![f.name] = Added(f, m, read.msg)])

\* a later scalar replaces an earlier one
ReadField(sub, f, m, b) ==
    IF f.label = "scalar"
    THEN Parsed(TRUE, [m EXCEPT ![f.name] = ReadScalar(f.type, b)])
    ELSE LET body == SubSeq(b, VarintLen(b) + 1, FieldLen(2, b))
         IN  Stored(f, m, sub.parse[f.type][Into(sub, f, m)][body])

\* a parse with the bytes it has still to read
Before(read, rest) == [ok |-> read.ok, msg |-> read.msg, rest |-> rest]

\* one round of the loop over tags, with the bytes still to be read; what was
\* read before a failure stays in the message
ParseField(sub, fields, st) ==
    LET b == st.rest
        tag == IF VarintLen(b) = 0 THEN 0 ELSE ReadInt32(b)
        rest == SubSeq(b, VarintLen(b) + 1, Len(b))
        len == FieldLen(tag % 8, rest)
        known == {i \in DOMAIN fields : Tag(fields[i]) = tag}
        read == IF known = {} THEN Parsed(TRUE, st.msg)
                ELSE ReadField(sub, fields[CHOOSE i \in known : TRUE], st.msg, rest)
    IN  IF ~st.ok \/ b = <<>> THEN st
        ELSE IF tag = 0 \/ len = 0 THEN [st EXCEPT !.ok = FALSE]
        ELSE Before(read, SubSeq(rest, len + 1, Len(rest)))

Outcome(st) == Parsed(st.ok, st.msg)

\* a round takes a byte at least, or is the last
ParseFields(sub, fields, m, b) ==
    LET loop[n \in 0 .. Len(b)] ==
            IF n = 0 THEN [ok |-> TRUE, msg |-> m, rest |-> b]
            ELSE ParseField(sub, fields, loop[n - 1])
    IN  Outcome(loop[Len(b)])

-----------------------------------------------------------------------------
(* The classes.                                                            *)

Leaf == <<>>

HostInfo_InternalParse(m, b) == ParseFields(Leaf, HostInfo_Fields, m, b)
GetRouteRequest_InternalParse(m, b) == ParseFields(Leaf, GetRouteRequest_Fields, m, b)
HostCallResult_InternalParse(m, b) == ParseFields(Leaf, HostCallResult_Fields, m, b)
GetHostRequest_InternalParse(m, b) == ParseFields(Leaf, GetHostRequest_Fields, m, b)

HostInfo_InternalSerialize(m) == WriteFields(Leaf, HostInfo_Fields, m)
GetRouteRequest_InternalSerialize(m) == WriteFields(Leaf, GetRouteRequest_Fields, m)
HostCallResult_InternalSerialize(m) == WriteFields(Leaf, HostCallResult_Fields, m)
GetHostRequest_InternalSerialize(m) == WriteFields(Leaf, GetHostRequest_Fields, m)

HostInfo_ByteSizeLong(m) == SizeOfFields(Leaf, HostInfo_Fields, m)
GetRouteRequest_ByteSizeLong(m) == SizeOfFields(Leaf, GetRouteRequest_Fields, m)
HostCallResult_ByteSizeLong(m) == SizeOfFields(Leaf, HostCallResult_Fields, m)
GetHostRequest_ByteSizeLong(m) == SizeOfFields(Leaf, GetHostRequest_Fields, m)

\* virtual functions of the submessages
SubParse ==
    [HostInfo |-> [m \in HostInfos |-> [b \in Bytes |-> HostInfo_InternalParse(m, b)]],
     HostCallResult |->
        [m \in HostCallResults |-> [b \in Bytes |-> HostCallResult_InternalParse(m, b)]]]

SubSerialize ==
    [HostInfo |-> [m \in HostInfos |-> HostInfo_InternalSerialize(m)],
     HostCallResult |-> [m \in HostCallResults |-> HostCallResult_InternalSerialize(m)]]

SubByteSize ==
    [HostInfo |-> [m \in HostInfos |-> HostInfo_ByteSizeLong(m)],
     HostCallResult |-> [m \in HostCallResults |-> HostCallResult_ByteSizeLong(m)]]

Nested == [clear |-> SubClear, size |-> SubByteSize, bytes |-> SubSerialize,
           parse |-> SubParse]

GetRouteResponse_InternalParse(m, b) == ParseFields(Nested, GetRouteResponse_Fields, m, b)
ReportStatusRequest_InternalParse(m, b) == ParseFields(Nested, ReportStatusRequest_Fields, m, b)
GetHostResponse_InternalParse(m, b) == ParseFields(Nested, GetHostResponse_Fields, m, b)

GetRouteResponse_InternalSerialize(m) == WriteFields(Nested, GetRouteResponse_Fields, m)
ReportStatusRequest_InternalSerialize(m) == WriteFields(Nested, ReportStatusRequest_Fields, m)
GetHostResponse_InternalSerialize(m) == WriteFields(Nested, GetHostResponse_Fields, m)

GetRouteResponse_ByteSizeLong(m) == SizeOfFields(Nested, GetRouteResponse_Fields, m)
ReportStatusRequest_ByteSizeLong(m) == SizeOfFields(Nested, ReportStatusRequest_Fields, m)
GetHostResponse_ByteSizeLong(m) == SizeOfFields(Nested, GetHostResponse_Fields, m)

\* CopyFrom clears its own message and merges the other into it
HostInfo_MergeFrom(m, from) == MergeFields(HostInfo_Fields, m, from)
HostCallResult_MergeFrom(m, from) == MergeFields(HostCallResult_Fields, m, from)

HostInfo_CopyFrom(from) == HostInfo_MergeFrom(HostInfo_Clear, from)
HostCallResult_CopyFrom(from) == HostCallResult_MergeFrom(HostCallResult_Clear, from)

\* SerializeToString makes the buffer as long as ByteSizeLong says; a message
\* that takes more or fewer bytes ends the program (ByteSizeConsistencyError)
Sized(bytes, size) == IF Len(bytes) = size THEN bytes ELSE <<>>

GetRouteRequest_SerializeToString(m) ==
    Sized(GetRouteRequest_InternalSerialize(m), GetRouteRequest_ByteSizeLong(m))
GetRouteResponse_SerializeToString(m) ==
    Sized(GetRouteResponse_InternalSerialize(m), GetRouteResponse_ByteSizeLong(m))
ReportStatusRequest_SerializeToString(m) ==
    Sized(ReportStatusRequest_InternalSerialize(m), ReportStatusRequest_ByteSizeLong(m))
GetHostRequest_SerializeToString(m) ==
    Sized(GetHostRequest_InternalSerialize(m), GetHostRequest_ByteSizeLong(m))
GetHostResponse_SerializeToString(m) ==
    Sized(GetHostResponse_InternalSerialize(m), GetHostResponse_ByteSizeLong(m))

\* a cleared message and the bytes; whether it succeeded is for the caller to ask
GetRouteRequest_ParseFromArray(b) == GetRouteRequest_InternalParse(GetRouteRequest_Clear, b)
GetRouteResponse_ParseFromArray(b) == GetRouteResponse_InternalParse(GetRouteResponse_Clear, b)
ReportStatusRequest_ParseFromArray(b) ==
    ReportStatusRequest_InternalParse(ReportStatusRequest_Clear, b)
GetHostRequest_ParseFromArray(b) == GetHostRequest_InternalParse(GetHostRequest_Clear, b)
GetHostResponse_ParseFromArray(b) == GetHostResponse_InternalParse(GetHostResponse_Clear, b)
==============================================================================
