----------------------------- MODULE ServerList -----------------------------
(***************************************************************************)
(* Reading and choosing server addresses (src/common/remote/server_list/). *)
(*                                                                         *)
(* An address is [host, form, port]: its form is "plain" (a name, IPv4 or  *)
(* a bracketed IPv6), "bare" (an IPv6 that begins with a colon, without    *)
(* brackets) or "blank"; its port is a number or NoPort, for a missing or  *)
(* unreadable one.                                                         *)
(***************************************************************************)
EXTENDS Naturals, SequencesExt

NoPort == 65536
DefaultPort == 8848

\* parse_host_port: the text after a leading colon is never a port.
PortOf(a) == IF a.form = "bare" THEN NoPort ELSE a.port

\* One segment of parse_server_list, written out again as host:port.
WithPort(a) == IF PortOf(a) = NoPort THEN [a EXCEPT !.port = DefaultPort] ELSE a

\* parse_server_list; an empty result stands for its error.
ParseServerList(body) ==
    LET segments == SelectSeq(body, LAMBDA a : a.form # "blank")
    IN [n \in DOMAIN segments |-> WithPort(segments[n])]

\* parse_host_port_vec; an empty result stands for its error.
ParseHostPortVec(list) == SelectSeq(list, LAMBDA a : PortOf(a) # NoPort)

\* A variant of Select that never gets to the last.
SelectButLast(list, idx) ==
    LET parsed == ParseHostPortVec(list)
    IN IF Len(parsed) = 1 THEN parsed[1] ELSE parsed[1 + (idx % (Len(parsed) - 1))]

\* PollingServerListService::call.
Select(list, idx) ==
    LET parsed == ParseHostPortVec(list) IN parsed[1 + (idx % Len(parsed))]

\* TonicBuilder::call: grpc_port is for all servers; without it each has its own,
\* in 16 bits.
GrpcPort(a, fixed) == IF fixed = "unset" THEN (a.port + 1000) % 2^16 ELSE fixed

\* Tonic::new: where a channel goes.
Endpoint(a, fixed) == [host |-> a.host, port |-> GrpcPort(a, fixed)]
=============================================================================
