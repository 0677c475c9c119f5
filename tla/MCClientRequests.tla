---------------------------- MODULE MCClientRequests ----------------------------
(* An instance of ClientRequests: two hosts, and a second port of the first. *)
EXTENDS ClientRequests

At(scheme, host, port) == [scheme |-> scheme, host |-> host, port |-> port]

MCHomes == {At("http", "a", 0), At("https", "a", 0)}

\* Elsewhere, back with an explicit default port, without a host, without a
\* scheme, relative.
MCLocations ==
    {At("http", "b", 0), At("http", "a", 80), At("https", "", 0), At("", "b", 0), At("", "", 0)}

MCOwnHeaders == {{}, {"authorization", "cookie", "host"}, {"length"}}

\* Each kind of header with one kind of body, each kind of body with one kind
\* of headers; "bytes" and "pipe" differ from "multipart" and "iterator" only in
\* their framing.
MCInit ==
    /\ RequestInit
    /\ kind \notin {"bytes", "pipe"}
    /\ request.host = Own => kind \in {"none", "multipart"}
    /\ auth = "basic" => kind = "none"

MCSpec == MCInit /\ [][RequestNext]_<<vars, rvars>> /\ WF_<<vars, rvars>>(RequestNext)
===============================================================================
