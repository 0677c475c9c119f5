----------------------------- MODULE ClientRequests -----------------------------
(***************************************************************************)
(* The requests that one call of send() puts on the wire: ClientSend       *)
(* composed with what each request carries.  A redirect builds a new       *)
(* request from the last one (httpxp/_client.py), the authentication flow  *)
(* resends and changes its own, and all of them share one body, whose      *)
(* source may not be readable twice (httpxp/_content.py, _multipart.py).   *)
(* Client and AsyncClient, iterables and asynchronous iterables have the   *)
(* same code twice.                                                        *)
(***************************************************************************)
EXTENDS Integers, ClientSend

CONSTANTS Homes,         \* URLs of the first request: [scheme, host, port]
          Methods,       \* its methods
          OwnHeaders,    \* which of these headers the caller has set on it
          Locations,     \* Location headers: URLs with "" and 0 for what is missing
          Statuses,      \* of redirects
          Size           \* bound: parts of the body

ASSUME SizeAssumption == Size \in Nat \ {0}

Url == [scheme : STRING, host : STRING, port : Nat]

ASSUME UrlsAssumption == Homes \union Locations \subseteq Url

VARIABLES
    auth,          \* the authentication flow
    kind,          \* what the body was made from
    position,      \* how much of that source has been read
    begun,         \* _is_stream_consumed
    buffered,      \* what Request.read() kept
    flowRequest,   \* the request the authentication flow yields
    request,       \* the one being sent
    wire           \* history: the last request that was answered

rvars == <<auth, kind, position, begun, buffered, flowRequest, request, wire>>

NoLength == -1
Own == [host |-> "own", port |-> -1]     \* a Host header the caller has set

-----------------------------------------------------------------------------
(* URLs and origins                                                         *)

PortOrDefault(url) ==
    CASE url.port # 0 -> url.port
      [] url.port = 0 /\ url.scheme = "http" -> 80
      [] url.port = 0 /\ url.scheme = "https" -> 443

SameOrigin(url, other) ==
    /\ url.scheme = other.scheme /\ url.host = other.host
    /\ PortOrDefault(url) = PortOrDefault(other)

IsHttpsRedirect(url, location) ==
    /\ url.host = location.host
    /\ url.scheme = "http" /\ PortOrDefault(url) = 80
    /\ location.scheme = "https" /\ PortOrDefault(location) = 443

Netloc(url) == [host |-> url.host, port |-> url.port]

IsAbsolute(url) == url.scheme # "" /\ url.host # ""

\* urljoin for what the origin depends on.
Join(url, relative) ==
    IF relative.host = "" THEN url ELSE [relative EXCEPT !.scheme = url.scheme]

RedirectUrl(from, location) ==
    LET hosted == IF location.scheme # "" /\ location.host = ""
                    THEN [location EXCEPT !.host = from.host] ELSE location IN
    IF IsAbsolute(hosted) THEN hosted ELSE Join(from, hosted)

RedirectMethod(method, status) ==
    CASE status \in {302, 303} /\ method # "HEAD" -> "GET"
      [] status = 301 /\ method = "POST" -> "GET"
      [] OTHER -> method

\* _redirect_headers and _redirect_stream.  The new request's cookies come from
\* the client's jar: `cookie` is a Cookie header of the first request's own.
RedirectRequest(from, url, method) ==
    LET bodiless == method # from.method /\ method = "GET" IN
    [from EXCEPT
        !.url = url, !.method = method, !.cookie = FALSE,
        !.authorization = @ /\ (SameOrigin(url, from.url) \/ IsHttpsRedirect(from.url, url)),
        !.host = IF SameOrigin(url, from.url) THEN @ ELSE Netloc(url),
        !.length = IF bodiless THEN NoLength ELSE @,
        !.chunked = @ /\ ~bodiless,
        !.stream = IF bodiless THEN "empty" ELSE @]

-----------------------------------------------------------------------------
(* Bodies                                                                   *)

\* A "list" can be iterated again, an "iterator" is a one-shot iterable that is
\* not a generator, a "pipe" a multipart file that cannot be sought.
BodyKinds == {"none", "bytes", "list", "iterator", "generator", "file", "multipart", "pipe"}

\* Sources that go on where they were left, and those nobody stops from it.
Spent == {"iterator", "generator", "file", "pipe"}
OneShot == Spent \ {"generator"}

\* encode_request: the length it announces, if it can tell without reading.  Of
\* a file that is its whole size, wherever it is positioned.
EncodedLength(body) == IF body \in {"bytes", "file", "multipart"} THEN Size ELSE NoLength

EncodedChunked(body) == body \in {"list", "iterator", "generator", "pipe"}

\* Request.__init__ and _prepare: the caller's own headers come first.
NewRequest(url, method, body, own) ==
    LET length == IF "length" \in own THEN Size ELSE EncodedLength(body)
        chunked == "chunked" \in own \/ (EncodedChunked(body) /\ "length" \notin own) IN
    [url |-> url, method |-> method,
     authorization |-> "authorization" \in own, cookie |-> "cookie" \in own,
     host |-> IF "host" \in own THEN Own ELSE Netloc(url),
     length |-> IF length = NoLength /\ ~chunked /\ method \in {"POST", "PUT"}
                  THEN 0 ELSE length,
     chunked |-> chunked,
     stream |-> IF body = "none" THEN "empty" ELSE "source"]

\* What iterating over a stream yields now.
Remaining(body) ==
    CASE body = "empty" -> 0
      [] body = "buffer" -> buffered
      [] body = "source" -> IF kind \in Spent THEN Size - position ELSE Size

\* Mutant: a generator that was begun is gone on with.
NeverConsumed(body) == FALSE

\* StreamConsumed: a generator is not iterated twice.
Consumed(body) == body = "source" /\ kind = "generator" /\ begun

-----------------------------------------------------------------------------
(* The call                                                                 *)

\* build_request, _build_request_auth and the start of the flow: basic
\* credentials (of the client, the URL or a netrc file) are set at once; a
\* flow that requires the body reads it into memory.
RequestInit ==
    /\ Init
    /\ auth \in {"none", "basic", "digest", "signed"}
    /\ kind \in BodyKinds
    /\ \E url \in Homes, method \in Methods, own \in OwnHeaders :
          LET built == NewRequest(url, method, kind, own)
              asked == [built EXCEPT !.authorization = @ \/ auth = "basic",
                                     !.stream = IF auth = "signed" /\ kind \notin {"none", "bytes"}
                                                  THEN "buffer" ELSE @] IN
          /\ kind = "none" => "length" \notin own
          /\ kind \notin {"none", "bytes"} => method \in {"POST", "PUT"}
          /\ flowRequest = asked /\ request = asked
    /\ position \in IF kind = "file" THEN {0, 1} ELSE {0}
    /\ begun = FALSE
    /\ buffered = Size - position
    /\ wire = [request |-> request, units |-> 0, ended |-> FALSE, resumed |-> FALSE]

\* _send_single_request: a response comes, with `units` of the body sent; the
\* rest is left in its source.
Transmit(answer) ==
    \E units \in 0 .. Size :
        LET reading == request.stream = "source" /\ (units > 0 \/ Remaining("source") = 0) IN
        /\ IF Consumed(request.stream) THEN units = 0 ELSE units <= Remaining(request.stream)
        /\ Respond(answer)
        /\ position' = IF reading /\ kind \in Spent THEN position + units ELSE position
        /\ begun' = (begun \/ reading)
        /\ wire' = [request |-> request, units |-> units,
                    ended |-> ~Consumed(request.stream) /\ units = Remaining(request.stream),
                    resumed |-> /\ kind \in OneShot /\ request.stream # "empty"
                                /\ Remaining(request.stream) < Size]
        /\ UNCHANGED <<auth, kind, buffered, flowRequest, request>>

\* _build_redirect_request
Redirected ==
    \E status \in Statuses, location \in Locations :
        /\ Location
        /\ request' = RedirectRequest(request, RedirectUrl(request.url, location),
                                      RedirectMethod(request.method, status))
        /\ UNCHANGED <<auth, kind, position, begun, buffered, flowRequest, wire>>

\* The flow answers the challenge of whichever server has sent it; other flows
\* have no second request.
Answered ==
    /\ FlowContinues
    /\ auth \in {"digest", "signed"}
    /\ flowRequest' = [flowRequest EXCEPT !.authorization = TRUE]
    /\ UNCHANGED <<auth, kind, position, begun, buffered, request, wire>>

\* Mutant: the flow goes on with the request that was redirected last.
ResendRedirected ==
    /\ NextLeg
    /\ request' = [request EXCEPT !.authorization = TRUE]
    /\ UNCHANGED <<auth, kind, position, begun, buffered, flowRequest, wire>>

\* The flow's request is sent again, from its own URL.
Resend ==
    /\ NextLeg
    /\ request' = flowRequest
    /\ UNCHANGED <<auth, kind, position, begun, buffered, flowRequest, wire>>

RequestNext ==
    \/ \E answer \in Kinds : Transmit(answer)
    \/ Redirected \/ Answered \/ Resend
    \/ /\ \/ CheckLimit \/ RequestFails \/ HookFails \/ HooksPass \/ LocationFails
          \/ Follow \/ FollowFails \/ FlowFails \/ FlowStops \/ NextLegFails
          \/ Return \/ ReadFails
       /\ UNCHANGED rvars

RequestSpec == RequestInit /\ [][RequestNext]_<<vars, rvars>>

\* As in ClientSend: the call runs on.
FairRequestSpec == RequestSpec /\ WF_<<vars, rvars>>(RequestNext)

-----------------------------------------------------------------------------
\* What the flow's request says about itself and its origin is true of `sent`.
StaysHome(sent) ==
    LET home == flowRequest.url IN
    /\ sent.authorization => SameOrigin(sent.url, home) \/ IsHttpsRedirect(home, sent.url)
    /\ sent.cookie => sent.url = home
    /\ IF sent.host = Own
         THEN SameOrigin(sent.url, home)
         ELSE /\ sent.host.host = sent.url.host
              /\ PortOrDefault([sent.url EXCEPT !.port = sent.host.port]) = PortOrDefault(sent.url)

\* However a chain of redirects and challenges wanders, the Authorization of
\* the flow's request reaches no other origin than that request's, or its
\* https upgrade, its Cookie header no other request at all, and the Host
\* header names the server it goes to unless the caller's own still applies.
CredentialsStayHome == StaysHome(wire.request)

\* A request whose body was sent to its end has carried all of it, as its
\* headers announce, or none and announces none; never a part, and a generator
\* never twice.  The one exception is a source that goes on where an earlier
\* request, or the caller, has left it: a file, a one-shot iterator.
BodyOrError ==
    LET sent == wire.request IN
    wire.ended /\ ~wire.resumed =>
        /\ wire.units = IF sent.stream = "empty" THEN 0 ELSE Size
        /\ sent.length \in {NoLength, wire.units}
        /\ sent.length = NoLength /\ ~sent.chunked => wire.units = 0

-----------------------------------------------------------------------------
Hosts == {Own} \union [host : STRING, port : Nat]

Request ==
    [url : Url, method : Methods \union {"GET"}, authorization : BOOLEAN, cookie : BOOLEAN,
     host : Hosts, length : {NoLength, 0, Size}, chunked : BOOLEAN,
     stream : {"empty", "buffer", "source"}]

RequestTypeOK ==
    /\ kind \in BodyKinds /\ begun \in BOOLEAN
    /\ auth \in {"none", "basic", "digest", "signed"}
    /\ position \in 0 .. Size /\ buffered \in 0 .. Size
    /\ flowRequest \in Request /\ request \in Request
    /\ wire \in [request : Request, units : 0 .. Size, ended : BOOLEAN, resumed : BOOLEAN]

\* The headers announce the body, or announce that it is announced piecemeal.
Framed(r) ==
    /\ r.stream = "empty" => r.length \in {NoLength, 0}
    /\ r.stream # "empty" => r.length = Size \/ (r.length = NoLength /\ r.chunked)

\* A source that nobody else has read is at its start, and all of it in a buffer.
Readable ==
    /\ kind \notin OneShot => buffered = Size
    /\ kind = "generator" /\ ~begun => position = 0

RequestInv ==
    /\ RequestTypeOK /\ Readable
    /\ StaysHome(flowRequest) /\ StaysHome(request) /\ CredentialsStayHome
    /\ Framed(flowRequest) /\ Framed(request) /\ BodyOrError
===============================================================================
