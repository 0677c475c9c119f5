------------------------------ MODULE WSGITransport ------------------------------
(***************************************************************************)
(* One WSGITransport.handle_request (httpxp/_transports/wsgi.py) and the   *)
(* response it returns.  The application may be a generator, whose code    *)
(* runs, start_response and all, only when its result is iterated.  Parts  *)
(* of the body and calls of start_response are numbered.                   *)
(***************************************************************************)
EXTENDS Naturals, Sequences

CONSTANT Steps           \* bound: calls of start_response, and parts of the body

StepsAssumption == Steps \in Nat \ {0}

VARIABLES
    raising,       \* raise_app_exceptions
    wsgi,          \* where the call, then the response, is
    seenStatus,    \* the last start_response: 0 before the first
    seenExcInfo,   \* it had exc_info
    produced,      \* non-empty parts the application has yielded
    more,          \* the result has not been found to be empty
    delivered,     \* the parts the response has yielded
    respStatus,    \* status_code of the response: 0 before it exists
    firstStatus    \* history: seenStatus when the first part, or the end, came

wvars == <<raising, wsgi, seenStatus, seenExcInfo, produced, more, delivered, respStatus, firstStatus>>

TypeOK ==
    /\ raising \in BOOLEAN /\ seenExcInfo \in BOOLEAN /\ more \in BOOLEAN
    /\ wsgi \in {"calling", "skipping", "checking", "streaming", "ended", "closed", "raised"}
    /\ {seenStatus, respStatus, firstStatus} \subseteq 0 .. Steps
    /\ produced \in 0 .. Steps /\ delivered \in Seq(1 .. Steps)

Init ==
    /\ raising \in BOOLEAN /\ wsgi = "calling"
    /\ seenStatus = 0 /\ seenExcInfo = FALSE
    /\ produced = 0 /\ more = TRUE /\ delivered = <<>> /\ respStatus = 0 /\ firstStatus = 0

\* The application's code runs inside the call, or inside its result.
StartResponse(excInfo) ==
    /\ wsgi \in {"calling", "skipping", "streaming"} /\ seenStatus < Steps
    /\ seenStatus' = seenStatus + 1 /\ seenExcInfo' = excInfo
    /\ UNCHANGED <<raising, wsgi, produced, more, delivered, respStatus, firstStatus>>

\* self.app(environ, start_response) returns the result.
ResultReturned ==
    /\ wsgi = "calling" /\ wsgi' = "skipping"
    /\ UNCHANGED <<raising, seenStatus, seenExcInfo, produced, more, delivered, respStatus, firstStatus>>

AppRaises ==
    /\ wsgi \in {"calling", "skipping", "streaming"} /\ wsgi' = "raised"
    /\ UNCHANGED <<raising, seenStatus, seenExcInfo, produced, more, delivered, respStatus, firstStatus>>

\* Mutant: the result is not looked into before the response is made.
SkipNothing ==
    /\ wsgi = "skipping" /\ wsgi' = "checking"
    /\ UNCHANGED <<raising, seenStatus, seenExcInfo, produced, more, delivered, respStatus, firstStatus>>

\* _skip_leading_empty_chunks: up to the first non-empty part, which is kept in
\* front of the others, or to the end.
SkipLeading ==
    /\ wsgi = "skipping" /\ wsgi' = "checking"
    /\ more' \in BOOLEAN
    /\ produced' = IF more' THEN 1 ELSE 0
    /\ firstStatus' = seenStatus
    /\ UNCHANGED <<raising, seenStatus, seenExcInfo, delivered, respStatus>>

\* The assertions, and the exception the application has reported.
Check ==
    /\ wsgi = "checking"
    /\ IF seenStatus = 0 \/ (seenExcInfo /\ raising)
         THEN wsgi' = "raised" /\ UNCHANGED respStatus
         ELSE wsgi' = "streaming" /\ respStatus' = seenStatus
    /\ UNCHANGED <<raising, seenStatus, seenExcInfo, produced, more, delivered, firstStatus>>

\* WSGIByteStream: the part kept back, then whatever the result yields.
Deliver ==
    /\ wsgi = "streaming"
    /\ \/ Len(delivered) < produced /\ UNCHANGED <<produced, firstStatus>>
       \/ /\ Len(delivered) = produced /\ more /\ produced < Steps
          /\ produced' = produced + 1
          /\ firstStatus' = IF produced = 0 THEN seenStatus ELSE firstStatus
    /\ delivered' = Append(delivered, Len(delivered) + 1)
    /\ UNCHANGED <<raising, wsgi, seenStatus, seenExcInfo, more, respStatus>>

\* The end of the body, or close().
ResponseEnds ==
    /\ wsgi = "streaming"
    /\ \/ Len(delivered) = produced /\ wsgi' = "ended"
       \/ wsgi' = "closed"
    /\ UNCHANGED <<raising, seenStatus, seenExcInfo, produced, more, delivered, respStatus, firstStatus>>

Next ==
    \/ \E excInfo \in BOOLEAN : StartResponse(excInfo)
    \/ ResultReturned \/ AppRaises \/ SkipLeading \/ Check \/ Deliver \/ ResponseEnds

Spec == Init /\ [][Next]_wvars

-----------------------------------------------------------------------------
\* A response has the status the application had set last when its first part
\* came, even if it is a generator that yields empty parts first; and looking
\* ahead for that part loses and repeats nothing of the body.
ResponseIsTheApps ==
    /\ wsgi \in {"streaming", "ended", "closed"} /\ delivered # <<>> =>
          respStatus = firstStatus /\ respStatus # 0
    /\ delivered = [i \in 1 .. Len(delivered) |-> i]
    /\ wsgi = "ended" => Len(delivered) = produced

-----------------------------------------------------------------------------
\* The status does not change between the look at the first part and the
\* response, and the response has a first part if there is one.
Ahead ==
    /\ wsgi \in {"calling", "skipping"} => produced = 0
    /\ wsgi = "checking" => firstStatus = seenStatus
    /\ wsgi \in {"checking", "streaming"} /\ more => produced # 0
    /\ wsgi \in {"streaming", "ended", "closed"} => respStatus = firstStatus /\ respStatus # 0

InOrder ==
    /\ Len(delivered) <= produced /\ \A i \in 1 .. Len(delivered) : delivered[i] = i
    /\ wsgi = "ended" => Len(delivered) = produced

IInv == TypeOK /\ Ahead /\ InOrder
===============================================================================
