----------------------------- MODULE MCSharedObjects -----------------------------
(***************************************************************************)
(* The objects that several threads, tasks or callbacks of one client      *)
(* share: a response's body, the client's own state, a DigestAuth, and the *)
(* in-process transports.  They share no state with each other, so one of  *)
(* them moves in each behaviour.                                           *)
(***************************************************************************)
EXTENDS Naturals, Sequences

CONSTANTS Readers, Length, Threads, Transports, Flows, Nonces, Unusable, MaxHops, Threaded,
          AppTasks, Parts, Steps

VARIABLES
    object,
    consumed, closed, cached, content, mode, reader, got, wire, alive, cancelled, closer, after,
    state, open, pc, at, shut, late, closedBy,
    lastChallenge, nonceCount, issued, flow, challenge, nc, answered, hops, used,
    head, raiseExceptions, receiver, pulled, requestComplete, received, statusCode,
    bodyParts, responseComplete, sent, app, call,
    raising, wsgi, seenStatus, seenExcInfo, produced, more, delivered, respStatus, firstStatus

Body == INSTANCE ResponseBody
Life == INSTANCE ClientLifecycle
Digest == INSTANCE DigestAuth
Asgi == INSTANCE ASGITransport
Wsgi == INSTANCE WSGITransport

ASSUME SharedAssumption ==
    /\ Body!LengthAssumption /\ Life!TransportsAssumption /\ Digest!DigestAssumption
    /\ Asgi!PartsAssumption /\ Wsgi!StepsAssumption

body == <<consumed, closed, cached, content, mode, reader, got, wire, alive, cancelled,
          closer, after>>
client == <<state, open, pc, at, shut, late, closedBy>>
digest == <<lastChallenge, nonceCount, issued, flow, challenge, nc, answered, hops, used>>
asgi == <<head, raiseExceptions, receiver, pulled, requestComplete, received, statusCode,
          bodyParts, responseComplete, sent, app, call>>
wsgiVars == <<raising, wsgi, seenStatus, seenExcInfo, produced, more, delivered, respStatus,
              firstStatus>>

Init ==
    /\ object \in {"body", "client", "digest", "asgi", "wsgi"}
    /\ Body!Init /\ (object # "body" => \A r \in Readers : mode[r] = "read")
    /\ Life!Init /\ Digest!Init
    /\ Asgi!Init /\ (object # "asgi" => ~head /\ ~raiseExceptions)
    /\ Wsgi!Init /\ (object # "wsgi" => ~raising)

Next ==
    /\ UNCHANGED object
    /\ \/ /\ object = "body" /\ Body!Next
          /\ UNCHANGED <<client, digest, asgi, wsgiVars>>
       \/ /\ object = "client" /\ Life!Next
          /\ UNCHANGED <<body, digest, asgi, wsgiVars>>
       \/ /\ object = "digest" /\ Digest!Next
          /\ UNCHANGED <<body, client, asgi, wsgiVars>>
       \/ /\ object = "asgi" /\ Asgi!Next
          /\ UNCHANGED <<body, client, digest, wsgiVars>>
       \/ /\ object = "wsgi" /\ Wsgi!Next
          /\ UNCHANGED <<body, client, digest, asgi>>

Spec == Init /\ [][Next]_<<object, body, client, digest, asgi, wsgiVars>>

-----------------------------------------------------------------------------
\* See the modules: a body is given out whole, in order, to one reader ...
OneReaderInOrder == Body!OneReaderInOrder
WholeUnlessClosed == Body!WholeUnlessClosed

\* ... and not at all once it is closed.
DryAfterClose == Body!DryAfterClose

\* No request begins on a client that has closed all its transports.
NoLateRequest == Life!NoLateRequest

\* A server that counts nonces sees no gap, and a count again only when it
\* redirects to itself.
NonceCountExact == Digest!OnlyRedirectsRepeat /\ Digest!NoGap

\* What an application is asked, and what its response says, in its order.
RequestInOrder == Asgi!RequestInOrder
ResponseIsTheApps == Asgi!ResponseIsTheApps /\ Wsgi!ResponseIsTheApps
===============================================================================
