------------------------------ MODULE ASGITransport ------------------------------
(***************************************************************************)
(* One ASGITransport.handle_async_request (httpxp/_transports/asgi.py): an *)
(* application with several tasks calls receive() and send(), which share  *)
(* the request's body iterator and the response under construction.  Tasks *)
(* switch where receive() awaits; parts of bodies are numbered.            *)
(***************************************************************************)
EXTENDS Naturals, Sequences

CONSTANTS AppTasks,      \* tasks of the application that call receive()
          Parts          \* bound: parts of the request's and of the response's body

PartsAssumption == Parts \in Nat

VARIABLES
    head,              \* request.method == "HEAD"
    raiseExceptions,   \* raise_app_exceptions
    receiver,          \* where each task's receive() is
    pulled,            \* parts taken from request_body_chunks
    requestComplete,   \* request_complete
    received,          \* history: the messages receive() has returned
    statusCode,        \* status_code: "none", the application's "own", or 500
    bodyParts,         \* body_parts
    responseComplete,  \* response_complete is set
    sent,              \* history: parts that send() was given
    app,               \* what the application did
    call               \* handle_async_request

asgi == <<head, raiseExceptions, receiver, pulled, requestComplete, received,
          statusCode, bodyParts, responseComplete, sent, app, call>>

receiving == <<receiver, pulled, requestComplete, received>>
sending == <<statusCode, bodyParts, responseComplete, sent>>

\* Messages: the parts by their number, and
End == 0                   \* {"type": "http.request", "body": b"", "more_body": False}
Disconnect == Parts + 1    \* {"type": "http.disconnect"}

TypeOK ==
    /\ head \in BOOLEAN /\ raiseExceptions \in BOOLEAN
    /\ receiver \in [AppTasks -> {"idle", "pulling", "waiting"}]
    /\ pulled \in 0 .. Parts /\ requestComplete \in BOOLEAN
    /\ received \in Seq(0 .. Parts + 1)
    /\ statusCode \in {"none", "own", "500"}
    /\ bodyParts \in Seq(1 .. Parts) /\ sent \in 0 .. Parts
    /\ responseComplete \in BOOLEAN
    /\ app \in {"running", "returned", "raised"}
    /\ call \in {"running", "returned", "raised"}

Init ==
    /\ head \in BOOLEAN /\ raiseExceptions \in BOOLEAN
    /\ receiver = [t \in AppTasks |-> "idle"]
    /\ pulled = 0 /\ requestComplete = FALSE /\ received = <<>>
    /\ statusCode = "none" /\ bodyParts = <<>> /\ responseComplete = FALSE /\ sent = 0
    /\ app = "running" /\ call = "running"

AppRaises ==
    /\ app' = "raised"
    /\ UNCHANGED <<head, raiseExceptions, call>>

Runs == app = "running" /\ UNCHANGED <<head, raiseExceptions, app, call>>

-----------------------------------------------------------------------------
(* receive()                                                                *)

\* To a task that runs receive() the application's end, which is not waited
\* for, makes no difference.
Returns(t, message) ==
    /\ receiver' = [receiver EXCEPT ![t] = "idle"]
    /\ received' = Append(received, message)
    /\ UNCHANGED <<head, raiseExceptions, app, call>>

\* Mutant: the end of the body is not remembered.
ReceiveForgetful(t) ==
    /\ receiver[t] = "idle" /\ Len(received) < Parts + 3
    /\ \A u \in AppTasks : receiver[u] # "pulling"
    /\ receiver' = [receiver EXCEPT ![t] = "pulling"]
    /\ Runs
    /\ UNCHANGED <<pulled, requestComplete, received, sending>>

\* Either the body is over and the task waits for the response, or it is the
\* one that pulls the next part.
Receive(t) ==
    /\ receiver[t] = "idle" /\ Len(received) < Parts + 3
    /\ \/ requestComplete /\ receiver' = [receiver EXCEPT ![t] = "waiting"]
       \/ /\ ~requestComplete /\ \A u \in AppTasks : receiver[u] # "pulling"
          /\ receiver' = [receiver EXCEPT ![t] = "pulling"]
    /\ Runs
    /\ UNCHANGED <<pulled, requestComplete, received, sending>>

\* __anext__ of a generator that another task is inside of, or one that raises.
ReceiveFails(t) ==
    /\ app = "running"
    /\ \/ receiver[t] = "pulling" /\ receiver' = [receiver EXCEPT ![t] = "idle"]
       \/ /\ receiver[t] = "idle" /\ ~requestComplete
          /\ \E u \in AppTasks : receiver[u] = "pulling"
          /\ UNCHANGED receiver
    /\ AppRaises
    /\ UNCHANGED <<pulled, requestComplete, received, sending>>

PartPulled(t) ==
    /\ receiver[t] = "pulling" /\ pulled < Parts
    /\ pulled' = pulled + 1
    /\ Returns(t, pulled')
    /\ UNCHANGED <<requestComplete, sending>>

\* StopAsyncIteration, which an exhausted generator raises again.
PartsEnd(t) ==
    /\ receiver[t] = "pulling"
    /\ requestComplete' = TRUE
    /\ Returns(t, End)
    /\ UNCHANGED <<pulled, sending>>

\* Mutant: the disconnection does not wait for the response.
DisconnectedEarly(t) ==
    /\ receiver[t] = "waiting"
    /\ Returns(t, Disconnect)
    /\ UNCHANGED <<pulled, requestComplete, sending>>

Disconnected(t) ==
    /\ receiver[t] = "waiting" /\ responseComplete
    /\ Returns(t, Disconnect)
    /\ UNCHANGED <<pulled, requestComplete, sending>>

-----------------------------------------------------------------------------
(* send()                                                                   *)

SendStart ==
    /\ Runs
    /\ statusCode = "none"
    /\ statusCode' = "own"
    /\ UNCHANGED <<receiving, bodyParts, responseComplete, sent>>

\* An empty body is not kept, nor any in answer to HEAD.
SendBody(empty, moreBody) ==
    /\ Runs
    /\ ~responseComplete
    /\ empty \/ sent < Parts
    /\ sent' = IF empty THEN sent ELSE sent + 1
    /\ bodyParts' = IF empty \/ head THEN bodyParts ELSE Append(bodyParts, sent')
    /\ responseComplete' = ~moreBody
    /\ UNCHANGED <<receiving, statusCode>>

\* A second start, or a body after the last.
SendFails ==
    /\ app = "running"
    /\ statusCode # "none" \/ responseComplete
    /\ AppRaises
    /\ UNCHANGED <<receiving, sending>>

-----------------------------------------------------------------------------
(* The application and the call                                             *)

\* It returns when its tasks are done, or leaves some behind.
AppReturns ==
    /\ app = "running"
    /\ app' = "returned"
    /\ UNCHANGED <<head, raiseExceptions, call, receiving, sending>>

AppFails ==
    /\ app = "running"
    /\ AppRaises
    /\ UNCHANGED <<receiving, sending>>

\* Mutant: a failure looks like the end of the response.
ReturnedRegardless ==
    /\ app \in {"returned", "raised"} /\ call = "running"
    /\ call' = "returned"
    /\ UNCHANGED <<head, raiseExceptions, receiving, sending, app>>

\* The assertions on a response that is complete and was started.
Returned ==
    /\ app = "returned" /\ call = "running"
    /\ call' = IF responseComplete /\ statusCode # "none" THEN "returned" ELSE "raised"
    /\ UNCHANGED <<head, raiseExceptions, receiving, sending, app>>

Raised ==
    /\ app = "raised" /\ call = "running"
    /\ \/ raiseExceptions /\ call' = "raised" /\ UNCHANGED sending
       \/ /\ ~raiseExceptions /\ call' = "returned"
          /\ responseComplete' = TRUE
          /\ statusCode' = IF statusCode = "none" THEN "500" ELSE statusCode
          /\ UNCHANGED <<bodyParts, sent>>
    /\ UNCHANGED <<head, raiseExceptions, receiving, app>>

\* The caller is cancelled, and with it the application.
Cancelled ==
    /\ app = "running" /\ call = "running"
    /\ app' = "raised" /\ call' = "raised"
    /\ UNCHANGED <<head, raiseExceptions, receiving, sending>>

Next ==
    \/ \E t \in AppTasks :
          Receive(t) \/ ReceiveFails(t) \/ PartPulled(t) \/ PartsEnd(t) \/ Disconnected(t)
    \/ \E empty, moreBody \in BOOLEAN : SendBody(empty, moreBody)
    \/ SendStart \/ SendFails \/ AppReturns \/ AppFails
    \/ Returned \/ Raised \/ Cancelled

Spec == Init /\ [][Next]_asgi

-----------------------------------------------------------------------------
\* Whatever tasks share receive(), the application is given each part of the
\* body once and in order, then its end once, and only then disconnections,
\* none of them before the response is complete.
RequestInOrder ==
    LET ended == {i \in DOMAIN received : received[i] = End} IN
    /\ \A i \in DOMAIN received :
          \/ received[i] = i
          \/ received[i] = End /\ i = pulled + 1
          \/ received[i] = Disconnect /\ responseComplete /\ \E j \in ended : j < i
    /\ \A i, j \in ended : i = j

\* A response that is returned is the application's: all of what it sent until
\* it said there was no more, with its status; or, if exceptions are not to be
\* raised, what it sent until it failed, and 500 only if it had not started.
ResponseIsTheApps ==
    call = "returned" =>
        /\ responseComplete /\ statusCode # "none"
        /\ bodyParts = IF head THEN <<>> ELSE [i \in 1 .. sent |-> i]
        /\ app = "raised" => ~raiseExceptions
        /\ statusCode = "500" => app = "raised"

-----------------------------------------------------------------------------
\* One task is inside the iterator, and none once it has ended.
OnePulls ==
    /\ \A t, u \in AppTasks : receiver[t] = "pulling" /\ receiver[u] = "pulling" => t = u
    /\ \A t \in AppTasks :
          /\ receiver[t] = "pulling" => ~requestComplete
          /\ receiver[t] = "waiting" => requestComplete

\* The parts, the end, and then disconnections.
Messages ==
    /\ Len(received) >= pulled
    /\ \A i \in 1 .. pulled : received[i] = i
    /\ ~requestComplete => Len(received) = pulled
    /\ requestComplete =>
          /\ Len(received) > pulled /\ received[pulled + 1] = End
          /\ \A i \in pulled + 2 .. Len(received) : received[i] = Disconnect /\ responseComplete

\* What has been kept of the response is what was sent.
Collected ==
    /\ Len(bodyParts) = IF head THEN 0 ELSE sent
    /\ \A i \in 1 .. Len(bodyParts) : bodyParts[i] = i
    /\ statusCode = "500" => app = "raised"
    /\ call = "returned" =>
          /\ app # "running" /\ responseComplete /\ statusCode # "none"
          /\ app = "raised" => ~raiseExceptions

IInv == TypeOK /\ OnePulls /\ Messages /\ Collected
===============================================================================
