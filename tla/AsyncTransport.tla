----------------------------- MODULE AsyncTransport -----------------------------
(***************************************************************************)
(* One AsyncHTTPTransport.handle_async_request                             *)
(* (httpxp/_transports/default.py): the task on the event loop, the worker *)
(* thread inside NativeClient.send, the blocking thread that pulls the     *)
(* request body through a BlockingPortal, and the portal's task that runs  *)
(* the user's asynchronous iterator.  The task may be cancelled wherever   *)
(* it awaits; the peer may stay silent for ever.                           *)
(***************************************************************************)
EXTENDS Naturals

CONSTANT Retries           \* HTTPTransport._retries

ASSUME RetriesAssumption == Retries \in Nat

VARIABLES
    task,      \* where handle_async_request is
    attempt,   \* the loop's counter
    worker,    \* the thread of the current attempt, or the result it has posted
    puller,    \* the blocking thread inside chunks()
    chunk,     \* the portal's task that runs next_chunk()
    stream,    \* the body's asynchronous iterator
    portal,    \* the BlockingPortal
    signal,    \* the NativeCancellation of all attempts and of the response
    stop,      \* upload_stop of the native call: set with a response
    broken,    \* the body failed before it was stopped
    failure,   \* an exception is on its way out
    native     \* the NativeResponse: a "local" of the task or "owned" by its caller

vars == <<task, attempt, worker, puller, chunk, stream, portal, signal, stop,
          broken, failure, native>>

Results == {"response", "connect", "error"}

TypeOK ==
    /\ task \in {"sleeping", "calling", "leaving", "closing", "returned", "raised"}
    /\ attempt \in 0 .. Retries
    /\ worker \in {"off", "waiting", "sending"} \union Results
    /\ puller \in {"off", "asking", "waiting"}
    /\ chunk \in {"none", "running"}
    /\ stream \in {"fresh", "running", "suspended", "ended", "closed"}
    /\ portal \in {"open", "stopped", "exited"}
    /\ signal \in BOOLEAN /\ stop \in BOOLEAN /\ broken \in BOOLEAN /\ failure \in BOOLEAN
    /\ native \in {"none", "local", "owned"}

Init ==
    /\ task = "sleeping" /\ attempt = 0 /\ worker = "off"
    /\ puller = "off" /\ chunk = "none" /\ stream = "fresh" /\ portal = "open"
    /\ signal = FALSE /\ stop = FALSE /\ broken = FALSE /\ failure = FALSE
    /\ native = "none"

upload == <<puller, chunk, stream, broken>>

-----------------------------------------------------------------------------
(* The worker thread: NativeClient.send, abstracted                         *)

\* The back-off, if any, is over: the native call starts on a thread.
Start ==
    /\ task = "sleeping" /\ worker = "off"
    /\ task' = "calling" /\ worker' = "waiting"
    /\ UNCHANGED <<attempt, upload, portal, signal, stop, failure, native>>

GetPermit ==
    /\ worker = "waiting"
    /\ worker' = "sending"
    /\ UNCHANGED <<task, attempt, upload, portal, signal, stop, failure, native>>

\* No connection was made, so the body was never asked for.
ConnectFails ==
    /\ worker = "sending" /\ stream = "fresh" /\ puller = "off" /\ ~broken
    /\ worker' = "connect"
    /\ UNCHANGED <<task, attempt, upload, portal, signal, stop, failure, native>>

\* Mutant: a response does not stop the upload.
RespondsUnstopped ==
    /\ worker = "sending" /\ ~signal /\ ~broken
    /\ worker' = "response"
    /\ UNCHANGED <<task, attempt, upload, portal, signal, stop, failure, native>>

\* A response, perhaps before the body was sent: the upload is stopped.
Responds ==
    /\ worker = "sending" /\ ~signal /\ ~broken
    /\ worker' = "response" /\ stop' = TRUE
    /\ UNCHANGED <<task, attempt, upload, portal, signal, failure, native>>

\* A timeout, a transport error, an error of the body, or the cancellation.
SendFails ==
    /\ worker \in {"waiting", "sending"}
    /\ worker' = "error"
    /\ UNCHANGED <<task, attempt, upload, portal, signal, stop, failure, native>>

\* Nobody awaits the thread any more: what it returns is dropped, and with a
\* response its permit.
Discard ==
    /\ worker \in Results /\ task # "calling"
    /\ worker' = "off"
    /\ UNCHANGED <<task, attempt, upload, portal, signal, stop, failure, native>>

-----------------------------------------------------------------------------
(* The body: chunks(), portal.call and next_chunk()                         *)

\* The transport wants a chunk.  A portal that was stopped refuses.
Pull ==
    /\ worker = "sending" /\ puller = "off" /\ ~broken
    /\ stream \in {"fresh", "suspended"} \/ (stream = "closed" /\ portal # "open")
    /\ IF portal = "open"
         THEN puller' = "asking" /\ UNCHANGED broken
         ELSE broken' = TRUE /\ UNCHANGED puller
    /\ UNCHANGED <<task, attempt, worker, chunk, stream, portal, signal, stop, failure, native>>

\* The loop gets to the portal's request.  The task group takes it until it
\* has been left, even if it has been cancelled meanwhile.
ScheduleChunk ==
    /\ puller = "asking"
    /\ IF portal = "exited"
         THEN puller' = "off" /\ broken' = (broken \/ ~stop) /\ UNCHANGED <<chunk, stream>>
         ELSE puller' = "waiting" /\ chunk' = "running" /\ stream' = "running" /\ UNCHANGED broken
    /\ UNCHANGED <<task, attempt, worker, portal, signal, stop, failure, native>>

\* The iterator yields, ends or raises.
ChunkReturns ==
    /\ chunk = "running"
    /\ chunk' = "none" /\ puller' = "off"
    /\ \/ stream' \in {"suspended", "ended"} /\ UNCHANGED broken
       \/ stream' = "ended" /\ broken' = (broken \/ ~stop)
    /\ UNCHANGED <<task, attempt, worker, portal, signal, stop, failure, native>>

\* Its task was cancelled with the portal: the iterator is unwound.
ChunkCancelled ==
    /\ chunk = "running" /\ portal = "stopped"
    /\ chunk' = "none" /\ puller' = "off"
    /\ stream' = "ended" /\ broken' = (broken \/ ~stop)
    /\ UNCHANGED <<task, attempt, worker, portal, signal, stop, failure, native>>

-----------------------------------------------------------------------------
(* The task                                                                 *)

\* The response arrives; portal.stop() does not wait.
Delivered ==
    /\ task = "calling" /\ worker = "response"
    /\ task' = "leaving" /\ worker' = "off"
    /\ native' = "local" /\ portal' = "stopped"
    /\ UNCHANGED <<attempt, upload, signal, stop, failure>>

Retry ==
    /\ task = "calling" /\ worker = "connect" /\ attempt < Retries
    /\ task' = "sleeping" /\ worker' = "off"
    /\ attempt' = attempt + 1
    /\ UNCHANGED <<upload, portal, signal, stop, failure, native>>

\* Mutant: the portal is left without being stopped.
FailUnstopped ==
    /\ signal' = TRUE /\ failure' = TRUE
    /\ task' = "leaving"
    /\ UNCHANGED <<attempt, upload, portal, stop, native>>

\* except BaseException: cancel the native call, then stop the portal.
Fail ==
    /\ signal' = TRUE /\ failure' = TRUE
    /\ portal' = "stopped" /\ task' = "leaving"
    /\ UNCHANGED <<attempt, upload, stop, native>>

Fails ==
    /\ task = "calling"
    /\ worker = "error" \/ (worker = "connect" /\ attempt = Retries)
    /\ worker' = "off"
    /\ Fail

\* Mutant: the native call is left to itself.
InterruptSilently ==
    /\ task \in {"sleeping", "calling"}
    /\ failure' = TRUE /\ portal' = "stopped" /\ task' = "leaving"
    /\ UNCHANGED <<attempt, worker, upload, signal, stop, native>>

\* The task is cancelled; a thread that still runs is abandoned.
Interrupt ==
    /\ task \in {"sleeping", "calling"}
    /\ Fail
    /\ UNCHANGED worker

\* The task is cancelled while it leaves the portal: no handler is in the way.
InterruptLeaving ==
    /\ task = "leaving"
    /\ failure' = TRUE
    /\ UNCHANGED <<task, attempt, worker, upload, portal, signal, stop, native>>

\* Mutant: the portal is left while its task still runs.
LeavePortalEarly ==
    /\ task = "leaving"
    /\ portal' = "exited" /\ task' = "closing"
    /\ UNCHANGED <<attempt, worker, upload, signal, stop, failure, native>>

\* The portal is left when its last task has ended, cancelled or not.
LeavePortal ==
    /\ task = "leaving" /\ chunk = "none"
    /\ portal' = "exited" /\ task' = "closing"
    /\ UNCHANGED <<attempt, worker, upload, signal, stop, failure, native>>

\* finally: stream.aclose(), shielded, which may raise itself.
StreamClosed ==
    /\ task = "closing"
    /\ stream' = "closed"
    /\ \/ ~failure /\ task' = "returned" /\ native' = "owned"
       \/ task' = "raised" /\ UNCHANGED native
    /\ UNCHANGED <<attempt, worker, puller, chunk, portal, signal, stop, broken, failure>>

\* The frame of a raising call goes, and with it a response nobody will see.
Freed ==
    /\ task = "raised" /\ native = "local"
    /\ native' = "none"
    /\ UNCHANGED <<task, attempt, worker, upload, portal, signal, stop, failure>>

Next ==
    \/ Start \/ GetPermit \/ ConnectFails \/ Responds \/ SendFails \/ Discard
    \/ Pull \/ ScheduleChunk \/ ChunkReturns \/ ChunkCancelled
    \/ Delivered \/ Retry \/ Fails \/ Interrupt \/ InterruptLeaving
    \/ LeavePortal \/ StreamClosed \/ Freed

Spec == Init /\ [][Next]_vars

\* The loop runs, a cancelled native call or iterator comes back.  Neither
\* the peer nor the iterator is assumed to go on by itself.
FairSpec ==
    /\ Spec
    /\ WF_vars(Start) /\ WF_vars(Discard) /\ WF_vars(ScheduleChunk) /\ WF_vars(ChunkCancelled)
    /\ WF_vars(signal /\ SendFails)
    /\ WF_vars(Delivered) /\ WF_vars(Retry) /\ WF_vars(Fails)
    /\ WF_vars(LeavePortal) /\ WF_vars(StreamClosed) /\ WF_vars(Freed)

-----------------------------------------------------------------------------
\* aclose() of the body never meets a running __anext__, which would raise
\* "asynchronous generator is already running"; nor does one start later.
StreamAtRest == task \in {"closing", "returned", "raised"} => chunk = "none"

\* A response that is returned can be read: the cancellation it shares with
\* the attempts before it is not set, and the portal's own end, which
\* interrupts an unfinished upload, did not reach the wire as an error.
CleanResponse == task = "returned" => native = "owned" /\ ~signal /\ ~broken

\* A cancelled or failed call comes back although the peer is silent and the
\* body's iterator waits for something that never happens.
FailureEnds == failure ~> task = "raised"

\* Whatever the native call was doing when the task left it, the permit is
\* given back: "cancellation wakes Rust and releases the held permit"
\* (WREQ_MIGRATION.md:36).
PermitReturns == task = "raised" ~> worker = "off" /\ native = "none"

-----------------------------------------------------------------------------
\* The portal is open as long as the task may send, and left before the body
\* is closed.
PortalFollowsTask ==
    portal = CASE task \in {"sleeping", "calling"} -> "open"
               [] task = "leaving" -> "stopped"
               [] OTHER -> "exited"

\* Nothing breaks the body behind a response.
Answered ==
    /\ signal => failure
    /\ failure => task \in {"leaving", "closing", "raised"}
    /\ worker = "response" => stop /\ ~broken
    /\ task \in {"leaving", "closing", "returned"} /\ ~failure =>
          /\ stop /\ ~broken /\ worker = "off"
          /\ native = IF task = "returned" THEN "owned" ELSE "local"

Ordered == PortalFollowsTask /\ StreamAtRest /\ Answered

IInv == TypeOK /\ Ordered
===============================================================================
