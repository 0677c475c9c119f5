------------------------------ MODULE NativePool ------------------------------
(***************************************************************************)
(* NativeClient (src/src/lib.rs): the connection semaphore, the calls of   *)
(* send() that wait for it, and the NativeResponse objects that keep their *)
(* permit until the body stream is gone.  Every call runs on a thread of   *)
(* its own; cancel(), close() and the client's close() come from others.   *)
(***************************************************************************)
EXTENDS Naturals, Sequences, FiniteSets

CONSTANTS Calls,           \* calls of NativeClient.send, one thread each
          MaxConnections   \* Limits.max_connections, the semaphore's size

ASSUME CallsAssumption == IsFiniteSet(Calls)
ASSUME MaxConnectionsAssumption == MaxConnections \in Nat

VARIABLES
    clientOpen,   \* NativeClient.client is Some
    semClosed,    \* Semaphore::close has run
    permits,      \* permits nobody owns
    queue,        \* calls parked in acquire_owned, oldest first
    call,         \* where each call, or the response it made, is
    live,         \* the exchange or body stream of the call exists
    cancelled,    \* the call's NativeCancellation is set
    reader,       \* the thread inside read_chunk
    closer        \* the thread inside NativeResponse.close

vars == <<clientOpen, semClosed, permits, queue, call, live, cancelled,
          reader, closer>>

-----------------------------------------------------------------------------
(* "assigned": parked, but tokio has already put a permit into the waiter.  *)
(* "unwinding": exchange dropped, the permit is the next local to drop.     *)
(* "open" / "released": a NativeResponse with / without its permit.         *)
Phases == {"idle", "cloned", "waiting", "assigned", "granted", "sending",
           "unwinding", "ended", "open", "released"}

Owning == {"assigned", "granted", "sending", "unwinding", "open"}

Acquiring == {"cloned", "waiting", "assigned"}

Holders == {c \in Calls : call[c] \in Owning}

LockFree(c) == reader[c] = "off" /\ closer[c] # "ending"

TypeOK ==
    /\ clientOpen \in BOOLEAN
    /\ semClosed \in BOOLEAN
    /\ permits \in Nat
    /\ queue \in Seq(Calls)
    /\ call \in [Calls -> Phases]
    /\ live \in [Calls -> BOOLEAN]
    /\ cancelled \in [Calls -> BOOLEAN]
    /\ reader \in [Calls -> {"off", "reading", "ending"}]
    /\ closer \in [Calls -> {"off", "signalled", "ending"}]

Init ==
    /\ clientOpen = TRUE
    /\ semClosed = FALSE
    /\ permits = MaxConnections
    /\ queue = <<>>
    /\ call = [c \in Calls |-> "idle"]
    /\ live = [c \in Calls |-> FALSE]
    /\ cancelled = [c \in Calls |-> FALSE]
    /\ reader = [c \in Calls |-> "off"]
    /\ closer = [c \in Calls |-> "off"]

-----------------------------------------------------------------------------
(* The tokio semaphore, as send() uses it.                                  *)

\* Mutant: the permit comes back, but the oldest waiter is not told.
GiveBackUnseen(c, phase) ==
    /\ permits' = permits + 1
    /\ call' = [call EXCEPT ![c] = phase]
    /\ UNCHANGED queue

\* Call c, which owns a permit, lets it go and moves to phase.
GiveBack(c, phase) ==
    \/ /\ queue = <<>>
       /\ permits' = permits + 1
       /\ call' = [call EXCEPT ![c] = phase]
       /\ UNCHANGED queue
    \/ /\ queue # <<>>
       /\ call' = [call EXCEPT ![c] = phase, ![Head(queue)] = "assigned"]
       /\ queue' = Tail(queue)
       /\ UNCHANGED permits

\* queue without its i-th element.
DropAt(i) == [j \in 1 .. Len(queue) - 1 |-> IF j < i THEN queue[j] ELSE queue[j + 1]]

\* Dropping the acquire future: a parked waiter leaves the queue (close() has
\* emptied it already if it ran), an assigned one hands its permit on.
Abandon(c) ==
    \/ /\ call[c] = "waiting"
       /\ \/ \E i \in DOMAIN queue : queue[i] = c /\ queue' = DropAt(i)
          \/ (\A i \in DOMAIN queue : queue[i] # c) /\ UNCHANGED queue
       /\ call' = [call EXCEPT ![c] = "ended"]
       /\ UNCHANGED permits
    \/ /\ call[c] = "assigned"
       /\ GiveBack(c, "ended")

-----------------------------------------------------------------------------
(* NativeClient.send                                                        *)

\* Clone the client, or raise "transport is closed".
Begin(c) ==
    /\ call[c] = "idle"
    /\ call' = [call EXCEPT ![c] = IF clientOpen THEN "cloned" ELSE "ended"]
    /\ UNCHANGED <<clientOpen, semClosed, permits, queue, live, cancelled, reader, closer>>

\* Mutant: the fast path does not ask whether the semaphore is closed.
AcquireUnchecked(c) ==
    /\ call[c] = "cloned"
    /\ \/ /\ cancelled[c]
          /\ call' = [call EXCEPT ![c] = "ended"]
          /\ UNCHANGED <<permits, queue>>
       \/ /\ ~cancelled[c] /\ permits > 0
          /\ call' = [call EXCEPT ![c] = "granted"]
          /\ permits' = permits - 1
          /\ UNCHANGED queue
       \/ /\ ~cancelled[c] /\ permits = 0
          /\ call' = [call EXCEPT ![c] = "waiting"]
          /\ queue' = Append(queue, c)
          /\ UNCHANGED permits
    /\ UNCHANGED <<clientOpen, semClosed, live, cancelled, reader, closer>>

\* First poll of the biased select: cancelled, closed, a permit, or park.
Acquire(c) ==
    /\ call[c] = "cloned"
    /\ \/ /\ cancelled[c] \/ semClosed
          /\ call' = [call EXCEPT ![c] = "ended"]
          /\ UNCHANGED <<permits, queue>>
       \/ /\ ~cancelled[c] /\ ~semClosed /\ permits > 0
          /\ call' = [call EXCEPT ![c] = "granted"]
          /\ permits' = permits - 1
          /\ UNCHANGED queue
       \/ /\ ~cancelled[c] /\ ~semClosed /\ permits = 0
          /\ call' = [call EXCEPT ![c] = "waiting"]
          /\ queue' = Append(queue, c)
          /\ UNCHANGED permits
    /\ UNCHANGED <<clientOpen, semClosed, live, cancelled, reader, closer>>

\* The woken waiter is polled and takes the permit it was assigned.
Granted(c) ==
    /\ call[c] = "assigned"
    /\ ~cancelled[c] /\ ~semClosed
    /\ call' = [call EXCEPT ![c] = "granted"]
    /\ UNCHANGED <<clientOpen, semClosed, permits, queue, live, cancelled, reader, closer>>

\* Mutant: the select does not watch the cancellation.
RefusedOnClose(c) ==
    /\ semClosed
    /\ Abandon(c)
    /\ UNCHANGED <<clientOpen, semClosed, live, cancelled, reader, closer>>

\* The wait ends with "request cancelled" or "transport is closed".
Refused(c) ==
    /\ cancelled[c] \/ semClosed
    /\ Abandon(c)
    /\ UNCHANGED <<clientOpen, semClosed, live, cancelled, reader, closer>>

\* PoolTimeout.  The timer may have fired just before a permit was assigned:
\* the future is dropped afterwards, so an assigned waiter can time out too.
PoolTimeout(c) ==
    /\ Abandon(c)
    /\ UNCHANGED <<clientOpen, semClosed, live, cancelled, reader, closer>>

\* Bad options, method or headers raise while the permit is already owned.
BuildFails(c) ==
    /\ call[c] = "granted"
    /\ call' = [call EXCEPT ![c] = "unwinding"]
    /\ UNCHANGED <<clientOpen, semClosed, permits, queue, live, cancelled, reader, closer>>

\* The exchange future is polled for the first time.
StartExchange(c) ==
    /\ call[c] = "granted"
    /\ call' = [call EXCEPT ![c] = "sending"]
    /\ live' = [live EXCEPT ![c] = TRUE]
    /\ UNCHANGED <<clientOpen, semClosed, permits, queue, cancelled, reader, closer>>

\* Response headers arrived: stream and permit move into a NativeResponse.
Respond(c) ==
    /\ call[c] = "sending"
    /\ ~cancelled[c]
    /\ call' = [call EXCEPT ![c] = "open"]
    /\ UNCHANGED <<clientOpen, semClosed, permits, queue, live, cancelled, reader, closer>>

\* Cancellation, a transport error, the write watchdog or an upload error:
\* the exchange (or the response just received) is dropped before the permit.
ExchangeFails(c) ==
    /\ call[c] = "sending"
    /\ call' = [call EXCEPT ![c] = "unwinding"]
    /\ live' = [live EXCEPT ![c] = FALSE]
    /\ UNCHANGED <<clientOpen, semClosed, permits, queue, cancelled, reader, closer>>

\* send() returns its error, or a NativeResponse is freed: the permit drops.
Unwind(c) ==
    /\ call[c] = "unwinding"
    /\ GiveBack(c, "ended")
    /\ UNCHANGED <<clientOpen, semClosed, live, cancelled, reader, closer>>

-----------------------------------------------------------------------------
(* NativeResponse.  read_chunk and close share the stream mutex; the reader *)
(* keeps it while it waits for the network, so cancel() must not need it.   *)

\* release_permit, which both paths may reach: idempotent.
ReleasePermit(c) ==
    \/ call[c] = "open" /\ GiveBack(c, "released")
    \/ call[c] # "open" /\ UNCHANGED <<permits, queue, call>>

\* read_chunk takes the mutex and waits for the stream.
ReadBegin(c) ==
    /\ call[c] \in {"open", "released"}
    /\ LockFree(c)
    /\ live[c]
    /\ reader' = [reader EXCEPT ![c] = "reading"]
    /\ UNCHANGED <<clientOpen, semClosed, permits, queue, call, live, cancelled, closer>>

\* A chunk arrived and no cancellation was seen first.
ReadChunk(c) ==
    /\ reader[c] = "reading"
    /\ ~cancelled[c]
    /\ reader' = [reader EXCEPT ![c] = "off"]
    /\ UNCHANGED <<clientOpen, semClosed, permits, queue, call, live, cancelled, closer>>

\* Cancelled, end of stream or a read error: the stream is dropped.
ReadStops(c) ==
    /\ reader[c] = "reading"
    /\ live' = [live EXCEPT ![c] = FALSE]
    /\ reader' = [reader EXCEPT ![c] = "ending"]
    /\ UNCHANGED <<clientOpen, semClosed, permits, queue, call, cancelled, closer>>

\* read_chunk releases the permit and returns.
ReadEnds(c) ==
    /\ reader[c] = "ending"
    /\ ReleasePermit(c)
    /\ reader' = [reader EXCEPT ![c] = "off"]
    /\ UNCHANGED <<clientOpen, semClosed, live, cancelled, closer>>

\* NativeCancellation.cancel, from any thread at any time.
Cancel(c) ==
    /\ call[c] \notin {"idle", "ended"}
    /\ cancelled' = [cancelled EXCEPT ![c] = TRUE]
    /\ UNCHANGED <<clientOpen, semClosed, permits, queue, call, live, reader, closer>>

\* Mutant: close() waits for the mutex before it signals the reader.
CloseSilently(c) ==
    /\ call[c] \in {"open", "released"}
    /\ closer[c] = "off"
    /\ closer' = [closer EXCEPT ![c] = "signalled"]
    /\ UNCHANGED <<clientOpen, semClosed, permits, queue, call, live, cancelled, reader>>

\* close() first cancels, and only then asks for the mutex.
CloseSignal(c) ==
    /\ call[c] \in {"open", "released"}
    /\ closer[c] = "off"
    /\ closer' = [closer EXCEPT ![c] = "signalled"]
    /\ cancelled' = [cancelled EXCEPT ![c] = TRUE]
    /\ UNCHANGED <<clientOpen, semClosed, permits, queue, call, live, reader>>

\* Mutant: the permit is released before the stream is dropped.
CloseReleasesFirst(c) ==
    /\ closer[c] = "signalled"
    /\ LockFree(c)
    /\ ReleasePermit(c)
    /\ closer' = [closer EXCEPT ![c] = "ending"]
    /\ UNCHANGED <<clientOpen, semClosed, live, cancelled, reader>>

\* close() holds the mutex and drops the stream.
CloseDrops(c) ==
    /\ closer[c] = "signalled"
    /\ LockFree(c)
    /\ live' = [live EXCEPT ![c] = FALSE]
    /\ closer' = [closer EXCEPT ![c] = "ending"]
    /\ UNCHANGED <<clientOpen, semClosed, permits, queue, call, cancelled, reader>>

\* close() releases the permit and the mutex.
CloseEnds(c) ==
    /\ closer[c] = "ending"
    /\ ReleasePermit(c)
    /\ closer' = [closer EXCEPT ![c] = "off"]
    /\ UNCHANGED <<clientOpen, semClosed, live, cancelled, reader>>

\* Python frees the last reference to an open NativeResponse: its fields are
\* dropped in order, the stream before the permit.
Freed(c) ==
    /\ call[c] = "open"
    /\ reader[c] = "off" /\ closer[c] = "off"
    /\ live' = [live EXCEPT ![c] = FALSE]
    /\ call' = [call EXCEPT ![c] = "unwinding"]
    /\ UNCHANGED <<clientOpen, semClosed, permits, queue, cancelled, reader, closer>>

\* A finished call's thread goes on to another send() with a new cancellation.
Again(c) ==
    /\ call[c] \in {"ended", "released"}
    /\ reader[c] = "off" /\ closer[c] = "off"
    /\ call' = [call EXCEPT ![c] = "idle"]
    /\ cancelled' = [cancelled EXCEPT ![c] = FALSE]
    /\ UNCHANGED <<clientOpen, semClosed, permits, queue, live, reader, closer>>

-----------------------------------------------------------------------------
(* NativeClient.close: the semaphore is closed, then the client is taken.   *)

\* Semaphore::close wakes every parked waiter and empties its queue.
CloseSemaphore ==
    /\ ~semClosed
    /\ semClosed' = TRUE
    /\ queue' = <<>>
    /\ UNCHANGED <<clientOpen, permits, call, live, cancelled, reader, closer>>

ClearClient ==
    /\ semClosed /\ clientOpen
    /\ clientOpen' = FALSE
    /\ UNCHANGED <<semClosed, permits, queue, call, live, cancelled, reader, closer>>

Send(c) ==
    \/ Begin(c) \/ Acquire(c) \/ Granted(c) \/ Refused(c) \/ PoolTimeout(c)
    \/ BuildFails(c) \/ StartExchange(c) \/ Respond(c) \/ ExchangeFails(c) \/ Unwind(c)

Response(c) ==
    \/ ReadBegin(c) \/ ReadChunk(c) \/ ReadStops(c) \/ ReadEnds(c) \/ Cancel(c)
    \/ CloseSignal(c) \/ CloseDrops(c) \/ CloseEnds(c) \/ Freed(c) \/ Again(c)

Next ==
    \/ \E c \in Calls : Send(c) \/ Response(c)
    \/ CloseSemaphore \/ ClearClient

Spec == Init /\ [][Next]_vars

-----------------------------------------------------------------------------
(* Fairness.  A thread that can run runs, and a select polls a branch that  *)
(* is ready; nothing is assumed of the peer or of the pool timer.           *)

Progress(c) ==
    /\ WF_vars(Acquire(c)) /\ WF_vars(Granted(c)) /\ WF_vars(Refused(c))
    /\ WF_vars(BuildFails(c) \/ StartExchange(c))
    /\ WF_vars(cancelled[c] /\ ExchangeFails(c)) /\ WF_vars(Unwind(c))
    /\ WF_vars(cancelled[c] /\ ReadStops(c)) /\ WF_vars(ReadEnds(c))
    /\ WF_vars(CloseDrops(c)) /\ WF_vars(CloseEnds(c))

FairSpec == Spec /\ \A c \in Calls : Progress(c)

(* What a well behaved program adds: peers answer or fail, and every        *)
(* response is closed (the client closes it after reading the body).        *)
Cooperation(c) ==
    /\ WF_vars(Respond(c) \/ ExchangeFails(c))
    /\ WF_vars(call[c] = "open" /\ CloseSignal(c))

-----------------------------------------------------------------------------
(* Safety                                                                   *)

\* Permits are neither lost nor made: those nobody owns and those owned by a
\* call, a response or a woken waiter add up to the semaphore's size.
PermitsConserved == permits + Cardinality(Holders) = MaxConnections

\* The promise of max_connections: at no moment do more exchanges and
\* unfinished body streams exist than the limit, because every path drops the
\* stream before the permit.
LiveWithinLimit == Cardinality({c \in Calls : live[c]}) <= MaxConnections

\* No lost wake-up: nobody is parked while a permit lies idle.
NoIdlePermit == queue # <<>> => permits = 0

\* The queue holds each waiting call once, and no call that has gone on.
QueueIsWaiting ==
    /\ \A i \in DOMAIN queue : call[queue[i]] = "waiting"
    /\ \A i, j \in DOMAIN queue : i # j => queue[i] # queue[j]
    /\ queue # <<>> => ~semClosed

\* A response that let its permit go can never yield another byte.
ReleasedIsDry ==
    \A c \in Calls : call[c] = "released" => ~live[c] /\ reader[c] # "reading"

\* Where exchanges, readers and closers can be: the strengthening that makes
\* the invariants above inductive.
WhoTouchesWhat ==
    \A c \in Calls :
        /\ live[c] => call[c] \in {"sending", "open"}
        /\ reader[c] = "reading" => live[c]
        /\ "ending" \in {reader[c], closer[c]} => ~live[c]
        /\ {reader[c], closer[c]} # {"off"} => call[c] \in {"open", "released"}

IInv ==
    /\ TypeOK
    /\ PermitsConserved
    /\ NoIdlePermit
    /\ QueueIsWaiting
    /\ WhoTouchesWhat

\* Once close() has closed the semaphore no call is admitted, neither by the
\* fast path nor as a waiter that had already been assigned a permit.
ClosedAdmitsNobody ==
    [][semClosed => \A c \in Calls : call'[c] = "granted" => call[c] = "granted"]_vars

Gate == INSTANCE ConnectionGate WITH inside <- Holders, shut <- semClosed

\* The pool implements the gate that max_connections promises.
ImplementsGate == Gate!GateSpec

-----------------------------------------------------------------------------
(* Liveness                                                                 *)

\* close() on a response frees the permit although a read is stalled on the
\* network, for the peer is not assumed to send another byte.
CloseFreesPermit ==
    \A c \in Calls : closer[c] = "signalled" ~> call[c] # "open"

\* A cancelled send() comes back in every phase, with its permit returned.
CancelledSendReturns ==
    \A c \in Calls : (cancelled[c] /\ call[c] \in Acquiring \union {"granted", "sending"})
                        ~> call[c] = "ended"

\* If peers answer and callers close, a parked call gets on even without a
\* pool timeout and however often the other threads come back.
NoStarvation ==
    (\A c \in Calls : Cooperation(c))
        => \A c \in Calls : call[c] = "waiting" ~> call[c] # "waiting"
===============================================================================
