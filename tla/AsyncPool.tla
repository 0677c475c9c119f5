------------------------------- MODULE AsyncPool -------------------------------
(***************************************************************************)
(* The tasks of one AsyncClient (httpxp/_transports/default.py).  Every    *)
(* native call runs on an anyio worker thread: sending, which waits for a  *)
(* connection permit *on the thread*, reading a chunk, closing a response  *)
(* and closing the client.  Threads and permits are two pools that the     *)
(* same tasks hold and wait for in different orders.  The permits are the  *)
(* gate of NativePool; here only who holds and who waits is kept.          *)
(***************************************************************************)
EXTENDS Naturals, Sequences, FiniteSets, SequencesExt

CONSTANTS Tasks,           \* tasks that use the client, one request at a time
          Setups,          \* sizes of the two pools, and whether there are pool timeouts
          Chunks           \* chunks of a response body

ASSUME AsyncPoolAssumption ==
    /\ IsFiniteSet(Tasks) /\ "client" \notin Tasks /\ Chunks \in Nat
    /\ Setups \subseteq [threads : Nat \ {0}, connections : Nat \ {0}, timeouts : BOOLEAN]

VARIABLES
    setup,     \* the setup of this client, which never changes
    task,      \* where each task is
    left,      \* chunks its response can still yield
    permits,   \* tasks whose native call or response owns a permit
    limiter,   \* who waits for a thread, oldest first; "client" is aclose()
    pool,      \* native calls that wait for a permit, oldest first
    stray,     \* tasks that abandoned a thread which still runs
    client     \* "open", "closing" (queued), "busy" (on a thread) or "closed"

vars == <<setup, task, left, permits, limiter, pool, stray, client>>

Threads == setup.threads            \* tokens of anyio's default thread limiter
MaxConnections == setup.connections \* Limits.max_connections
PoolTimeouts == setup.timeouts      \* Timeout.pool is not None

OnThread == {"pooling", "exchange", "reading", "closing"}
Queued == {"queued", "wantRead", "wantClose"}
Phases == OnThread \union Queued \union {"idle", "open", "done"}

\* anyio returns the token of an abandoned thread at once, so stray threads
\* do not count.
Workers == {t \in Tasks : task[t] \in OnThread}
Busy == Cardinality(Workers) + (IF client = "busy" THEN 1 ELSE 0)

TypeOK ==
    /\ setup \in Setups
    /\ task \in [Tasks -> Phases]
    /\ left \in [Tasks -> 0 .. Chunks]
    /\ permits \subseteq Tasks /\ stray \subseteq Tasks
    /\ pool \in Seq(Tasks)
    /\ limiter \in Seq(Tasks \union {"client"})
    /\ client \in {"open", "closing", "busy", "closed"}
    /\ Busy <= Threads
    /\ Cardinality(permits) <= MaxConnections

Init ==
    /\ setup \in Setups
    /\ task = [t \in Tasks |-> "idle"]
    /\ left = [t \in Tasks |-> Chunks]
    /\ permits = {} /\ stray = {}
    /\ limiter = <<>> /\ pool = <<>>
    /\ client = "open"

\* t, if it waits there, leaves the queue.
Without(queue, t) ==
    IF Contains(queue, t)
      THEN RemoveAt(queue, CHOOSE i \in DOMAIN queue : queue[i] = t)
      ELSE queue

Goto(t, phase) == task' = [task EXCEPT ![t] = phase]

\* t asks for a worker thread.
Ask(t, phase) ==
    /\ Goto(t, phase)
    /\ limiter' = Append(limiter, t)

-----------------------------------------------------------------------------
(* anyio.to_thread.run_sync                                                 *)

\* The oldest waiter gets a free thread and enters its native call.
GetThread(t) ==
    /\ Busy < Threads
    /\ limiter # <<>> /\ Head(limiter) = t
    /\ limiter' = Tail(limiter)
    /\ \/ /\ task[t] = "queued" /\ client # "closed"
          /\ Goto(t, "pooling") /\ pool' = Append(pool, t)
       \/ /\ task[t] = "queued" /\ client = "closed"      \* transport is closed
          /\ Goto(t, "done") /\ UNCHANGED pool
       \/ task[t] = "wantRead" /\ Goto(t, "reading") /\ UNCHANGED pool
       \/ task[t] = "wantClose" /\ Goto(t, "closing") /\ UNCHANGED pool
    /\ UNCHANGED <<setup, left, permits, stray, client>>

\* An abandoned thread notices the cancellation, leaves the pool's queue or
\* drops its exchange or stream, and gives its permit back.
StrayEnds(t) ==
    /\ t \in stray
    /\ stray' = stray \ {t}
    /\ permits' = permits \ {t}
    /\ pool' = Without(pool, t)
    /\ UNCHANGED <<setup, task, left, limiter, client>>

-----------------------------------------------------------------------------
(* handle_async_request: NativeClient.send on a thread                      *)

Send(t) ==
    /\ task[t] = "idle"
    /\ Ask(t, "queued")
    /\ left' = [left EXCEPT ![t] = Chunks]
    /\ UNCHANGED <<setup, permits, pool, stray, client>>

\* The oldest waiter gets a permit, without leaving its thread.
GetPermit(t) ==
    /\ Cardinality(permits) < MaxConnections
    /\ client # "closed"
    /\ pool # <<>> /\ Head(pool) = t
    /\ pool' = Tail(pool)
    /\ permits' = permits \union {t}
    /\ IF task[t] = "pooling" /\ t \notin stray THEN Goto(t, "exchange") ELSE UNCHANGED task
    /\ UNCHANGED <<setup, left, limiter, stray, client>>

\* Mutant: nothing but the closed client ends the wait.
LeavePoolOnClose(t) ==
    /\ task[t] = "pooling" /\ t \notin stray
    /\ client = "closed"
    /\ pool' = Without(pool, t)
    /\ Goto(t, "done")
    /\ UNCHANGED <<setup, left, permits, limiter, stray, client>>

\* PoolTimeout, or the client was closed while the call was waiting.
LeavePool(t) ==
    /\ task[t] = "pooling" /\ t \notin stray
    /\ PoolTimeouts \/ client = "closed"
    /\ pool' = Without(pool, t)
    /\ Goto(t, "done")
    /\ UNCHANGED <<setup, left, permits, limiter, stray, client>>

\* The exchange fails with the permit in hand, which is dropped on the way.
ExchangeFails(t) ==
    /\ task[t] = "exchange"
    /\ permits' = permits \ {t}
    /\ Goto(t, "done")
    /\ UNCHANGED <<setup, left, limiter, pool, stray, client>>

\* The response is handed over: the thread is free, the permit is not.
Respond(t) ==
    /\ task[t] = "exchange"
    /\ Goto(t, "open")
    /\ UNCHANGED <<setup, left, permits, limiter, pool, stray, client>>

-----------------------------------------------------------------------------
(* AsyncResponseStream                                                      *)

\* The body is read: read_chunk wants a thread.
Read(t) ==
    /\ task[t] = "open"
    /\ Ask(t, "wantRead")
    /\ UNCHANGED <<setup, left, permits, pool, stray, client>>

ReadChunk(t) ==
    /\ task[t] = "reading" /\ left[t] > 0
    /\ left' = [left EXCEPT ![t] = left[t] - 1]
    /\ Goto(t, "open")
    /\ UNCHANGED <<setup, permits, limiter, pool, stray, client>>

\* End of the body, or a read error: the permit is released on the thread.
\* Then aclose() asks for a thread of its own.
ReadEnds(t) ==
    /\ task[t] = "reading"
    /\ permits' = permits \ {t}
    /\ Ask(t, "wantClose")
    /\ UNCHANGED <<setup, left, pool, stray, client>>

\* The response is left early: aclose() first cancels, then wants a thread.
Leave(t) ==
    /\ task[t] = "open"
    /\ Ask(t, "wantClose")
    /\ UNCHANGED <<setup, left, permits, pool, stray, client>>

\* Mutant: close() leaves the permit with the response.
CloseEndsKeeping(t) ==
    /\ task[t] = "closing"
    /\ Goto(t, "done")
    /\ UNCHANGED <<setup, left, permits, limiter, pool, stray, client>>

\* NativeResponse.close.
CloseEnds(t) ==
    /\ task[t] = "closing"
    /\ permits' = permits \ {t}
    /\ Goto(t, "done")
    /\ UNCHANGED <<setup, left, limiter, pool, stray, client>>

-----------------------------------------------------------------------------
(* Task cancellation.  aclose() is shielded: Queued for it or in it, a task *)
(* cannot be cancelled.                                                     *)

\* Mutant: the waiting native call is abandoned but not cancelled.
CancelSendSilently(t) ==
    /\ task[t] \in {"queued", "pooling", "exchange"}
    /\ limiter' = Without(limiter, t)
    /\ Goto(t, "done")
    /\ UNCHANGED <<setup, left, permits, pool, stray, client>>

CancelSend(t) ==
    /\ task[t] \in {"queued", "pooling", "exchange"}
    /\ limiter' = Without(limiter, t)
    /\ stray' = IF task[t] \in OnThread THEN stray \union {t} ELSE stray
    /\ Goto(t, "done")
    /\ UNCHANGED <<setup, left, permits, pool, client>>

CancelRead(t) ==
    /\ task[t] \in {"wantRead", "reading"}
    /\ limiter' = Append(Without(limiter, t), t)
    /\ stray' = IF task[t] \in OnThread THEN stray \union {t} ELSE stray
    /\ Goto(t, "wantClose")
    /\ UNCHANGED <<setup, left, permits, pool, client>>

\* The task goes on to its next request.
Again(t) ==
    /\ task[t] = "done" /\ t \notin stray
    /\ Goto(t, "idle")
    /\ UNCHANGED <<setup, left, permits, limiter, pool, stray, client>>

-----------------------------------------------------------------------------
(* AsyncHTTPTransport.aclose                                                *)

CloseClient ==
    /\ client = "open"
    /\ client' = "closing"
    /\ limiter' = Append(limiter, "client")
    /\ UNCHANGED <<setup, task, left, permits, pool, stray>>

ClientGetsThread ==
    /\ Busy < Threads
    /\ limiter # <<>> /\ Head(limiter) = "client"
    /\ limiter' = Tail(limiter)
    /\ client' = "busy"
    /\ UNCHANGED <<setup, task, left, permits, pool, stray>>

ClientClosed ==
    /\ client = "busy"
    /\ client' = "closed"
    /\ UNCHANGED <<setup, task, left, permits, limiter, pool, stray>>

Step(t) ==
    \/ GetThread(t) \/ StrayEnds(t) \/ Send(t) \/ GetPermit(t) \/ LeavePool(t)
    \/ ExchangeFails(t) \/ Respond(t) \/ Read(t) \/ ReadChunk(t) \/ ReadEnds(t)
    \/ Leave(t) \/ CloseEnds(t) \/ CancelSend(t) \/ CancelRead(t) \/ Again(t)

Next ==
    \/ \E t \in Tasks : Step(t)
    \/ CloseClient \/ ClientGetsThread \/ ClientClosed

Spec == Init /\ [][Next]_vars

-----------------------------------------------------------------------------
(* Fairness of the event loop, the threads and the pool timer               *)

Runtime(t) ==
    /\ WF_vars(GetThread(t)) /\ WF_vars(StrayEnds(t)) /\ WF_vars(GetPermit(t))
    /\ WF_vars(LeavePool(t)) /\ WF_vars(CloseEnds(t))

FairSpec ==
    /\ Spec
    /\ \A t \in Tasks : Runtime(t)
    /\ WF_vars(ClientGetsThread) /\ WF_vars(ClientClosed)

(* ... and of peers that answer, and of tasks that go on with a response    *)
Cooperation(t) ==
    /\ WF_vars(ExchangeFails(t) \/ Respond(t))
    /\ WF_vars(ReadChunk(t) \/ ReadEnds(t))
    /\ WF_vars(Read(t) \/ Leave(t))

CooperativeSpec == FairSpec /\ \A t \in Tasks : Cooperation(t)

-----------------------------------------------------------------------------
\* Nobody stands in a queue twice.
OneTicketEach == IsInjective(pool) /\ IsInjective(limiter)

\* Who may own a permit and stand in which queue: what makes the properties
\* below inductive.
Placed ==
    /\ Contains(limiter, "client") => client = "closing"
    /\ \A t \in Tasks :
          /\ t \in stray => task[t] \in {"done", "wantClose", "closing"}
          /\ t \in permits => t \in stray \/ task[t] \notin {"idle", "queued", "pooling", "done"}
          /\ Contains(pool, t) => t \notin permits /\ (t \in stray \/ task[t] = "pooling")
          /\ Contains(limiter, t) => task[t] \in Queued

IInv == TypeOK /\ OneTicketEach /\ Placed

\* A task that is between requests owns nothing, once the thread it may have
\* abandoned has noticed; nor does it still stand in a queue.
NothingHeldBetweenRequests ==
    \A t \in Tasks : task[t] \in {"idle", "done"} /\ t \notin stray =>
        /\ t \notin permits
        /\ ~Contains(pool, t) /\ ~Contains(limiter, t)

\* Every thread waits for a permit, and no permit's owner is on a thread: only
\* a timer can break the circle, for even closing a response needs a thread.
CircularWait ==
    /\ Busy = Threads /\ client \notin {"busy", "closed"} /\ stray = {}
    /\ \A t \in Tasks : task[t] \in OnThread => task[t] = "pooling"
    /\ Cardinality(permits) = MaxConnections

\* How many tasks may share a client without pool timeouts: with fewer than
\* threads and permits together, there is always somebody who can move.
NoCircularWait == Cardinality(Tasks) < Threads + MaxConnections => ~CircularWait

\* Seen from its permits, the client of the tasks is the gate of max_connections:
\* a task and the thread it abandoned are one caller, and so is what they share.
Gate(n) == INSTANCE ConnectionGate
           WITH Calls <- Tasks, MaxConnections <- n, inside <- permits,
                shut <- (client = "closed")

\* The tasks of a client of n connections never get past the gate, whatever is
\* cancelled: nobody enters a closed or a full client, or twice.
ImplementsGate == \A n \in Nat : MaxConnections = n => Gate(n)!GateSpec

\* Every request ends.
EveryCallEnds == \A t \in Tasks : task[t] = "queued" ~> task[t] = "done"

\* aclose() of the client completes: it needs a thread like everybody else.
ClientCloses == client = "closing" ~> client = "closed"

\* "The pool timeout specifies the maximum duration to wait for acquiring a
\* connection from the connection pool." (docs/advanced/timeouts.md:57-58)
\* Does NOT hold: the timeout starts only once the call has a limiter token, so
\* a task in the limiter's queue has no timer at all (see README).
PoolWaitEnds ==
    \A t \in Tasks : task[t] \in {"queued", "pooling"} ~> task[t] \notin {"queued", "pooling"}
===============================================================================
