---------------------------- MODULE ClientLifecycle ----------------------------
(***************************************************************************)
(* The state of a Client (httpxp/_client.py) shared by several threads:    *)
(* send() and websocket() test the state and then set it, close() tests    *)
(* and sets it and then closes the transports one by one, a with-block     *)
(* does both.  A thread may be switched between any two of these steps; in *)
(* an AsyncClient only the closing of a transport is such a point.         *)
(***************************************************************************)
EXTENDS Naturals

CONSTANTS Threads,       \* callers of the client
          Transports     \* how many: the default transport is 1, then mounts

TransportsAssumption == Transports \in Nat \ {0}

VARIABLES
    state,     \* ClientState
    open,      \* transports that have not been closed
    pc,        \* where each thread is
    at,        \* the transport it closes next
    shut,      \* history: some close() or with-block has closed every transport
    late,      \* history: the thread's send() began after that
    closedBy   \* history: close() calls that returned without an exception

vars == <<state, open, pc, at, shut, late, closedBy>>

States == {"UNOPENED", "OPENED", "CLOSED"}

TypeOK ==
    /\ state \in States
    /\ open \subseteq 1 .. Transports
    /\ pc \in [Threads -> {"idle", "checked", "dispatch", "admitted", "closable",
                           "closing", "enterable", "within"}]
    /\ at \in [Threads -> 1 .. Transports + 1]
    /\ shut \in BOOLEAN /\ late \in [Threads -> BOOLEAN]
    /\ closedBy \subseteq Threads

Init ==
    /\ state = "UNOPENED"
    /\ open = 1 .. Transports
    /\ pc = [th \in Threads |-> "idle"]
    /\ at = [th \in Threads |-> 1]
    /\ shut = FALSE /\ late = [th \in Threads |-> FALSE]
    /\ closedBy = {}

Goto(th, place) == pc' = [pc EXCEPT ![th] = place]

-----------------------------------------------------------------------------
(* Client.send, and _prepare of a WebSocket                                 *)

\* "Cannot send a request, as the client has been closed", or go on.
SendCheck(th) ==
    /\ pc[th] = "idle"
    /\ state # "CLOSED"
    /\ Goto(th, "checked")
    /\ late' = [late EXCEPT ![th] = shut]
    /\ UNCHANGED <<state, open, at, shut, closedBy>>

SendMark(th) ==
    /\ pc[th] = "checked"
    /\ state' = "OPENED"
    /\ Goto(th, "dispatch")
    /\ UNCHANGED <<open, at, shut, late, closedBy>>

\* _transport_for_url picks a transport, which may have been closed.
Dispatch(th) ==
    /\ pc[th] = "dispatch"
    /\ \E n \in 1 .. Transports :
          IF n \in open THEN Goto(th, "admitted") ELSE Goto(th, "idle")
    /\ UNCHANGED <<state, open, at, shut, late, closedBy>>

Answered(th) ==
    /\ pc[th] = "admitted"
    /\ Goto(th, "idle")
    /\ UNCHANGED <<state, open, at, shut, late, closedBy>>

-----------------------------------------------------------------------------
(* Client.close and with-blocks                                             *)

\* A client that is CLOSED is left alone.
CloseCheck(th) ==
    /\ pc[th] = "idle"
    /\ \/ state = "CLOSED" /\ closedBy' = closedBy \union {th} /\ UNCHANGED pc
       \/ state # "CLOSED" /\ Goto(th, "closable") /\ UNCHANGED closedBy
    /\ UNCHANGED <<state, open, at, shut, late>>

\* close() after its test, or __exit__, which makes none.
CloseMark(th) ==
    /\ pc[th] \in {"closable", "within"}
    /\ state' = "CLOSED"
    /\ at' = [at EXCEPT ![th] = 1]
    /\ Goto(th, "closing")
    /\ UNCHANGED <<open, shut, late, closedBy>>

CloseNext(th) ==
    /\ pc[th] = "closing" /\ at[th] <= Transports
    /\ open' = open \ {at[th]}
    /\ at' = [at EXCEPT ![th] = @ + 1]
    /\ UNCHANGED <<state, pc, shut, late, closedBy>>

\* Mutant: the mounted transports are forgotten.
CloseReturnsEarly(th) ==
    /\ pc[th] = "closing" /\ at[th] > 1
    /\ Goto(th, "idle")
    /\ shut' = TRUE /\ closedBy' = closedBy \union {th}
    /\ UNCHANGED <<state, open, at, late>>

CloseReturns(th) ==
    /\ pc[th] = "closing" /\ at[th] > Transports
    /\ Goto(th, "idle")
    /\ shut' = TRUE /\ closedBy' = closedBy \union {th}
    /\ UNCHANGED <<state, open, at, late>>

\* A transport's close() raises, or the task that awaits it is cancelled.
CloseFails(th) ==
    /\ pc[th] = "closing" /\ at[th] <= Transports
    /\ Goto(th, "idle")
    /\ UNCHANGED <<state, open, at, shut, late, closedBy>>

\* "Cannot open a client instance more than once", or go on.
EnterCheck(th) ==
    /\ pc[th] = "idle" /\ state = "UNOPENED"
    /\ Goto(th, "enterable")
    /\ UNCHANGED <<state, open, at, shut, late, closedBy>>

\* The transports' own __enter__ only returns them.
EnterMark(th) ==
    /\ pc[th] = "enterable"
    /\ state' = "OPENED"
    /\ Goto(th, "within")
    /\ UNCHANGED <<open, at, shut, late, closedBy>>

Next ==
    \E th \in Threads :
        \/ SendCheck(th) \/ SendMark(th) \/ Dispatch(th) \/ Answered(th)
        \/ CloseCheck(th) \/ CloseMark(th) \/ CloseNext(th) \/ CloseReturns(th)
        \/ CloseFails(th) \/ EnterCheck(th) \/ EnterMark(th)

Spec == Init /\ [][Next]_vars

-----------------------------------------------------------------------------
\* Whatever becomes of the client's state, once a close() or a with-block has
\* run through, no request that begins afterwards reaches the network: the
\* transports stay closed, those of mounted patterns too.
NoLateRequest == \A th \in Threads : pc[th] = "admitted" => ~late[th]

\* "CLOSED: The client has either exited the `with` block, or `close()` has
\* been called explicitly" (httpxp/_client.py:135-137), of a client that "can
\* be shared between threads" (line 632): closed once, it says so ever after.
ClosedStaysClosed == shut => state = "CLOSED"

\* "Close transport and proxies." (httpxp/_client.py:1304): when close() has
\* returned, they are closed.  Does NOT hold: a close() that failed half way
\* leaves the others open and the next close() returns at once (see README).
CloseHasClosed == closedBy # {} => open = {}

-----------------------------------------------------------------------------
\* A thread that closes the transports has closed those it has passed; whoever
\* has passed them all has closed them all.
ClosingInOrder ==
    /\ \A th \in Threads : pc[th] = "closing" => \A n \in open : n >= at[th]
    /\ shut => open = {}

LateMeansShut == \A th \in Threads : late[th] => shut

IInv == TypeOK /\ ClosingInOrder /\ LateMeansShut /\ NoLateRequest
===============================================================================
