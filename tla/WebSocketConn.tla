----------------------------- MODULE WebSocketConn -----------------------------
(***************************************************************************)
(* One WebSocket: connect() and NativeWebSocket (src/websocket.rs) with    *)
(* its two asynchronous mutexes, its cancellation and its connection       *)
(* permit, under connect, WebSocket and AsyncWebSocket                     *)
(* (httpxp/_websocket.py).  One caller opens it; then any caller may send, *)
(* receive and close at any time.  A caller stands for the native call on  *)
(* its thread, which outlives a task that was cancelled.                   *)
(***************************************************************************)
EXTENDS Naturals

CONSTANTS Callers,     \* threads or tasks that share the socket
          nobody       \* no lock owner

ASSUME NobodyAssumption == nobody \notin Callers

VARIABLES
    async,       \* an AsyncWebSocket, or a WebSocket
    opener,      \* who called connect()
    opening,     \* where that call is
    call,        \* where each caller's native call is
    txOwner,     \* who holds the tx mutex
    rxOwner,     \* who holds the rx mutex
    sink,        \* the sending half exists
    source,      \* the receiving half exists
    permit,      \* the connection permit is held
    cancelled,   \* NativeCancellation
    closeFrames, \* Close frames that close() handed to it
    ended        \* history: a close() or aclose() has returned or raised

frame == <<async, opener, opening>>
vars == <<async, opener, opening, call, txOwner, rxOwner, sink, source, permit, cancelled, closeFrames, ended>>

InSend == {"wantTx", "sending"}
InReceive == {"wantRx", "receiving"}
InClose == {"cancelling", "closeTx", "closeFrame", "closeRx"}
InOpen == {"wantPermit", "handshaking", "established"}

TypeOK ==
    /\ async \in BOOLEAN
    /\ opener \in Callers
    /\ opening \in {"preparing", "native", "hooks", "open", "failing", "raised"}
    /\ call \in [Callers -> {"idle"} \union InOpen \union InSend \union InReceive \union InClose]
    /\ txOwner \in Callers \union {nobody} /\ rxOwner \in Callers \union {nobody}
    /\ sink \in BOOLEAN /\ source \in BOOLEAN /\ permit \in BOOLEAN
    /\ cancelled \in BOOLEAN /\ ended \in BOOLEAN
    /\ closeFrames \in Nat
    /\ txOwner # nobody => call[txOwner] \in {"sending", "closeFrame", "closeRx"}
    /\ rxOwner # nobody => call[rxOwner] = "receiving"

Init ==
    /\ async \in BOOLEAN
    /\ opener \in Callers /\ opening = "preparing"
    /\ call = [c \in Callers |-> "idle"]
    /\ txOwner = nobody /\ rxOwner = nobody
    /\ sink = FALSE /\ source = FALSE /\ permit = FALSE
    /\ cancelled = FALSE /\ closeFrames = 0 /\ ended = FALSE

Goto(c, place) == call' = [call EXCEPT ![c] = place]

-----------------------------------------------------------------------------
(* connect and connect_async                                                *)

locks == <<async, opener, txOwner, rxOwner, closeFrames, ended>>

\* A closed client, a bad URL or option, a request hook, the auth flow, or a
\* transport that is not a native one.
PrepareFails ==
    /\ opening = "preparing"
    /\ opening' = "raised"
    /\ UNCHANGED <<locks, call, sink, source, permit, cancelled>>

\* The native handshake begins, on a thread of its own if it is asynchronous.
Connect ==
    /\ opening = "preparing"
    /\ opening' = "native"
    /\ Goto(opener, "wantPermit")
    /\ UNCHANGED <<locks, sink, source, permit, cancelled>>

GetPermit ==
    /\ call[opener] = "wantPermit" /\ ~cancelled
    /\ permit' = TRUE
    /\ Goto(opener, "handshaking")
    /\ UNCHANGED <<locks, opening, sink, source, cancelled>>

\* The peer has agreed: the connection is split into its halves.
Established ==
    /\ call[opener] = "handshaking" /\ ~cancelled
    /\ sink' = TRUE /\ source' = TRUE
    /\ Goto(opener, "established")
    /\ UNCHANGED <<locks, opening, permit, cancelled>>

\* The pool timer, a closed transport, the peer's refusal, or the cancellation.
\* The task, if it still waits, cancels as well and raises.
ConnectFails ==
    /\ call[opener] \in {"wantPermit", "handshaking"}
    /\ permit' = FALSE
    /\ Goto(opener, "idle")
    /\ opening' = "raised"
    /\ cancelled' = (cancelled \/ async)
    /\ UNCHANGED <<locks, sink, source>>

\* The task is cancelled; the call stays on its thread.
ConnectCancelled ==
    /\ async /\ opening = "native"
    /\ opening' = "raised" /\ cancelled' = TRUE
    /\ UNCHANGED <<locks, call, sink, source, permit>>

\* A socket that nobody waits for any more is dropped with its permit.
Discard ==
    /\ call[opener] = "established" /\ opening = "raised"
    /\ sink' = FALSE /\ source' = FALSE /\ permit' = FALSE
    /\ Goto(opener, "idle")
    /\ UNCHANGED <<locks, opening, cancelled>>

Wrap ==
    /\ call[opener] = "established" /\ opening = "native"
    /\ opening' = "hooks"
    /\ Goto(opener, "idle")
    /\ UNCHANGED <<locks, sink, source, permit, cancelled>>

\* The cookies and the response hooks: the socket is returned, or closed.
Hooks ==
    /\ opening = "hooks"
    /\ opening' \in {"open", "failing"}
    /\ UNCHANGED <<locks, call, sink, source, permit, cancelled>>

\* Who may use the socket: everybody, or connect() to close it.
Usable(c) == opening = "open" \/ (opening = "failing" /\ c = opener)

-----------------------------------------------------------------------------
(* send                                                                     *)

\* The cancellation is tested before the mutex is asked for.
Send(c) ==
    /\ opening = "open" /\ call[c] = "idle" /\ ~cancelled
    /\ Goto(c, "wantTx")
    /\ UNCHANGED <<frame, txOwner, rxOwner, sink, source, permit, cancelled, closeFrames, ended>>

\* The mutex is free: the message goes into the sink, or there is none.
TakeTx(c) ==
    /\ call[c] = "wantTx" /\ txOwner = nobody
    /\ \/ sink /\ txOwner' = c /\ Goto(c, "sending")
       \/ ~sink /\ Goto(c, "idle") /\ UNCHANGED txOwner
    /\ UNCHANGED <<frame, rxOwner, sink, source, permit, cancelled, closeFrames, ended>>

\* The sink has been flushed, or the connection is broken.
Sent(c) ==
    /\ call[c] = "sending"
    /\ txOwner' = nobody
    /\ Goto(c, "idle")
    /\ UNCHANGED <<frame, rxOwner, sink, source, permit, cancelled, closeFrames, ended>>

-----------------------------------------------------------------------------
(* receive                                                                  *)

Receive(c) ==
    /\ opening = "open" /\ call[c] = "idle" /\ ~cancelled
    /\ Goto(c, "wantRx")
    /\ UNCHANGED <<frame, txOwner, rxOwner, sink, source, permit, cancelled, closeFrames, ended>>

TakeRx(c) ==
    /\ call[c] = "wantRx" /\ rxOwner = nobody
    /\ \/ source /\ rxOwner' = c /\ Goto(c, "receiving")
       \/ ~source /\ Goto(c, "idle") /\ UNCHANGED rxOwner
    /\ UNCHANGED <<frame, txOwner, sink, source, permit, cancelled, closeFrames, ended>>

\* A message, the end of the stream or an error: neither half goes away.
Received(c) ==
    /\ call[c] = "receiving"
    /\ rxOwner' = nobody
    /\ Goto(c, "idle")
    /\ UNCHANGED <<frame, txOwner, sink, source, permit, cancelled, closeFrames, ended>>

-----------------------------------------------------------------------------
(* cancellation                                                             *)

\* A task in send() or receive() is cancelled, or its call fails.
CancelTask(c) ==
    /\ async
    /\ call[c] \in InSend \union InReceive
    /\ cancelled' = TRUE
    /\ UNCHANGED <<frame, call, txOwner, rxOwner, sink, source, permit, closeFrames, ended>>

\* Mutant: only the wait for the mutex can be interrupted, not the I/O.
InterruptedWaiting(c) ==
    /\ call[c] \in {"wantTx", "wantRx"} /\ cancelled
    /\ Goto(c, "idle")
    /\ UNCHANGED <<frame, txOwner, rxOwner, sink, source, permit, cancelled, closeFrames, ended>>

\* The call on the thread notices; dropping it frees its mutex.
Interrupted(c) ==
    /\ call[c] \in InSend \union InReceive /\ cancelled
    /\ Goto(c, "idle")
    /\ txOwner' = IF txOwner = c THEN nobody ELSE txOwner
    /\ rxOwner' = IF rxOwner = c THEN nobody ELSE rxOwner
    /\ UNCHANGED <<frame, sink, source, permit, cancelled, closeFrames, ended>>

-----------------------------------------------------------------------------
(* close                                                                    *)

\* aclose() cancels, then asks for a thread to close on.
Aclose(c) ==
    /\ async /\ Usable(c)
    /\ call[c] = "idle"
    /\ cancelled' = TRUE
    /\ Goto(c, "cancelling")
    /\ UNCHANGED <<frame, txOwner, rxOwner, sink, source, permit, closeFrames, ended>>

\* close() with a reason of at most 123 bytes.
Close(c) ==
    /\ Usable(c)
    /\ call[c] = IF async THEN "cancelling" ELSE "idle"
    /\ cancelled' = TRUE
    /\ Goto(c, "closeTx")
    /\ UNCHANGED <<frame, txOwner, rxOwner, sink, source, permit, closeFrames, ended>>

\* ... with a longer one: ValueError.
CloseRefused(c) ==
    /\ opening = "open"
    /\ call[c] = IF async THEN "cancelling" ELSE "idle"
    /\ Goto(c, "idle")
    /\ ended' = TRUE
    /\ UNCHANGED <<frame, txOwner, rxOwner, sink, source, permit, cancelled, closeFrames>>

\* Mutant: the sink stays where it is.
TakeSinkShared(c) ==
    /\ call[c] = "closeTx" /\ txOwner = nobody
    /\ txOwner' = c
    /\ IF sink
         THEN Goto(c, "closeFrame") /\ closeFrames' = closeFrames + 1
         ELSE Goto(c, "closeRx") /\ UNCHANGED closeFrames
    /\ UNCHANGED <<frame, rxOwner, sink, source, permit, cancelled, ended>>

\* The closer takes the sink out and hands it the last frame.
TakeSink(c) ==
    /\ call[c] = "closeTx" /\ txOwner = nobody
    /\ txOwner' = c
    /\ sink' = FALSE
    /\ IF sink
         THEN Goto(c, "closeFrame") /\ closeFrames' = closeFrames + 1
         ELSE Goto(c, "closeRx") /\ UNCHANGED closeFrames
    /\ UNCHANGED <<frame, rxOwner, source, permit, cancelled, ended>>

\* Mutant: the permit does not wait for the receiving half.
CloseFrameSentEarly(c) ==
    /\ call[c] = "closeFrame"
    /\ permit' = FALSE
    /\ Goto(c, "closeRx")
    /\ UNCHANGED <<frame, txOwner, rxOwner, sink, source, cancelled, closeFrames, ended>>

\* It was flushed, failed, or two seconds have passed.
CloseFrameSent(c) ==
    /\ call[c] = "closeFrame"
    /\ Goto(c, "closeRx")
    /\ UNCHANGED <<frame, txOwner, rxOwner, sink, source, permit, cancelled, closeFrames, ended>>

\* The receiving half goes, and only then the permit; connect() goes on to
\* raise what made it close.
DropSource(c) ==
    /\ call[c] = "closeRx" /\ rxOwner = nobody
    /\ opening' = IF opening = "failing" THEN "raised" ELSE opening
    /\ source' = FALSE /\ permit' = FALSE
    /\ txOwner' = nobody
    /\ Goto(c, "idle")
    /\ ended' = TRUE
    /\ UNCHANGED <<async, opener, rxOwner, sink, cancelled, closeFrames>>

Open ==
    \/ PrepareFails \/ Connect \/ GetPermit \/ Established \/ ConnectFails
    \/ ConnectCancelled \/ Discard \/ Wrap \/ Hooks

Use ==
    \E c \in Callers :
        \/ Send(c) \/ TakeTx(c) \/ Sent(c) \/ Receive(c) \/ TakeRx(c) \/ Received(c)
        \/ CancelTask(c) \/ Interrupted(c) \/ Aclose(c) \/ Close(c) \/ CloseRefused(c)
        \/ TakeSink(c) \/ CloseFrameSent(c) \/ DropSource(c)

Next == Open \/ Use

Spec == Init /\ [][Next]_vars

\* A cancelled call returns, a closer that reached a thread goes on, its timer
\* fires; tokio's mutexes are fair, hence SF.  Peers need not do anything.
\* connect() closes what it will not return, and threads drop what nobody wants.
Fairness(c) ==
    /\ WF_vars(Interrupted(c)) /\ WF_vars(CloseFrameSent(c))
    /\ SF_vars(TakeSink(c)) /\ SF_vars(DropSource(c))

OpenFairness ==
    /\ WF_vars(cancelled /\ ConnectFails) /\ WF_vars(Discard)
    /\ WF_vars(opening = "failing" /\ \E c \in Callers : Aclose(c) \/ Close(c))

FairSpec == Spec /\ OpenFairness /\ \A c \in Callers : Fairness(c)

-----------------------------------------------------------------------------
\* The permit is the right to a connection: whoever gets it next must not find
\* a half of this one alive, nor a call at work on it.  And a connect() that has
\* raised keeps none: only a thread that has not yet noticed may have it.
PermitLast ==
    /\ ~permit => /\ ~sink /\ ~source
                  /\ \A c \in Callers : call[c] \notin {"sending", "receiving", "closeFrame"}
    /\ opening = "raised" /\ permit => call[opener] \in {"handshaking", "established"}

\* However many callers close, the peer gets one Close frame, and after it no
\* message, not even of a call that passed the cancellation test before.
NothingAfterClose ==
    [][closeFrames > 0 =>
         /\ closeFrames' = closeFrames
         /\ \A c \in Callers : call'[c] = "sending" => call[c] = "sending"]_vars

\* Who may be where: callers at work on a half own its mutex and the half is
\* there, closers behind the sink have taken it away, and the permit covers
\* whatever is left.
WhoOwnsWhat ==
    /\ \A c \in Callers :
          /\ call[c] \in {"sending", "closeFrame", "closeRx"} => txOwner = c
          /\ call[c] = "receiving" => rxOwner = c /\ source
          /\ call[c] = "sending" => sink
          /\ call[c] \in {"closeFrame", "closeRx"} => ~sink
          /\ call[c] = "closeFrame" => permit
    /\ sink \/ source => permit
    /\ closeFrames > 0 => ~sink

\* What there is while connect() runs: its native call, then the socket, which
\* is nobody else's before it is returned.
WhileOpening ==
    /\ \A c \in Callers : call[c] # "idle" =>
          \/ opening = "open" /\ call[c] \notin InOpen
          \/ c = opener /\ opening = "failing" /\ call[c] \in InClose
          \/ c = opener /\ opening \in {"native", "raised"} /\ call[c] \in InOpen
    /\ opening \in {"preparing", "native", "raised"} =>
          /\ permit => call[opener] \in {"handshaking", "established"}
          /\ sink \/ source => call[opener] = "established"
          /\ closeFrames = 0 \/ opening = "raised"
    /\ call[opener] \in {"handshaking", "established"} => permit
    /\ opening = "native" => call[opener] # "idle"
    /\ opening = "hooks" => closeFrames = 0
    /\ call[opener] \in InOpen => closeFrames = 0

IInv == TypeOK /\ WhoOwnsWhat /\ WhileOpening

\* close() returns although the peer is silent and other callers are in the
\* middle of sending or receiving; and a connect() that fails comes to its end
\* and gives its permit back, although the peer is silent.
CloseReturns ==
    /\ \A c \in Callers : call[c] = "closeTx" ~> call[c] = "idle"
    /\ opening = "failing" ~> opening = "raised"
    /\ opening = "raised" ~> ~permit

\* "Close sockets explicitly or use their context managers to release
\* connection capacity." (docs/advanced/wreq.md:131-132): when a close has
\* ended, however it did, the socket is not left dead with its permit.  Does NOT
\* hold: aclose() with too long a reason has cancelled the socket when it is
\* refused (see README).
ClosedReleases == ended /\ cancelled => ~permit \/ \E c \in Callers : call[c] \in InClose
===============================================================================
