-------------------------- MODULE WebSocketConnProofs --------------------------
(* Proofs about WebSocketConn for every set of callers.                      *)
EXTENDS WebSocketConn, TLAPS

-----------------------------------------------------------------------------
(* The invariant IInv == TypeOK /\ WhoOwnsWhat /\ WhileOpening               *)

\* Before connect() there is no socket, and the invariant holds.
LEMMA InitIInv == Init => IInv
<1> SUFFICES ASSUME Init PROVE IInv
  OBVIOUS
<1>1. \A c \in Callers : call[c] = "idle"
  BY DEF Init
<1>2. TypeOK
  BY DEF Init, TypeOK
<1>3. WhoOwnsWhat
  BY <1>1 DEF Init, WhoOwnsWhat
<1>4. WhileOpening
  BY <1>1 DEF Init, WhileOpening, InOpen
<1>5. QED
  BY <1>2, <1>3, <1>4 DEF IInv

\* Steps of connect() and connect_async().
LEMMA OpenKeeps == IInv /\ Open => IInv'
<1> SUFFICES ASSUME IInv, Open PROVE IInv'
  OBVIOUS
<1> USE NobodyAssumption DEF IInv, TypeOK, WhoOwnsWhat, WhileOpening, InOpen, InSend, InReceive,
                            InClose, locks
<1>1. CASE PrepareFails
  BY <1>1 DEF PrepareFails
<1>2. CASE Connect
  BY <1>2 DEF Connect, Goto
<1>3. CASE GetPermit
  BY <1>3 DEF GetPermit, Goto
<1>4. CASE Established
  BY <1>4 DEF Established, Goto
<1>5. CASE ConnectFails
  BY <1>5 DEF ConnectFails, Goto
<1>6. CASE ConnectCancelled
  BY <1>6 DEF ConnectCancelled
<1>7. CASE Discard
  BY <1>7 DEF Discard, Goto
<1>8. CASE Wrap
  BY <1>8 DEF Wrap, Goto
<1>9. CASE Hooks
  BY <1>9 DEF Hooks
<1>10. QED
  BY <1>1, <1>2, <1>3, <1>4, <1>5, <1>6, <1>7, <1>8, <1>9 DEF Open

\* Steps of send(), receive() and their cancellation.
LEMMA MessageKeeps ==
    ASSUME IInv, NEW c \in Callers,
           \/ Send(c) \/ TakeTx(c) \/ Sent(c)
           \/ Receive(c) \/ TakeRx(c) \/ Received(c)
           \/ CancelTask(c) \/ Interrupted(c)
    PROVE  IInv'
<1> USE NobodyAssumption DEF IInv, TypeOK, WhoOwnsWhat, WhileOpening, InOpen, InSend, InReceive,
                            InClose, frame
<1>1. CASE Send(c)
  BY <1>1 DEF Send, Goto
<1>2. CASE TakeTx(c)
  BY <1>2 DEF TakeTx, Goto
<1>3. CASE Sent(c)
  BY <1>3 DEF Sent, Goto
<1>4. CASE Receive(c)
  BY <1>4 DEF Receive, Goto
<1>5. CASE TakeRx(c)
  BY <1>5 DEF TakeRx, Goto
<1>6. CASE Received(c)
  BY <1>6 DEF Received, Goto
<1>7. CASE CancelTask(c)
  BY <1>7 DEF CancelTask
<1>8. CASE Interrupted(c)
  BY <1>8 DEF Interrupted, Goto
<1>9. QED
  BY <1>1, <1>2, <1>3, <1>4, <1>5, <1>6, <1>7, <1>8

\* Steps of close() and aclose().
LEMMA CloseKeeps ==
    ASSUME IInv, NEW c \in Callers,
           \/ Aclose(c) \/ Close(c) \/ CloseRefused(c)
           \/ TakeSink(c) \/ CloseFrameSent(c) \/ DropSource(c)
    PROVE  IInv'
<1> USE NobodyAssumption DEF IInv, TypeOK, WhoOwnsWhat, WhileOpening, InOpen, InSend, InReceive,
                            InClose, frame
<1>1. CASE Aclose(c)
  BY <1>1 DEF Aclose, Usable, Goto
<1>2. CASE Close(c)
  BY <1>2 DEF Close, Usable, Goto
<1>3. CASE CloseRefused(c)
  BY <1>3 DEF CloseRefused, Goto
<1>4. CASE TakeSink(c)
  <2>1. CASE sink
    <3>1. /\ call' = [call EXCEPT ![c] = "closeFrame"] /\ closeFrames' = closeFrames + 1
          /\ txOwner' = c /\ sink' = FALSE /\ permit
      BY <1>4, <2>1 DEF TakeSink, Goto
    <3>2. /\ UNCHANGED <<async, opener, opening, rxOwner, source, permit, cancelled, ended>>
          /\ txOwner = nobody /\ call[c] = "closeTx"
      BY <1>4 DEF TakeSink
    <3>3. TypeOK'
      <4>1. closeFrames' \in Nat
        BY <3>1
      <4>2. QED
        BY <3>1, <3>2, <4>1
    <3>4. WhoOwnsWhat'
      BY <3>1, <3>2
    <3>5. WhileOpening'
      <4>1. opening \in {"open", "failing"} /\ c \in Callers
        BY <3>2
      <4>2. call[opener] \notin InOpen /\ call'[opener] \notin InOpen
        BY <3>1, <3>2
      <4>3. QED
        BY <3>1, <3>2, <4>1, <4>2
    <3>6. QED
      BY <3>3, <3>4, <3>5
  <2>2. CASE ~sink
    <3>1. /\ call' = [call EXCEPT ![c] = "closeRx"] /\ txOwner' = c /\ sink' = FALSE
          /\ UNCHANGED <<async, opener, opening, rxOwner, source, permit, cancelled,
                         closeFrames, ended>>
          /\ txOwner = nobody /\ call[c] = "closeTx"
      BY <1>4, <2>2 DEF TakeSink, Goto
    <3>2. TypeOK'
      BY <3>1
    <3>3. WhoOwnsWhat'
      BY <2>2, <3>1
    <3>4. WhileOpening'
      BY <2>2, <3>1
    <3> HIDE DEF TypeOK, WhoOwnsWhat, WhileOpening
    <3>5. QED
      BY <3>2, <3>3, <3>4
  <2>3. QED
    BY <2>1, <2>2
<1>5. CASE CloseFrameSent(c)
  BY <1>5 DEF CloseFrameSent, Goto
<1>6. CASE DropSource(c)
  <2>1. /\ call[c] = "closeRx" /\ rxOwner = nobody
        /\ opening' = (IF opening = "failing" THEN "raised" ELSE opening)
        /\ source' = FALSE /\ permit' = FALSE /\ txOwner' = nobody /\ ended' = TRUE
        /\ call' = [call EXCEPT ![c] = "idle"]
        /\ UNCHANGED <<async, opener, rxOwner, sink, cancelled, closeFrames>>
    BY <1>6 DEF DropSource, Goto
  <2>2. TypeOK'
    BY <2>1
  <2>3. WhoOwnsWhat'
    BY <2>1
  <2>4. WhileOpening'
    BY <2>1
  <2> HIDE DEF TypeOK, WhoOwnsWhat, WhileOpening
  <2>5. QED
    BY <2>2, <2>3, <2>4
<1>7. QED
  BY <1>1, <1>2, <1>3, <1>4, <1>5, <1>6

\* Every step keeps the invariant.
LEMMA NextIInv == IInv /\ [Next]_vars => IInv'
<1>1. ASSUME IInv, Next PROVE IInv'
  BY <1>1, OpenKeeps, MessageKeeps, CloseKeeps DEF Next, Use
<1>2. ASSUME IInv, UNCHANGED vars PROVE IInv'
  BY <1>2 DEF IInv, TypeOK, WhoOwnsWhat, WhileOpening, InOpen, vars
<1>3. QED
  BY <1>1, <1>2

\* The inductive invariant holds always.
THEOREM Invariance == Spec => []IInv
BY InitIInv, NextIInv, PTL DEF Spec

-----------------------------------------------------------------------------
(* What follows                                                             *)

\* Every variable keeps its type, and a mutex is owned only by a call that is
\* inside it (src/websocket.rs:37-111).
THEOREM TypeCorrect == Spec => []TypeOK
<1>1. IInv => TypeOK
  BY DEF IInv
<1>2. QED
  BY <1>1, Invariance, PTL

\* The connection permit is given back last (src/websocket.rs:107-111): then
\* both halves are gone and no call works on them.  And a connect() that raised
\* keeps none (httpxp/_websocket.py:217-219, 255-257, 264-266).
THEOREM PermitIsLast == Spec => []PermitLast
<1>1. IInv => PermitLast
  BY DEF IInv, TypeOK, WhoOwnsWhat, WhileOpening, PermitLast
<1>2. QED
  BY <1>1, Invariance, PTL

\* After the Close frame there is no second one, and no message begins
\* (src/websocket.rs:96-106): the sink has been taken out.
THEOREM SilenceAfterClose == Spec => NothingAfterClose
<1> DEFINE Quiet ==
        closeFrames > 0 =>
            /\ closeFrames' = closeFrames
            /\ \A c \in Callers : call'[c] = "sending" => call[c] = "sending"
<1>1. ASSUME IInv, closeFrames > 0, NEW c \in Callers,
             \/ Send(c) \/ TakeTx(c) \/ Sent(c)
             \/ Receive(c) \/ TakeRx(c) \/ Received(c)
             \/ CancelTask(c) \/ Interrupted(c)
      PROVE  Quiet
  BY <1>1 DEF IInv, TypeOK, WhoOwnsWhat, InSend, InReceive, Goto, Send, TakeTx, Sent,
              Receive, TakeRx, Received, CancelTask, Interrupted
<1>2. ASSUME IInv, closeFrames > 0, NEW c \in Callers,
             \/ Aclose(c) \/ Close(c) \/ CloseRefused(c)
             \/ TakeSink(c) \/ CloseFrameSent(c) \/ DropSource(c)
      PROVE  Quiet
  BY <1>2 DEF IInv, TypeOK, WhoOwnsWhat, Goto, Aclose, Close, CloseRefused, TakeSink,
              CloseFrameSent, DropSource
<1>3. ASSUME IInv, closeFrames > 0, Open PROVE Quiet
  BY <1>3 DEF IInv, WhileOpening, InOpen, Open, locks, Goto, PrepareFails, Connect, GetPermit,
              Established, ConnectFails, ConnectCancelled, Discard, Wrap, Hooks
<1>4. IInv /\ [Next]_vars => [Quiet]_vars
  BY <1>1, <1>2, <1>3 DEF Next, Use, vars
<1>5. QED
  BY <1>4, Invariance, PTL DEF Spec, NothingAfterClose
===============================================================================
