-------------------------- MODULE SharedObjectsProofs --------------------------
(***************************************************************************)
(* Proofs about the objects that the callers of one client share, for any  *)
(* number of readers, threads, transports, flows, tasks and parts.  Each   *)
(* object has an inductive invariant of its own, IInv of its module; the   *)
(* steps of the others leave its variables alone.                          *)
(***************************************************************************)
EXTENDS MCSharedObjects, TLAPS

-----------------------------------------------------------------------------
(* The client's state and its transports                                    *)

LEMMA LifeInit == Life!Init => Life!IInv
<1> SUFFICES ASSUME Life!Init PROVE Life!IInv
  OBVIOUS
<1>1. Transports \in Nat \ {0}
  BY SharedAssumption DEF Life!TransportsAssumption
<1>2. open \subseteq 1 .. Transports /\ at \in [Threads -> 1 .. Transports + 1]
  BY <1>1 DEF Life!Init
<1>3. pc \in [Threads -> {"idle", "checked", "dispatch", "admitted", "closable",
                          "closing", "enterable", "within"}]
  BY DEF Life!Init
<1>4. shut \in BOOLEAN /\ late \in [Threads -> BOOLEAN] /\ closedBy \subseteq Threads
      /\ state \in Life!States
  BY Zenon DEF Life!Init, Life!States
<1>5. Life!TypeOK
  BY <1>2, <1>3, <1>4 DEF Life!TypeOK
<1>6. Life!ClosingInOrder /\ Life!LateMeansShut /\ Life!NoLateRequest
  BY DEF Life!Init, Life!ClosingInOrder, Life!LateMeansShut, Life!NoLateRequest
<1>7. QED
  BY <1>5, <1>6 DEF Life!IInv

LEMMA LifeNext == Life!IInv /\ [Life!Next]_client => Life!IInv'
<1> SUFFICES ASSUME Life!IInv, [Life!Next]_client PROVE Life!IInv'
  OBVIOUS
<1> USE SharedAssumption
    DEF Life!IInv, Life!TypeOK, Life!ClosingInOrder, Life!LateMeansShut,
        Life!NoLateRequest, Life!States, Life!Goto, Life!TransportsAssumption
<1>1. ASSUME NEW th \in Threads, Life!SendCheck(th) PROVE Life!IInv'
  BY <1>1 DEF Life!SendCheck
<1>2. ASSUME NEW th \in Threads, Life!SendMark(th) PROVE Life!IInv'
  BY <1>2 DEF Life!SendMark
<1>3. ASSUME NEW th \in Threads, Life!Dispatch(th) PROVE Life!IInv'
  BY <1>3 DEF Life!Dispatch
<1>4. ASSUME NEW th \in Threads, Life!Answered(th) PROVE Life!IInv'
  BY <1>4 DEF Life!Answered
<1>5. ASSUME NEW th \in Threads, Life!CloseCheck(th) PROVE Life!IInv'
  BY <1>5 DEF Life!CloseCheck
<1>6. ASSUME NEW th \in Threads, Life!CloseMark(th) PROVE Life!IInv'
  BY <1>6 DEF Life!CloseMark
<1>7. ASSUME NEW th \in Threads, Life!CloseNext(th) PROVE Life!IInv'
  <2>1. /\ open' = open \ {at[th]} /\ at' = [at EXCEPT ![th] = @ + 1]
        /\ at[th] <= Transports /\ UNCHANGED <<state, pc, shut, late, closedBy>>
    BY <1>7 DEF Life!CloseNext
  <2>2. Transports \in Nat /\ at[th] \in 1 .. Transports
    BY <2>1
  <2>3. at' \in [Threads -> 1 .. Transports + 1]
    BY <2>1, <2>2
  <2>4. Life!TypeOK'
    BY <2>1, <2>3
  <2>5. ASSUME NEW t \in Threads, pc[t] = "closing", NEW n \in open'
        PROVE  n >= at'[t]
    <3>1. n \in open /\ n \in Nat /\ n # at[th] /\ n >= at[t] /\ at[t] \in Nat
      BY <2>1, <2>5
    <3>2. at'[t] = IF t = th THEN at[th] + 1 ELSE at[t]
      BY <2>1
    <3>3. QED
      BY <2>2, <3>1, <3>2
  <2>6. shut' => open' = {}
    BY <2>1
  <2>7. Life!ClosingInOrder'
    BY <2>1, <2>5, <2>6
  <2>8. Life!LateMeansShut' /\ Life!NoLateRequest'
    BY <2>1
  <2>9. QED
    BY ONLY <2>4, <2>7, <2>8
<1>8. ASSUME NEW th \in Threads, Life!CloseReturns(th) PROVE Life!IInv'
  BY <1>8 DEF Life!CloseReturns
<1>9. ASSUME NEW th \in Threads, Life!CloseFails(th) PROVE Life!IInv'
  BY <1>9 DEF Life!CloseFails
<1>10. ASSUME NEW th \in Threads, Life!EnterCheck(th) PROVE Life!IInv'
  BY <1>10 DEF Life!EnterCheck
<1>11. ASSUME NEW th \in Threads, Life!EnterMark(th) PROVE Life!IInv'
  BY <1>11 DEF Life!EnterMark
<1>12. CASE UNCHANGED client
  BY <1>12 DEF client
<1>13. QED
  BY <1>1, <1>2, <1>3, <1>4, <1>5, <1>6, <1>7, <1>8, <1>9, <1>10, <1>11, <1>12, Zenon
  DEF Life!Next

-----------------------------------------------------------------------------
(* A WSGI application                                                       *)

LEMMA WsgiInit == Wsgi!Init => Wsgi!IInv
<1> SUFFICES ASSUME Wsgi!Init PROVE Wsgi!IInv
  OBVIOUS
<1>1. {seenStatus, respStatus, firstStatus} \subseteq 0 .. Steps /\ produced \in 0 .. Steps
  BY SharedAssumption DEF Wsgi!Init, Wsgi!StepsAssumption
<1>2. raising \in BOOLEAN /\ seenExcInfo \in BOOLEAN /\ more \in BOOLEAN
  BY Zenon DEF Wsgi!Init
<1>3. wsgi = "calling" /\ delivered = << >> /\ produced = 0
  BY DEF Wsgi!Init
<1>4. Wsgi!TypeOK
  BY <1>1, <1>2, <1>3 DEF Wsgi!TypeOK
<1>5. Wsgi!Ahead /\ Wsgi!InOrder
  BY <1>3 DEF Wsgi!Ahead, Wsgi!InOrder
<1>6. QED
  BY <1>4, <1>5 DEF Wsgi!IInv

LEMMA WsgiNext == Wsgi!IInv /\ [Wsgi!Next]_wsgiVars => Wsgi!IInv'
<1> SUFFICES ASSUME Wsgi!IInv, [Wsgi!Next]_wsgiVars PROVE Wsgi!IInv'
  OBVIOUS
<1> USE SharedAssumption
    DEF Wsgi!IInv, Wsgi!TypeOK, Wsgi!Ahead, Wsgi!InOrder, Wsgi!StepsAssumption
<1>1. ASSUME NEW excInfo \in BOOLEAN, Wsgi!StartResponse(excInfo) PROVE Wsgi!IInv'
  BY <1>1 DEF Wsgi!StartResponse
<1>2. CASE Wsgi!ResultReturned
  BY <1>2 DEF Wsgi!ResultReturned
<1>3. CASE Wsgi!AppRaises
  BY <1>3 DEF Wsgi!AppRaises
<1>4. CASE Wsgi!SkipLeading
  <2>1. /\ wsgi' = "checking" /\ firstStatus' = seenStatus
        /\ UNCHANGED <<raising, seenStatus, seenExcInfo, delivered, respStatus>>
    BY <1>4 DEF Wsgi!SkipLeading
  <2>2. more' \in BOOLEAN
    BY <1>4, Zenon DEF Wsgi!SkipLeading
  <2>3. /\ produced' \in 0 .. Steps /\ produced' >= produced /\ (more' => produced' # 0)
    BY <1>4 DEF Wsgi!SkipLeading
  <2>4. Wsgi!TypeOK'
    BY <2>1, <2>2, <2>3
  <2>5. Wsgi!Ahead' /\ Wsgi!InOrder'
    BY <2>1, <2>3
  <2>6. QED
    BY ONLY <2>4, <2>5
<1>5. CASE Wsgi!Check
  BY <1>5 DEF Wsgi!Check
<1>6. CASE Wsgi!Deliver
  BY <1>6 DEF Wsgi!Deliver
<1>7. CASE Wsgi!ResponseEnds
  BY <1>7 DEF Wsgi!ResponseEnds
<1>8. CASE UNCHANGED wsgiVars
  BY <1>8 DEF wsgiVars
<1>9. QED
  BY <1>1, <1>2, <1>3, <1>4, <1>5, <1>6, <1>7, <1>8, Zenon DEF Wsgi!Next

LEMMA WsgiResponse == Wsgi!IInv => Wsgi!ResponseIsTheApps
<1> SUFFICES ASSUME Wsgi!IInv PROVE Wsgi!ResponseIsTheApps
  OBVIOUS
<1>1. delivered \in Seq(1 .. Steps) /\ \A i \in 1 .. Len(delivered) : delivered[i] = i
  BY DEF Wsgi!IInv, Wsgi!TypeOK, Wsgi!InOrder
<1>2. delivered = [i \in 1 .. Len(delivered) |-> i]
  BY <1>1
<1>3. QED
  BY <1>2 DEF Wsgi!IInv, Wsgi!Ahead, Wsgi!InOrder, Wsgi!ResponseIsTheApps

-----------------------------------------------------------------------------
(* An ASGI application                                                      *)

\* What is in a sequence.
LEMMA Element ==
    ASSUME NEW S, NEW s \in Seq(S)
    PROVE  \A i \in 1 .. Len(s) : s[i] \in S
OBVIOUS

\* One more message behind the others.
LEMMA Appended ==
    ASSUME NEW S, NEW s \in Seq(S), NEW e \in S
    PROVE  /\ Append(s, e) \in Seq(S) /\ Len(Append(s, e)) = Len(s) + 1
           /\ \A i \in 1 .. Len(s) : Append(s, e)[i] = s[i]
           /\ Append(s, e)[Len(s) + 1] = e
OBVIOUS

LEMMA AsgiInit == Asgi!Init => Asgi!IInv
<1> SUFFICES ASSUME Asgi!Init PROVE Asgi!IInv
  OBVIOUS
<1>1. pulled \in 0 .. Parts /\ sent \in 0 .. Parts /\ pulled = 0 /\ sent = 0
  BY SharedAssumption DEF Asgi!Init, Asgi!PartsAssumption
<1>2. /\ head \in BOOLEAN /\ raiseExceptions \in BOOLEAN /\ requestComplete \in BOOLEAN
      /\ responseComplete \in BOOLEAN /\ ~requestComplete /\ ~responseComplete
  BY Zenon DEF Asgi!Init
<1>3. /\ receiver = [t \in AppTasks |-> "idle"] /\ received = << >> /\ bodyParts = << >>
      /\ statusCode = "none" /\ app = "running" /\ call = "running"
  BY DEF Asgi!Init
<1>4. Asgi!TypeOK
  BY <1>1, <1>2, <1>3 DEF Asgi!TypeOK
<1>5. Asgi!OnePulls /\ Asgi!Messages /\ Asgi!Collected
  BY <1>1, <1>2, <1>3 DEF Asgi!OnePulls, Asgi!Messages, Asgi!Collected
<1>6. QED
  BY <1>4, <1>5 DEF Asgi!IInv

\* receive() moves the request on, and leaves the response alone.
LEMMA ReceiveKeeps ==
    ASSUME Asgi!IInv, NEW t \in AppTasks,
           Asgi!Receive(t) \/ Asgi!ReceiveFails(t) \/ Asgi!PartPulled(t)
             \/ Asgi!PartsEnd(t) \/ Asgi!Disconnected(t)
    PROVE  Asgi!IInv'
<1> USE SharedAssumption
    DEF Asgi!IInv, Asgi!TypeOK, Asgi!OnePulls, Asgi!Messages, Asgi!Collected,
        Asgi!PartsAssumption, Asgi!Runs, Asgi!AppRaises, Asgi!Returns, Asgi!sending,
        Asgi!End, Asgi!Disconnect
<1>1. CASE Asgi!Receive(t)
  <2>1. \/ requestComplete /\ receiver' = [receiver EXCEPT ![t] = "waiting"]
        \/ /\ ~requestComplete /\ \A u \in AppTasks : receiver[u] # "pulling"
           /\ receiver' = [receiver EXCEPT ![t] = "pulling"]
    BY <1>1, Zenon DEF Asgi!Receive
  <2>2. UNCHANGED <<head, raiseExceptions, app, call, pulled, requestComplete, received,
                    statusCode, bodyParts, responseComplete, sent>>
    BY <1>1 DEF Asgi!Receive
  <2>3. receiver' \in [AppTasks -> {"idle", "pulling", "waiting"}]
    BY <2>1
  <2>4. Asgi!TypeOK'
    BY <2>2, <2>3
  <2>5. Asgi!OnePulls'
    BY <2>1, <2>2
  <2>6. Asgi!Messages' /\ Asgi!Collected'
    BY <2>2
  <2> HIDE DEF Asgi!TypeOK, Asgi!OnePulls, Asgi!Messages, Asgi!Collected
  <2>7. QED
    BY <2>4, <2>5, <2>6
<1>2. CASE Asgi!ReceiveFails(t)
  BY <1>2 DEF Asgi!ReceiveFails
<1>3. CASE Asgi!PartPulled(t)
  BY <1>3 DEF Asgi!PartPulled
<1>4. CASE Asgi!PartsEnd(t)
  BY <1>4 DEF Asgi!PartsEnd
<1>5. CASE Asgi!Disconnected(t)
  <2>1. /\ receiver[t] = "waiting" /\ responseComplete
        /\ receiver' = [receiver EXCEPT ![t] = "idle"]
        /\ received' = Append(received, Asgi!Disconnect)
        /\ UNCHANGED <<head, raiseExceptions, app, call, pulled, requestComplete,
                       statusCode, bodyParts, responseComplete, sent>>
    BY <1>5 DEF Asgi!Disconnected
  <2>2. Asgi!TypeOK'
    BY <2>1
  <2>3. Asgi!OnePulls'
    BY <2>1
  <2>4. Asgi!Messages'
    <3>1. /\ received \in Seq(0 .. Parts + 1) /\ Parts + 1 \in 0 .. Parts + 1
          /\ Len(received) \in Nat /\ received' = Append(received, Parts + 1)
      BY <2>1
    <3>2. /\ Len(received') = Len(received) + 1
          /\ \A i \in 1 .. Len(received) : received'[i] = received[i]
          /\ received'[Len(received) + 1] = Parts + 1
      BY ONLY <3>1, Appended
    <3>3. requestComplete /\ Len(received) > pulled /\ pulled \in Nat
      BY <2>1
    <3>4. /\ \A i \in 1 .. pulled : received[i] = i
          /\ received[pulled + 1] = 0
          /\ \A i \in pulled + 2 .. Len(received) : received[i] = Parts + 1
      BY <3>3
    <3>5. (\A i \in 1 .. pulled : received'[i] = i) /\ received'[pulled + 1] = 0
      BY ONLY <3>1, <3>2, <3>3, <3>4
    <3>6. \A i \in pulled + 2 .. Len(received) + 1 : received'[i] = Parts + 1
      <4>1. SUFFICES ASSUME NEW i \in pulled + 2 .. Len(received) + 1
                     PROVE  received'[i] = Parts + 1
        OBVIOUS
      <4>2. CASE i = Len(received) + 1
        BY ONLY <3>2, <4>2
      <4>3. CASE i # Len(received) + 1
        <5>1. Len(received) \in Nat /\ pulled \in Nat /\ pulled < Len(received)
          BY ONLY <3>1, <3>3
        <5>2. i \in Nat /\ pulled + 2 <= i /\ i <= Len(received)
          BY ONLY <4>3, <5>1
        <5>3. i \in pulled + 2 .. Len(received) /\ i \in 1 .. Len(received)
          BY ONLY <5>1, <5>2
        <5>4. QED
          BY ONLY <3>2, <3>4, <5>3, Zenon
      <4>4. QED
        BY ONLY <4>2, <4>3
    <3>7. responseComplete' /\ requestComplete' /\ pulled' = pulled
      BY <2>1, <3>3
    <3>8. QED
      BY ONLY <3>1, <3>2, <3>3, <3>5, <3>6, <3>7
      DEF Asgi!Messages, Asgi!End, Asgi!Disconnect
  <2>5. Asgi!Collected'
    BY <2>1
  <2> HIDE DEF Asgi!TypeOK, Asgi!OnePulls, Asgi!Messages, Asgi!Collected
  <2>6. QED
    BY <2>2, <2>3, <2>4, <2>5
<1>6. QED
  BY <1>1, <1>2, <1>3, <1>4, <1>5, Zenon

\* send() and the call move the response on, and leave the request alone.
LEMMA SendKeeps ==
    ASSUME Asgi!IInv,
           \/ \E empty, moreBody \in BOOLEAN : Asgi!SendBody(empty, moreBody)
           \/ Asgi!SendStart \/ Asgi!SendFails \/ Asgi!AppReturns \/ Asgi!AppFails
           \/ Asgi!Returned \/ Asgi!Raised \/ Asgi!Cancelled
    PROVE  Asgi!IInv'
<1> USE SharedAssumption
    DEF Asgi!IInv, Asgi!TypeOK, Asgi!OnePulls, Asgi!Messages, Asgi!Collected,
        Asgi!PartsAssumption, Asgi!Runs, Asgi!AppRaises, Asgi!receiving, Asgi!sending,
        Asgi!End, Asgi!Disconnect
<1>1. ASSUME NEW empty \in BOOLEAN, NEW moreBody \in BOOLEAN, Asgi!SendBody(empty, moreBody)
      PROVE  Asgi!IInv'
  <2>1. /\ app = "running" /\ ~responseComplete /\ (empty \/ sent < Parts)
        /\ sent' = (IF empty THEN sent ELSE sent + 1)
        /\ bodyParts' = (IF empty \/ head THEN bodyParts ELSE Append(bodyParts, sent'))
        /\ UNCHANGED <<head, raiseExceptions, app, call, receiver, pulled, requestComplete,
                       received, statusCode>>
    BY <1>1 DEF Asgi!SendBody
  <2>2. responseComplete' \in BOOLEAN
    BY <1>1, Zenon DEF Asgi!SendBody
  <2>3. sent' \in 0 .. Parts /\ (~empty => sent' = sent + 1 /\ sent' \in 1 .. Parts)
    BY <2>1
  <2>4. /\ bodyParts' \in Seq(1 .. Parts) /\ Len(bodyParts') = (IF head THEN 0 ELSE sent')
        /\ \A i \in 1 .. Len(bodyParts') : bodyParts'[i] = i
    <3>1. CASE empty \/ head
      BY <2>1, <3>1
    <3>2. CASE ~empty /\ ~head
      <4>1. bodyParts' = Append(bodyParts, sent') /\ Len(bodyParts) = sent
            /\ bodyParts \in Seq(1 .. Parts)
        BY <2>1, <3>2
      <4>2. /\ bodyParts' \in Seq(1 .. Parts) /\ Len(bodyParts') = Len(bodyParts) + 1
            /\ \A i \in 1 .. Len(bodyParts) : bodyParts'[i] = bodyParts[i]
            /\ bodyParts'[Len(bodyParts) + 1] = sent'
        BY <2>3, <3>2, <4>1, Appended
      <4>3. \A i \in 1 .. Len(bodyParts) : bodyParts[i] = i
        OBVIOUS
      <4>4. Len(bodyParts) \in Nat /\ sent' = sent + 1 /\ ~head
        BY <2>3, <3>2, <4>1
      <4>5. \A i \in 1 .. Len(bodyParts) + 1 : bodyParts'[i] = i
        BY ONLY <4>1, <4>2, <4>3, <4>4
      <4>6. QED
        BY ONLY <4>1, <4>2, <4>4, <4>5
    <3>3. QED
      BY <3>1, <3>2
  <2>5. Asgi!TypeOK'
    BY <2>1, <2>2, <2>3, <2>4
  <2>6. Asgi!OnePulls' /\ Asgi!Messages'
    BY <2>1
  <2>7. Asgi!Collected'
    BY <2>1, <2>4
  <2> HIDE DEF Asgi!TypeOK, Asgi!OnePulls, Asgi!Messages, Asgi!Collected
  <2>8. QED
    BY <2>5, <2>6, <2>7
<1>2. CASE Asgi!SendStart
  BY <1>2 DEF Asgi!SendStart
<1>3. CASE Asgi!SendFails
  BY <1>3 DEF Asgi!SendFails
<1>4. CASE Asgi!AppReturns
  BY <1>4 DEF Asgi!AppReturns
<1>5. CASE Asgi!AppFails
  BY <1>5 DEF Asgi!AppFails
<1>6. CASE Asgi!Returned
  BY <1>6 DEF Asgi!Returned
<1>7. CASE Asgi!Raised
  BY <1>7 DEF Asgi!Raised
<1>8. CASE Asgi!Cancelled
  BY <1>8 DEF Asgi!Cancelled
<1>9. QED
  BY <1>1, <1>2, <1>3, <1>4, <1>5, <1>6, <1>7, <1>8, Zenon

LEMMA AsgiNext == Asgi!IInv /\ [Asgi!Next]_asgi => Asgi!IInv'
<1> SUFFICES ASSUME Asgi!IInv, [Asgi!Next]_asgi PROVE Asgi!IInv'
  OBVIOUS
<1>1. CASE UNCHANGED asgi
  BY <1>1 DEF asgi, Asgi!IInv, Asgi!TypeOK, Asgi!OnePulls, Asgi!Messages, Asgi!Collected
<1>2. CASE Asgi!Next
  BY <1>2, ReceiveKeeps, SendKeeps, Zenon DEF Asgi!Next
<1>3. QED
  BY <1>1, <1>2

LEMMA AsgiRequest == Asgi!IInv => Asgi!RequestInOrder
<1> SUFFICES ASSUME Asgi!IInv PROVE Asgi!RequestInOrder
  OBVIOUS
<1>1. Parts \in Nat
  BY SharedAssumption DEF Asgi!PartsAssumption
<1>2. received \in Seq(0 .. Parts + 1) /\ pulled \in 0 .. Parts /\ requestComplete \in BOOLEAN
  BY DEF Asgi!IInv, Asgi!TypeOK
<1>3. DOMAIN received = 1 .. Len(received) /\ Len(received) \in Nat
  BY <1>2
<1>4. \A i \in 1 .. Len(received) :
        \/ received[i] = i /\ i <= pulled
        \/ received[i] = 0 /\ i = pulled + 1
        \/ /\ received[i] = Parts + 1 /\ responseComplete
           /\ pulled + 1 \in 1 .. Len(received) /\ received[pulled + 1] = 0 /\ pulled + 1 < i
  <2>1. /\ \A i \in 1 .. pulled : received[i] = i
        /\ ~requestComplete => Len(received) = pulled
        /\ requestComplete => Len(received) > pulled /\ received[pulled + 1] = 0
        /\ requestComplete => \A i \in pulled + 2 .. Len(received) :
                                 received[i] = Parts + 1 /\ responseComplete
    BY DEF Asgi!IInv, Asgi!Messages, Asgi!End, Asgi!Disconnect
  <2>2. pulled \in Nat /\ Len(received) \in Nat
    BY <1>2, <1>3
  <2> SUFFICES ASSUME NEW i \in 1 .. Len(received)
               PROVE  \/ received[i] = i /\ i <= pulled
                      \/ received[i] = 0 /\ i = pulled + 1
                      \/ /\ received[i] = Parts + 1 /\ responseComplete
                         /\ pulled + 1 \in 1 .. Len(received) /\ received[pulled + 1] = 0
                         /\ pulled + 1 < i
    OBVIOUS
  <2>3. CASE i <= pulled
    BY <2>1, <2>2, <2>3
  <2>4. CASE i = pulled + 1
    <3>1. requestComplete
      BY <2>1, <2>2, <2>4
    <3>2. QED
      BY <2>1, <2>4, <3>1
  <2>5. CASE i > pulled + 1
    <3>1. requestComplete
      BY <2>1, <2>2, <2>5
    <3>2. i \in pulled + 2 .. Len(received) /\ pulled + 1 \in 1 .. Len(received)
      BY <2>2, <2>5
    <3>3. QED
      BY <2>1, <2>5, <3>1, <3>2
  <2>6. QED
    BY <2>2, <2>3, <2>4, <2>5
<1>5. \A i \in 1 .. Len(received) : received[i] = 0 => i = pulled + 1
  BY <1>1, <1>3, <1>4
<1>6. QED
  BY <1>3, <1>4, <1>5 DEF Asgi!RequestInOrder, Asgi!End, Asgi!Disconnect

LEMMA AsgiResponse == Asgi!IInv => Asgi!ResponseIsTheApps
<1> SUFFICES ASSUME Asgi!IInv PROVE Asgi!ResponseIsTheApps
  OBVIOUS
<1>1. /\ bodyParts \in Seq(1 .. Parts) /\ sent \in Nat
      /\ Len(bodyParts) = (IF head THEN 0 ELSE sent)
      /\ \A i \in 1 .. Len(bodyParts) : bodyParts[i] = i
  BY SharedAssumption DEF Asgi!IInv, Asgi!TypeOK, Asgi!Collected
<1>2. bodyParts = IF head THEN << >> ELSE [i \in 1 .. sent |-> i]
  BY <1>1
<1>3. QED
  BY <1>2 DEF Asgi!IInv, Asgi!Collected, Asgi!ResponseIsTheApps

-----------------------------------------------------------------------------
(* The body of a response                                                   *)

\* A sequence of chunks from the start is a part of the whole body.
LEMMA PrefixIsPart ==
    ASSUME NEW chunks \in Seq(1 .. Length), Body!IsPrefix(chunks, Len(chunks))
    PROVE  /\ chunks = SubSeq(Body!Whole, 1, Len(chunks))
           /\ Len(chunks) = Length => chunks = Body!Whole
<1>1. Length \in Nat /\ Len(chunks) \in Nat
  BY SharedAssumption DEF Body!LengthAssumption
<1>2. \A i \in 1 .. Len(chunks) : chunks[i] = i /\ chunks[i] \in 1 .. Length
  <2>1. \A i \in 1 .. Len(chunks) : chunks[i] = i
    BY DEF Body!IsPrefix
  <2>2. \A i \in 1 .. Len(chunks) : chunks[i] \in 1 .. Length
    BY Element
  <2>3. QED
    BY <2>1, <2>2
<1>3. Len(chunks) <= Length
  BY <1>1, <1>2
<1>4. chunks = [i \in 1 .. Len(chunks) |-> i]
  BY <1>2
<1>5. SubSeq(Body!Whole, 1, Len(chunks)) = [i \in 1 .. Len(chunks) |-> Body!Whole[1 + i - 1]]
  BY <1>1, <1>3 DEF Body!Whole
<1>6. \A i \in 1 .. Len(chunks) : Body!Whole[1 + i - 1] = i
  BY <1>1, <1>3 DEF Body!Whole
<1>7. QED
  BY <1>4, <1>5, <1>6 DEF Body!Whole

LEMMA BodyInit == Body!Init => Body!IInv
<1> SUFFICES ASSUME Body!Init PROVE Body!IInv
  OBVIOUS
<1>1. wire \in 0 .. Length /\ wire = 0
  BY SharedAssumption DEF Body!Init, Body!LengthAssumption
<1>2. /\ consumed \in BOOLEAN /\ closed \in BOOLEAN /\ alive \in BOOLEAN
      /\ cancelled \in BOOLEAN /\ cached \in BOOLEAN
      /\ ~consumed /\ ~closed /\ ~cached /\ alive
  BY Zenon DEF Body!Init
<1>3. /\ content = << >> /\ reader = [r \in Readers |-> "new"] /\ got = [r \in Readers |-> << >>]
      /\ mode \in [Readers -> {"read", "raw"}] /\ closer = "idle" /\ after = {}
  BY DEF Body!Init
<1>4. Body!TypeOK
  BY <1>1, <1>2, <1>3 DEF Body!TypeOK, Body!Over
<1>5. Body!Claimed /\ Body!FromTheStart /\ Body!EndsAtTheEnd /\ Body!CloseCancels
  BY <1>1, <1>2, <1>3
  DEF Body!Claimed, Body!FromTheStart, Body!EndsAtTheEnd, Body!CloseCancels, Body!Reading,
      Body!IsPrefix
<1>6. QED
  BY <1>4, <1>5 DEF Body!IInv

\* A reader's step.
LEMMA ReaderKeeps ==
    ASSUME Body!IInv, NEW r \in Readers,
           Body!Begin(r) \/ Body!ReadCached(r) \/ Body!PullChunk(r) \/ Body!PullNone(r)
             \/ Body!PullFails(r) \/ Body!Resume(r) \/ Body!LeaveIterator(r)
             \/ Body!EndIteration(r) \/ Body!Finish(r)
    PROVE  Body!IInv'
<1> USE SharedAssumption
    DEF Body!IInv, Body!TypeOK, Body!Claimed, Body!FromTheStart, Body!EndsAtTheEnd,
        Body!CloseCancels, Body!Reading, Body!IsPrefix, Body!Over, Body!At, Body!Ask,
        Body!LengthAssumption
<1>1. CASE Body!Begin(r)
  <2>1. PICK place \in {"StreamConsumed", "StreamClosed", "pulling"} :
          /\ reader' = [reader EXCEPT ![r] = place]
          /\ \/ place = "pulling" /\ ~consumed /\ ~closed /\ consumed' = TRUE
             \/ place # "pulling" /\ consumed' = consumed
    BY <1>1 DEF Body!Begin
  <2>2. /\ reader[r] = "new"
        /\ UNCHANGED <<closed, cached, content, mode, got, wire, alive, cancelled, closer>>
    BY <1>1 DEF Body!Begin
  <2>3. /\ consumed' \in BOOLEAN /\ (consumed => consumed')
    BY <2>1, Zenon
  <2>4. after' \subseteq Readers /\ (reader'[r] = "pulling" => consumed')
    BY <1>1, <2>1 DEF Body!Begin
  <2>5. Body!TypeOK'
    BY <2>1, <2>2, <2>3, <2>4
  <2>6. Body!Claimed'
    BY <2>1, <2>2, <2>3, <2>4
  <2>7. Body!FromTheStart'
    BY <2>1, <2>2
  <2>8. Body!EndsAtTheEnd'
    BY <2>1, <2>2, <2>3
  <2>9. Body!CloseCancels'
    BY <2>2
  <2> HIDE DEF Body!TypeOK, Body!Claimed, Body!FromTheStart, Body!EndsAtTheEnd,
               Body!CloseCancels
  <2>10. QED
    BY <2>5, <2>6, <2>7, <2>8, <2>9
<1>2. CASE Body!ReadCached(r)
  BY <1>2 DEF Body!ReadCached
<1>3. CASE Body!PullChunk(r)
  <2>1. /\ reader[r] = "pulling" /\ alive /\ ~cancelled /\ wire < Length
        /\ wire' = wire + 1
        /\ got' = [got EXCEPT ![r] = Append(got[r], wire + 1)]
        /\ UNCHANGED <<consumed, closed, cached, content, mode, alive, cancelled, closer>>
    BY <1>3 DEF Body!PullChunk
  <2>2. /\ reader' = [reader EXCEPT ![r] = reader'[r]]
        /\ reader'[r] \in {"between", "pulling"}
    BY <1>3 DEF Body!PullChunk
  <2>3. after' \subseteq Readers
    BY <1>3 DEF Body!PullChunk
  <2>4. /\ Length \in Nat /\ wire \in Nat /\ wire + 1 \in 1 .. Length
        /\ got[r] \in Seq(1 .. Length) /\ Len(got[r]) = wire
    BY <2>1
  <2>5. /\ got'[r] = Append(got[r], wire + 1)
        /\ \A q \in Readers : q # r => got'[q] = got[q] /\ reader'[q] = reader[q]
    BY <2>1, <2>2
  <2>6. /\ got'[r] \in Seq(1 .. Length) /\ Len(got'[r]) = wire + 1
        /\ \A i \in 1 .. wire : got'[r][i] = got[r][i]
        /\ got'[r][wire + 1] = wire + 1
    BY <2>4, <2>5, Appended
  <2>7. \A i \in 1 .. wire : got[r][i] = i
    BY <2>4
  <2>8. \A i \in 1 .. wire + 1 : got'[r][i] = i
    <3>1. SUFFICES ASSUME NEW i \in 1 .. wire + 1 PROVE got'[r][i] = i
      OBVIOUS
    <3>2. CASE i = wire + 1
      BY ONLY <2>6, <3>2
    <3>3. CASE i # wire + 1
      <4>1. i \in 1 .. wire
        BY ONLY <2>4, <3>3
      <4>2. QED
        BY ONLY <2>6, <2>7, <4>1
    <3>4. QED
      BY ONLY <3>2, <3>3
  <2>9. got' \in [Readers -> Seq(1 .. Length)]
    BY <2>1, <2>4, <2>5, <2>6
  <2>10. Body!TypeOK'
    <3>1. wire' \in 0 .. Length
      BY <2>1, <2>4
    <3>2. reader' \in [Readers -> {"new", "pulling", "between", "flushed", "closing"}
                                   \union Body!Over]
      BY <2>2
    <3>3. QED
      BY <2>1, <2>3, <2>9, <3>1, <3>2
  <2>11. Body!Claimed'
    BY <2>1, <2>2, <2>5
  <2>12. Body!FromTheStart'
    <3>1. Body!IsPrefix(content, Len(content))'
      BY <2>1
    <3>2. ASSUME NEW q \in Readers
          PROVE  /\ Body!IsPrefix(got[q], Len(got[q]))'
                 /\ reader'[q] = "new" => got'[q] = << >>
                 /\ reader'[q] \in Body!Reading => Len(got'[q]) = wire'
      <4>1. CASE q = r
        BY <2>1, <2>2, <2>6, <2>8, <4>1
      <4>2. CASE q # r
        BY <2>1, <2>5, <4>2
      <4>3. QED
        BY <4>1, <4>2
    <3>3. QED
      BY <3>1, <3>2
  <2>13. Body!EndsAtTheEnd'
    BY <2>1, <2>2, <2>5
  <2>14. Body!CloseCancels'
    BY <2>1
  <2> HIDE DEF Body!TypeOK, Body!Claimed, Body!FromTheStart, Body!EndsAtTheEnd,
               Body!CloseCancels
  <2>15. QED
    BY <2>10, <2>11, <2>12, <2>13, <2>14
<1>4. CASE Body!PullNone(r)
  BY <1>4 DEF Body!PullNone
<1>5. CASE Body!PullFails(r)
  BY <1>5 DEF Body!PullFails
<1>6. CASE Body!Resume(r)
  BY <1>6 DEF Body!Resume
<1>7. CASE Body!LeaveIterator(r)
  BY <1>7 DEF Body!LeaveIterator
<1>8. CASE Body!EndIteration(r)
  BY <1>8 DEF Body!EndIteration
<1>9. CASE Body!Finish(r)
  <2>1. /\ reader[r] = "closing" /\ reader' = [reader EXCEPT ![r] = "done"]
        /\ UNCHANGED <<consumed, closed, mode, got, wire, alive, cancelled, closer, after>>
    BY <1>9 DEF Body!Finish
  <2>2. cached' \in BOOLEAN
    BY <1>9, Zenon DEF Body!Finish
  <2>3. \/ content' = got[r]
        \/ content' = content /\ (cached' => cached)
    BY <1>9 DEF Body!Finish
  <2>4. Body!TypeOK'
    BY <2>1, <2>2, <2>3
  <2>5. Body!Claimed' /\ Body!CloseCancels'
    BY <2>1
  <2>6. Body!FromTheStart'
    BY <2>1, <2>3
  <2>7. Body!EndsAtTheEnd'
    BY <2>1, <2>3
  <2> HIDE DEF Body!TypeOK, Body!Claimed, Body!FromTheStart, Body!EndsAtTheEnd,
               Body!CloseCancels
  <2>8. QED
    BY <2>4, <2>5, <2>6, <2>7
<1>10. QED
  BY <1>1, <1>2, <1>3, <1>4, <1>5, <1>6, <1>7, <1>8, <1>9, Zenon

\* close() from elsewhere takes the stream away, and gives nothing.
LEMMA BodyNext == Body!IInv /\ [Body!Next]_body => Body!IInv'
<1> SUFFICES ASSUME Body!IInv, [Body!Next]_body PROVE Body!IInv'
  OBVIOUS
<1> USE DEF Body!IInv, Body!TypeOK, Body!Claimed, Body!FromTheStart, Body!EndsAtTheEnd,
            Body!CloseCancels, Body!Reading, Body!IsPrefix, Body!Over
<1>1. CASE Body!Close
  BY <1>1 DEF Body!Close
<1>2. CASE Body!CloseDrops
  BY <1>2 DEF Body!CloseDrops
<1>3. CASE UNCHANGED body
  BY <1>3 DEF body
<1>4. QED
  BY <1>1, <1>2, <1>3, ReaderKeeps, Zenon DEF Body!Next

LEMMA BodyInOrder == Body!IInv => Body!OneReaderInOrder /\ Body!WholeUnlessClosed
<1> SUFFICES ASSUME Body!IInv PROVE Body!OneReaderInOrder /\ Body!WholeUnlessClosed
  OBVIOUS
<1>1. ASSUME NEW r \in Readers
      PROVE  /\ got[r] = SubSeq(Body!Whole, 1, Len(got[r]))
             /\ Len(got[r]) = Length => got[r] = Body!Whole
  <2>1. got[r] \in Seq(1 .. Length) /\ Body!IsPrefix(got[r], Len(got[r]))
    BY DEF Body!IInv, Body!TypeOK, Body!FromTheStart
  <2>2. QED
    BY <2>1, PrefixIsPart
<1>2. Len(content) = Length => content = Body!Whole
  <2>1. content \in Seq(1 .. Length) /\ Body!IsPrefix(content, Len(content))
    BY DEF Body!IInv, Body!TypeOK, Body!FromTheStart
  <2>2. QED
    BY <2>1, PrefixIsPart
<1>3. \A r \in Readers : reader[r] \notin Body!Over \union {"new"} => reader[r] \in Body!Reading
  BY DEF Body!IInv, Body!TypeOK, Body!Reading
<1>4. Body!OneReaderInOrder
  BY <1>1, <1>3 DEF Body!IInv, Body!Claimed, Body!OneReaderInOrder
<1>5. Body!WholeUnlessClosed
  BY <1>1, <1>2 DEF Body!IInv, Body!EndsAtTheEnd, Body!WholeUnlessClosed
<1>6. QED
  BY <1>4, <1>5

\* Nothing is taken off the wire once it is closed.
LEMMA BodyStepDry ==
    ASSUME Body!IInv, Body!Next, closer = "done"
    PROVE  wire' = wire
<1>1. cancelled
  BY DEF Body!IInv, Body!CloseCancels
<1>2. QED
  BY <1>1
  DEF Body!Next, Body!Begin, Body!ReadCached, Body!PullChunk, Body!PullNone, Body!PullFails,
      Body!Resume, Body!LeaveIterator, Body!EndIteration, Body!Finish, Body!Close,
      Body!CloseDrops

-----------------------------------------------------------------------------
(* Digest authentication                                                    *)

LEMMA DigestInit == Digest!Init => Digest!IInv
<1> SUFFICES ASSUME Digest!Init PROVE Digest!IInv
  OBVIOUS
<1>1. /\ lastChallenge = 0 /\ nonceCount = 1 /\ issued = 0
      /\ flow = [f \in Flows |-> "start"] /\ challenge = [f \in Flows |-> 0]
      /\ nc = [f \in Flows |-> 0] /\ hops = [f \in Flows |-> 0]
      /\ answered = {} /\ used = {}
  BY DEF Digest!Init, Digest!NoChallenge
<1>2. Digest!TypeOK
  BY <1>1, SharedAssumption DEF Digest!TypeOK, Digest!Switching, Digest!DigestAssumption
<1>3. Digest!OneRuns /\ Digest!OnTheLast /\ Digest!Counted
  BY <1>1 DEF Digest!OneRuns, Digest!OnTheLast, Digest!Counted, Digest!Switching
<1>4. Digest!HandedOut /\ Digest!OnlyRedirectsRepeat
  BY <1>1 DEF Digest!HandedOut, Digest!OnlyRedirectsRepeat, Digest!NoChallenge
<1>5. QED
  BY <1>2, <1>3, <1>4 DEF Digest!IInv

\* What the history may record is a header.
LEMMA CarriedType ==
    ASSUME Digest!TypeOK, NEW f \in Flows, challenge[f] # Digest!NoChallenge,
           NEW hop \in 0 .. MaxHops
    PROVE  Digest!Carried(f, hop) \in Digest!Headers
<1>1. challenge[f] \in 1 .. issued /\ nc[f] \in Nat
  BY SharedAssumption DEF Digest!TypeOK, Digest!NoChallenge, Digest!DigestAssumption
<1>2. (f \in answered) \in BOOLEAN
  <2>1. (f \in answered) = TRUE \/ (f \in answered) = FALSE
    OBVIOUS
  <2>2. QED
    BY <2>1, Zenon
<1>3. QED
  BY <1>1, <1>2 DEF Digest!Carried, Digest!Headers

\* A step of one flow that gives nothing to the transport, while no other is in
\* the middle of one.
LEMMA DigestStep ==
    ASSUME ~Threaded, Digest!IInv, NEW f \in Flows,
           Digest!Start(f) \/ Digest!End(f) \/ Digest!Challenged(f) \/ Digest!Reset(f)
             \/ Digest!Answer(f) \/ Digest!ReadCount(f) \/ Digest!Raise(f)
             \/ Digest!Stripped(f)
    PROVE  Digest!IInv'
<1> USE SharedAssumption
    DEF Digest!IInv, Digest!OneRuns, Digest!OnTheLast, Digest!Switching, Digest!Goto,
        Digest!Runs, Digest!NoChallenge, Digest!DigestAssumption
<1>1. used' = used /\ hops' = hops /\ Digest!OnlyRedirectsRepeat'
  BY DEF Digest!OnlyRedirectsRepeat, Digest!Start, Digest!End, Digest!Challenged, Digest!Reset,
         Digest!Answer, Digest!ReadCount, Digest!Raise, Digest!Stripped
<1>2. Digest!TypeOK'
  <2>1. used \subseteq Digest!Headers'
    BY DEF Digest!TypeOK, Digest!Headers, Digest!Start, Digest!End, Digest!Challenged, Digest!Reset,
         Digest!Answer, Digest!ReadCount, Digest!Raise, Digest!Stripped
  <2>2. QED
    BY <1>1, <2>1 DEF Digest!TypeOK, Digest!Start, Digest!End, Digest!Challenged, Digest!Reset,
         Digest!Answer, Digest!ReadCount, Digest!Raise, Digest!Stripped
<1>3. CASE Digest!Start(f)
  <2>1. (Digest!OneRuns /\ Digest!OnTheLast)'
    BY <1>3 DEF Digest!Start, Digest!TypeOK
  <2>2. Digest!Counted'
    BY <1>3 DEF Digest!Start, Digest!TypeOK, Digest!Headers, Digest!Counted
  <2>3. Digest!HandedOut'
    BY <1>3 DEF Digest!Start, Digest!TypeOK, Digest!HandedOut, Digest!Carried
  <2>4. QED
    BY <1>1, <1>2, <2>1, <2>2, <2>3
<1>4. CASE Digest!End(f)
  <2>1. (Digest!OneRuns /\ Digest!OnTheLast)'
    BY <1>4 DEF Digest!End, Digest!TypeOK
  <2>2. Digest!Counted'
    BY <1>4 DEF Digest!End, Digest!TypeOK, Digest!Headers, Digest!Counted
  <2>3. Digest!HandedOut'
    BY <1>4 DEF Digest!End, Digest!TypeOK, Digest!HandedOut, Digest!Carried
  <2>4. QED
    BY <1>1, <1>2, <2>1, <2>2, <2>3
<1>5. CASE Digest!Challenged(f)
  <2>1. (Digest!OneRuns /\ Digest!OnTheLast)'
    BY <1>5 DEF Digest!Challenged, Digest!TypeOK
  <2>2. Digest!Counted'
    BY <1>5 DEF Digest!Challenged, Digest!TypeOK, Digest!Headers, Digest!Counted
  <2>3. Digest!HandedOut'
    BY <1>5 DEF Digest!Challenged, Digest!TypeOK, Digest!HandedOut, Digest!Carried
  <2>4. QED
    BY <1>1, <1>2, <2>1, <2>2, <2>3
<1>6. CASE Digest!Reset(f)
  <2>1. (Digest!OneRuns /\ Digest!OnTheLast)'
    BY <1>6 DEF Digest!Reset, Digest!TypeOK
  <2>2. Digest!Counted'
    BY <1>6 DEF Digest!Reset, Digest!TypeOK, Digest!Headers, Digest!Counted
  <2>3. Digest!HandedOut'
    BY <1>6 DEF Digest!Reset, Digest!TypeOK, Digest!HandedOut, Digest!Carried
  <2>4. QED
    BY <1>1, <1>2, <2>1, <2>2, <2>3
<1>7. CASE Digest!Answer(f)
  <2>1. (Digest!OneRuns /\ Digest!OnTheLast)'
    BY <1>7 DEF Digest!Answer, Digest!TypeOK
  <2>2. Digest!Counted'
    BY <1>7 DEF Digest!Answer, Digest!TypeOK, Digest!Headers, Digest!Counted
  <2>3. Digest!HandedOut'
    BY <1>7 DEF Digest!Answer, Digest!TypeOK, Digest!HandedOut, Digest!Carried
  <2>4. QED
    BY <1>1, <1>2, <2>1, <2>2, <2>3
<1>8. CASE Digest!ReadCount(f)
  <2>1. (Digest!OneRuns /\ Digest!OnTheLast)'
    BY <1>8 DEF Digest!ReadCount, Digest!TypeOK
  <2>2. Digest!Counted'
    BY <1>8 DEF Digest!ReadCount, Digest!TypeOK, Digest!Headers, Digest!Counted
  <2>3. Digest!HandedOut'
    BY <1>8 DEF Digest!ReadCount, Digest!TypeOK, Digest!HandedOut, Digest!Carried
  <2>4. QED
    BY <1>1, <1>2, <2>1, <2>2, <2>3
<1>9. CASE Digest!Raise(f)
  <2>1. (Digest!OneRuns /\ Digest!OnTheLast)'
    BY <1>9 DEF Digest!Raise, Digest!TypeOK
  <2>2. Digest!Counted'
    BY <1>9 DEF Digest!Raise, Digest!TypeOK, Digest!Headers, Digest!Counted
  <2>3. Digest!HandedOut'
    BY <1>9 DEF Digest!Raise, Digest!TypeOK, Digest!HandedOut, Digest!Carried
  <2>4. QED
    BY <1>1, <1>2, <2>1, <2>2, <2>3
<1>10. CASE Digest!Stripped(f)
  <2>1. (Digest!OneRuns /\ Digest!OnTheLast)'
    BY <1>10 DEF Digest!Stripped, Digest!TypeOK
  <2>2. Digest!Counted'
    BY <1>10 DEF Digest!Stripped, Digest!TypeOK, Digest!Headers, Digest!Counted
  <2>3. Digest!HandedOut'
    BY <1>10 DEF Digest!Stripped, Digest!TypeOK, Digest!HandedOut, Digest!Carried
  <2>4. QED
    BY <1>1, <1>2, <2>1, <2>2, <2>3
<1>11. QED
  BY <1>3, <1>4, <1>5, <1>6, <1>7, <1>8, <1>9, <1>10, Zenon

\* The count a flow read is that of no header before it.
LEMMA DigestSend ==
    ASSUME ~Threaded, Digest!IInv, NEW f \in Flows, Digest!Send(f)
    PROVE  Digest!IInv'
<1> DEFINE header == Digest!Carried(f, 0)
<1> USE SharedAssumption DEF Digest!IInv
<1>1. /\ flow[f] = "built" /\ flow' = [flow EXCEPT ![f] = "sent"]
      /\ hops' = [hops EXCEPT ![f] = 0] /\ used' = used \union {header}
      /\ nonceCount' = nonceCount + 1
      /\ UNCHANGED <<lastChallenge, issued, challenge, nc, answered>>
      /\ challenge[f] \notin Unusable
  BY DEF Digest!Send, Digest!Goto
<1>2. /\ challenge[f] = lastChallenge /\ lastChallenge # Digest!NoChallenge
      /\ nc[f] = nonceCount
  BY <1>1 DEF Digest!OnTheLast, Digest!Switching
<1>3. \A g \in Flows \ {f} : flow[g] \in Digest!Switching
  BY DEF Digest!Send, Digest!Runs
<1>4. header \in Digest!Headers
  BY <1>2, CarriedType DEF Digest!DigestAssumption
<1>5. Digest!TypeOK'
  BY <1>1, <1>4 DEF Digest!TypeOK, Digest!Headers, Digest!Switching, Digest!DigestAssumption
<1>6. (Digest!OneRuns /\ Digest!OnTheLast)'
  BY <1>1, <1>3 DEF Digest!OneRuns, Digest!OnTheLast, Digest!Switching, Digest!TypeOK,
                    Digest!NoChallenge
<1>7. ~ \E g \in Flows : flow[g] = "challenged"
  BY <1>1, <1>3 DEF Digest!Switching
<1>8. /\ \A k \in 1 .. nonceCount - 1 :
            \E h \in used : h.nonce = lastChallenge /\ h.nc = k
      /\ \A h \in used : h.nonce = lastChallenge => h.nc \in 1 .. nonceCount - 1
  BY <1>1, <1>2, <1>7 DEF Digest!Counted
<1>9. header.nonce = lastChallenge /\ header.nc = nonceCount /\ nonceCount \in Nat \ {0}
  BY <1>2 DEF Digest!Carried, Digest!TypeOK
<1>10. Digest!Counted'
  <2>1. ~ \E g \in Flows : flow'[g] = "challenged"
    BY <1>1, <1>7 DEF Digest!TypeOK
  <2>2. \A h \in used' : h.nonce = lastChallenge => h.nc \in 1 .. nonceCount
    BY <1>1, <1>8, <1>9
  <2>3. ASSUME NEW k \in 1 .. nonceCount
        PROVE  \E h \in used' : h.nonce = lastChallenge /\ h.nc = k
    <3>1. CASE k = nonceCount
      BY <1>1, <1>9, <3>1
    <3>2. CASE k # nonceCount
      BY <1>1, <1>8, <1>9, <3>2
    <3>3. QED
      BY <3>1, <3>2
  <2>4. nonceCount' - 1 = nonceCount
    BY <1>1, <1>9
  <2>5. QED
    BY <1>1, <2>1, <2>2, <2>3, <2>4 DEF Digest!Counted
<1>11. Digest!HandedOut'
  <2>1. \A g \in Flows : (Digest!Carried(g, 0))' = Digest!Carried(g, 0)
    BY <1>1 DEF Digest!Carried
  <2>2. QED
    BY <1>1, <2>1 DEF Digest!HandedOut, Digest!TypeOK
<1>12. Digest!OnlyRedirectsRepeat'
  <2>1. \A h \in used : ~(h.nonce = header.nonce /\ h.nc = header.nc)
    BY <1>8, <1>9
  <2>2. QED
    BY <1>1, <2>1 DEF Digest!OnlyRedirectsRepeat
<1>13. QED
  BY <1>5, <1>6, <1>10, <1>11, <1>12

\* What a redirect repeats is the flow's own.
LEMMA DigestRedirected ==
    ASSUME ~Threaded, Digest!IInv, NEW f \in Flows, Digest!Redirected(f)
    PROVE  Digest!IInv'
<1> DEFINE header == Digest!Carried(f, hops[f] + 1)
           first == Digest!Carried(f, 0)
<1> USE SharedAssumption DEF Digest!IInv
<1>1. /\ flow[f] = "sent" /\ challenge[f] # Digest!NoChallenge /\ hops[f] < MaxHops
      /\ hops' = [hops EXCEPT ![f] = @ + 1]
      /\ UNCHANGED <<lastChallenge, nonceCount, issued, flow, challenge, nc, answered>>
  BY DEF Digest!Redirected
<1>2. hops[f] + 1 \in 0 .. MaxHops /\ hops'[f] = hops[f] + 1
  BY <1>1 DEF Digest!TypeOK, Digest!DigestAssumption
<1>3. used' = used \union {header}
  BY <1>2 DEF Digest!Redirected
<1>4. header \in Digest!Headers
  BY <1>1, <1>2, CarriedType
<1>5. first \in used
  BY <1>1 DEF Digest!HandedOut
<1>6. /\ header.nonce = first.nonce /\ header.nc = first.nc
      /\ header.flow = first.flow /\ header.answer = first.answer
  BY DEF Digest!Carried
<1>7. Digest!TypeOK'
  BY <1>1, <1>2, <1>3, <1>4 DEF Digest!TypeOK, Digest!Headers
<1>8. (Digest!OneRuns /\ Digest!OnTheLast)'
  BY <1>1 DEF Digest!OneRuns, Digest!OnTheLast
<1> HIDE DEF header, first
<1>9. Digest!Counted'
  BY <1>1, <1>3, <1>5, <1>6 DEF Digest!Counted
<1>10. Digest!HandedOut'
  <2>1. \A g \in Flows : (Digest!Carried(g, 0))' = Digest!Carried(g, 0)
    BY <1>1 DEF Digest!Carried
  <2>2. QED
    BY <1>1, <1>3, <2>1 DEF Digest!HandedOut
<1>11. Digest!OnlyRedirectsRepeat'
  BY <1>3, <1>5, <1>6 DEF Digest!OnlyRedirectsRepeat
<1>12. QED
  BY <1>7, <1>8, <1>9, <1>10, <1>11

LEMMA DigestNext == ~Threaded /\ Digest!IInv /\ [Digest!Next]_digest => Digest!IInv'
<1> SUFFICES ASSUME ~Threaded, Digest!IInv, [Digest!Next]_digest PROVE Digest!IInv'
  OBVIOUS
<1>1. CASE UNCHANGED digest
  BY <1>1
  DEF digest, Digest!IInv, Digest!TypeOK, Digest!Headers, Digest!OneRuns, Digest!OnTheLast,
      Digest!Counted, Digest!HandedOut, Digest!Carried, Digest!OnlyRedirectsRepeat
<1>2. CASE Digest!Next
  BY <1>2, DigestStep, DigestSend, DigestRedirected, Zenon DEF Digest!Next
<1>3. QED
  BY <1>1, <1>2

LEMMA DigestCounts == Digest!IInv => Digest!OnlyRedirectsRepeat /\ Digest!NoGap
<1> SUFFICES ASSUME Digest!IInv PROVE Digest!NoGap
  BY DEF Digest!IInv
<1> SUFFICES ASSUME lastChallenge \notin Unusable, \A f \in Flows : flow[f] \in Digest!Switching
             PROVE  Digest!Counts(lastChallenge) = 1 .. nonceCount - 1
  BY DEF Digest!NoGap
<1>1. ~ \E f \in Flows : flow[f] = "challenged"
  BY DEF Digest!Switching
<1>2. /\ \A k \in 1 .. nonceCount - 1 :
            \E header \in used : header.nonce = lastChallenge /\ header.nc = k
      /\ \A header \in used :
            header.nonce = lastChallenge => header.nc \in 1 .. nonceCount - 1
  BY <1>1 DEF Digest!IInv, Digest!Counted
<1>3. QED
  BY <1>2 DEF Digest!Counts

-----------------------------------------------------------------------------
(* All of them                                                              *)

\* Every object keeps its invariant; a DigestAuth that threads share does not.
SharedInv ==
    /\ Body!IInv /\ Life!IInv /\ Asgi!IInv /\ Wsgi!IInv
    /\ ~Threaded => Digest!IInv

LEMMA InitSharedInv == Init => SharedInv
BY BodyInit, LifeInit, AsgiInit, WsgiInit, DigestInit DEF Init, SharedInv

LEMMA NextSharedInv ==
    SharedInv /\ [Next]_<<object, body, client, digest, asgi, wsgiVars>> => SharedInv'
<1> SUFFICES ASSUME SharedInv, [Next]_<<object, body, client, digest, asgi, wsgiVars>>
             PROVE  SharedInv'
  OBVIOUS
<1>1. Threaded' = Threaded
  OBVIOUS
<1>2. /\ [Body!Next]_body /\ [Life!Next]_client /\ [Digest!Next]_digest
      /\ [Asgi!Next]_asgi /\ [Wsgi!Next]_wsgiVars
  BY Zenon DEF Next
<1>3. QED
  BY <1>1, <1>2, BodyNext, LifeNext, DigestNext, AsgiNext, WsgiNext, Zenon DEF SharedInv

\* What each object relies on holds in every state.
THEOREM SharedInvariance == Spec => []SharedInv
BY InitSharedInv, NextSharedInv, PTL DEF Spec

\* The variables of the objects have their types, those of a DigestAuth if only
\* tasks share it.
THEOREM TypesCorrect ==
    Spec => [](/\ Body!TypeOK /\ Life!TypeOK /\ Asgi!TypeOK /\ Wsgi!TypeOK
               /\ ~Threaded => Digest!TypeOK)
<1>1. SharedInv => /\ Body!TypeOK /\ Life!TypeOK /\ Asgi!TypeOK /\ Wsgi!TypeOK
                   /\ ~Threaded => Digest!TypeOK
  BY DEF SharedInv, Body!IInv, Life!IInv, Asgi!IInv, Wsgi!IInv, Digest!IInv
<1>2. QED
  BY <1>1, SharedInvariance, PTL

\* One reader at a time is at the stream of a response, and every reader is
\* given its chunks from the start, in order, without gaps (Response.iter_raw).
THEOREM BodyReadInOrder == Spec => []OneReaderInOrder
<1>1. SharedInv => OneReaderInOrder
  BY BodyInOrder DEF SharedInv, OneReaderInOrder
<1>2. QED
  BY <1>1, SharedInvariance, PTL

\* A read or an iteration that ends without an exception has seen the whole
\* body, unless somebody has called close() (Response.read, iter_raw).
THEOREM BodyReadWhole == Spec => []WholeUnlessClosed
<1>1. SharedInv => WholeUnlessClosed
  BY BodyInOrder DEF SharedInv, WholeUnlessClosed
<1>2. QED
  BY <1>1, SharedInvariance, PTL

\* Once close() has returned, nothing is taken off the wire any more
\* (Response.close, NativeResponse.close).
THEOREM ClosedBodyIsDry == Spec => DryAfterClose
<1> DEFINE Dry == closer = "done" => wire' = wire
           all == <<object, body, client, digest, asgi, wsgiVars>>
<1>1. SharedInv /\ [Next]_all => [Dry]_(Body!vars)
  <2> SUFFICES ASSUME SharedInv, [Next]_all, closer = "done" PROVE wire' = wire
    BY Zenon
  <2>1. CASE UNCHANGED all
    BY <2>1 DEF body
  <2>2. CASE Next
    <3>1. Body!Next \/ UNCHANGED body
      BY <2>2, Zenon DEF Next
    <3>2. QED
      BY <3>1, BodyStepDry DEF SharedInv, body
  <2>3. QED
    BY <2>1, <2>2
<1>2. QED
  BY <1>1, SharedInvariance, PTL DEF Spec, DryAfterClose, Body!DryAfterClose

\* No request that begins after a close() or a with-block has run through
\* reaches a transport (ClientState, Client.close).
THEOREM NoRequestAfterClose == Spec => []NoLateRequest
<1>1. SharedInv => NoLateRequest
  BY DEF SharedInv, Life!IInv, NoLateRequest
<1>2. QED
  BY <1>1, SharedInvariance, PTL

\* The requests of the tasks that share a DigestAuth leave no nonce count out,
\* and repeat one only in a redirect of the same request (DigestAuth._nonce_count,
\* _redirect_headers).  Threads may repeat one.
THEOREM NoncesCounted == Spec => [](~Threaded => NonceCountExact)
<1>1. SharedInv => (~Threaded => NonceCountExact)
  BY DigestCounts DEF SharedInv, NonceCountExact
<1>2. QED
  BY <1>1, SharedInvariance, PTL

\* An application is given the parts of the request's body once, in order, then
\* its end, then disconnections (ASGITransport's receive()).
THEOREM AppAskedInOrder == Spec => []RequestInOrder
<1>1. SharedInv => RequestInOrder
  BY AsgiRequest DEF SharedInv, RequestInOrder
<1>2. QED
  BY <1>1, SharedInvariance, PTL

\* The response of an in-process transport is what its application has sent,
\* whole, with the status it had when it began (asgi.py, wsgi.py).
THEOREM AppResponseKept == Spec => []ResponseIsTheApps
<1>1. SharedInv => ResponseIsTheApps
  BY AsgiResponse, WsgiResponse DEF SharedInv, ResponseIsTheApps
<1>2. QED
  BY <1>1, SharedInvariance, PTL
===============================================================================
