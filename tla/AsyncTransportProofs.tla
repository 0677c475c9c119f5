-------------------------- MODULE AsyncTransportProofs --------------------------
(***************************************************************************)
(* Proofs about AsyncTransport: types, that the body is at rest when it is *)
(* closed, and that a response that is returned is the caller's, unharmed  *)
(* and not cancelled, for any number of connection retries.  Whether a     *)
(* call ends rests on fairness and is model-checked only.                  *)
(***************************************************************************)
EXTENDS AsyncTransport, TLAPS

LEMMA InitIInv == Init => IInv
<1> SUFFICES ASSUME Init PROVE IInv
  OBVIOUS
<1>1. attempt \in 0 .. Retries
  BY RetriesAssumption DEF Init
<1>2. TypeOK
  BY <1>1, Zenon DEF Init, TypeOK
<1>3. Ordered
  BY DEF Init, Ordered, PortalFollowsTask, StreamAtRest, Answered
<1>4. QED
  BY <1>2, <1>3 DEF IInv

\* A step leaves every variable its type.
LEMMA TypeKeeps == TypeOK /\ [Next]_vars => TypeOK'
<1> SUFFICES ASSUME TypeOK, [Next]_vars PROVE TypeOK'
  OBVIOUS
<1> USE RetriesAssumption DEF TypeOK, Results, upload
<1>1. CASE Start
  BY <1>1 DEF Start
<1>2. CASE GetPermit
  BY <1>2 DEF GetPermit
<1>3. CASE ConnectFails
  BY <1>3 DEF ConnectFails
<1>4. CASE Responds
  BY <1>4 DEF Responds
<1>5. CASE SendFails
  BY <1>5 DEF SendFails
<1>6. CASE Discard
  BY <1>6 DEF Discard
<1>7. CASE Pull
  <2>1. /\ puller' \in {puller, "asking"} /\ (broken' = broken \/ broken' = TRUE)
        /\ UNCHANGED <<task, attempt, worker, chunk, stream, portal, signal, stop, failure,
                       native>>
    BY <1>7, Zenon DEF Pull
  <2>2. broken' \in BOOLEAN
    BY <2>1, Zenon
  <2>3. QED
    BY <2>1, <2>2
<1>8. CASE ScheduleChunk
  <2>1. broken' = broken \/ broken' = (broken \/ ~stop)
    BY <1>8, Zenon DEF ScheduleChunk
  <2>2. broken' \in BOOLEAN
    BY <2>1, Zenon
  <2>3. QED
    BY <1>8, <2>2 DEF ScheduleChunk
<1>9. CASE ChunkReturns
  <2>1. stream' \in {"suspended", "ended"} /\ (broken' = broken \/ broken' = (broken \/ ~stop))
    BY <1>9 DEF ChunkReturns
  <2>2. broken' \in BOOLEAN
    BY <2>1, Zenon
  <2>3. QED
    BY <1>9, <2>1, <2>2 DEF ChunkReturns
<1>10. CASE ChunkCancelled
  BY <1>10 DEF ChunkCancelled
<1>11. CASE Delivered
  BY <1>11 DEF Delivered
<1>12. CASE Retry
  BY <1>12 DEF Retry
<1>13. CASE Fails
  BY <1>13 DEF Fails, Fail
<1>14. CASE Interrupt
  BY <1>14 DEF Interrupt, Fail
<1>15. CASE InterruptLeaving
  BY <1>15 DEF InterruptLeaving
<1>16. CASE LeavePortal
  BY <1>16 DEF LeavePortal
<1>17. CASE StreamClosed
  BY <1>17 DEF StreamClosed
<1>18. CASE Freed
  BY <1>18 DEF Freed
<1>19. CASE UNCHANGED vars
  BY <1>19 DEF vars
<1>20. QED
  BY <1>1, <1>2, <1>3, <1>4, <1>5, <1>6, <1>7, <1>8, <1>9, <1>10,
     <1>11, <1>12, <1>13, <1>14, <1>15, <1>16, <1>17, <1>18, <1>19, Zenon DEF Next

\* The worker thread decides whether there is an answer; the task has none yet,
\* or does not listen any more.
LEMMA WorkerKeeps ==
    ASSUME Ordered,
           Start \/ GetPermit \/ ConnectFails \/ Responds \/ SendFails \/ Discard
    PROVE  Ordered'
<1> USE DEF Ordered, PortalFollowsTask, StreamAtRest, Answered, Results, upload
<1>1. CASE Start
  BY <1>1 DEF Start
<1>2. CASE GetPermit
  BY <1>2 DEF GetPermit
<1>3. CASE ConnectFails
  BY <1>3 DEF ConnectFails
<1>4. CASE Responds
  BY <1>4 DEF Responds
<1>5. CASE SendFails
  BY <1>5 DEF SendFails
<1>6. CASE Discard
  BY <1>6 DEF Discard
<1>7. QED
  BY <1>1, <1>2, <1>3, <1>4, <1>5, <1>6, Zenon

\* The body is pulled only while the native call sends, is begun only before
\* the portal is left, and breaks only as long as nothing has stopped it.
LEMMA BodyKeeps ==
    ASSUME Ordered,
           Pull \/ ScheduleChunk \/ ChunkReturns \/ ChunkCancelled
    PROVE  Ordered'
<1> USE DEF Ordered, PortalFollowsTask, StreamAtRest, Answered, Results, upload
<1>1. CASE Pull
  BY <1>1 DEF Pull
<1>2. CASE ScheduleChunk
  BY <1>2 DEF ScheduleChunk
<1>3. CASE ChunkReturns
  <2>1. /\ portal' = portal /\ task' = task /\ worker' = worker /\ chunk' = "none"
        /\ signal' = signal /\ failure' = failure /\ native' = native /\ stop' = stop
    BY <1>3 DEF ChunkReturns
  <2>2. stop => (broken' <=> broken)
    BY <1>3, Zenon DEF ChunkReturns
  <2>3. QED
    BY <2>1, <2>2
<1>4. CASE ChunkCancelled
  BY <1>4 DEF ChunkCancelled
<1>5. QED
  BY <1>1, <1>2, <1>3, <1>4, Zenon

\* The task tries again, or leaves the portal and closes the body on every path.
LEMMA TaskKeeps ==
    ASSUME Ordered,
           Delivered \/ Retry \/ Fails \/ Interrupt \/ InterruptLeaving
             \/ LeavePortal \/ StreamClosed \/ Freed
    PROVE  Ordered'
<1> USE DEF Ordered, PortalFollowsTask, StreamAtRest, Answered, Results, upload
<1>1. CASE Delivered
  BY <1>1 DEF Delivered
<1>2. CASE Retry
  BY <1>2 DEF Retry
<1>3. CASE Fails
  BY <1>3 DEF Fails, Fail
<1>4. CASE Interrupt
  BY <1>4 DEF Interrupt, Fail
<1>5. CASE InterruptLeaving
  BY <1>5 DEF InterruptLeaving
<1>6. CASE LeavePortal
  BY <1>6 DEF LeavePortal
<1>7. CASE StreamClosed
  BY <1>7 DEF StreamClosed
<1>8. CASE Freed
  BY <1>8 DEF Freed
<1>9. QED
  BY <1>1, <1>2, <1>3, <1>4, <1>5, <1>6, <1>7, <1>8, Zenon

LEMMA NextIInv == IInv /\ [Next]_vars => IInv'
<1> SUFFICES ASSUME IInv, [Next]_vars PROVE IInv'
  OBVIOUS
<1>1. TypeOK'
  BY TypeKeeps DEF IInv
<1>2. CASE UNCHANGED vars
  <2>1. Ordered'
    BY <1>2 DEF vars, IInv, Ordered, PortalFollowsTask, StreamAtRest, Answered
  <2>2. QED
    BY <1>1, <2>1 DEF IInv
<1>3. CASE Next
  <2>1. Ordered'
    BY <1>3, WorkerKeeps, BodyKeeps, TaskKeeps, Zenon DEF Next, IInv
  <2>2. QED
    BY <1>1, <2>1 DEF IInv
<1>4. QED
  BY <1>2, <1>3

\* The invariant holds in every state of every call.
THEOREM Invariance == Spec => []IInv
BY InitIInv, NextIInv, PTL DEF Spec

\* The variables have their types.
THEOREM TypeCorrect == Spec => []TypeOK
<1>1. IInv => TypeOK
  BY DEF IInv
<1>2. QED
  BY <1>1, Invariance, PTL

\* stream.aclose() in the `finally` of handle_async_request never meets a
\* running __anext__, and none is started after it.
THEOREM BodyClosedAtRest == Spec => []StreamAtRest
<1>1. IInv => StreamAtRest
  BY DEF IInv, Ordered
<1>2. QED
  BY <1>1, Invariance, PTL

\* A response that handle_async_request returns is its caller's, was not
\* cancelled, and the end of its upload has not become an error.
THEOREM ResponseIsClean == Spec => []CleanResponse
<1>1. IInv => CleanResponse
  BY DEF IInv, Ordered, Answered, CleanResponse
<1>2. QED
  BY <1>1, Invariance, PTL
===============================================================================
