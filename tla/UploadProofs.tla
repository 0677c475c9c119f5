----------------------------- MODULE UploadProofs -----------------------------
(* Proofs about Upload for every number of chunks, of slices in a chunk and  *)
(* of ticks in the write timeout.                                            *)
EXTENDS Upload, TLAPS

-----------------------------------------------------------------------------
(* The invariant: TypeOK, Accounting, Stopping, Reporting and Timing         *)

\* A fresh request body, buffered or not, satisfies the invariant.
LEMMA InitIInv == Init => IInv
<1> SUFFICES ASSUME Init PROVE IInv
  OBVIOUS
<1> USE UploadAssumption DEF Init
<1>1. TypeOK
  <2>1. left \in 0 .. Items /\ pending \in 0 .. MaxSlices /\ taken \in Nat
    OBVIOUS
  <2>2. pulled \in Results /\ age \in 0 .. WriteTimeout /\ elapsed \in 0 .. WriteTimeout
    BY DEF Results
  <2>3. /\ buffered \in BOOLEAN /\ seen \in BOOLEAN /\ still \in BOOLEAN
        /\ away \in BOOLEAN
    BY Zenon
  <2>4. QED
    BY <2>1, <2>2, <2>3 DEF TypeOK
<1>2. Accounting /\ Stopping /\ Reporting /\ Timing
  BY DEF Accounting, Stopping, Reporting, Timing, News, Closed, Finished
<1>3. QED
  BY <1>1, <1>2 DEF IInv

\* Steps of the body stream (src/upload.rs).
LEMMA BodyKeeps ==
    ASSUME IInv,
           Poll \/ Yield \/ StartPull \/ PullReturns \/ Receive \/ Break \/ DropBody
    PROVE  IInv'
<1> USE UploadAssumption DEF IInv, TypeOK, Results, Eof, Raise, Finished, Accounting, Stopping,
                            Reporting, Timing, News, Closed, Publish, channel, watcher, ending,
                            Late
<1>1. CASE Poll
  <2>1. seen' \in BOOLEAN
    BY <1>1, Zenon DEF Poll
  <2>2. (TypeOK /\ Accounting)'
    BY <1>1, <2>1 DEF Poll
  <2>3. (Stopping /\ Reporting)'
    BY <1>1 DEF Poll
  <2>4. Timing'
    BY <1>1 DEF Poll
  <2>5. QED
    BY <2>2, <2>3, <2>4
<1>2. CASE Yield
  BY <1>2 DEF Yield
<1>3. CASE StartPull
  BY <1>3 DEF StartPull
<1>4. CASE PullReturns
  BY <1>4 DEF PullReturns
<1>5. CASE Receive
  <2>1. seen' \in BOOLEAN
    BY <1>5, Zenon DEF Receive
  <2>2. (TypeOK /\ Accounting)'
    BY <1>5, <2>1 DEF Receive
  <2>3. (Stopping /\ Reporting)'
    BY <1>5 DEF Receive
  <2>4. Timing'
    BY <1>5 DEF Receive
  <2>5. QED
    BY <2>2, <2>3, <2>4
<1>6. CASE Break
  <2>1. seen' \in BOOLEAN
    BY <1>6, Zenon DEF Break
  <2>2. (TypeOK /\ Accounting)'
    BY <1>6, <2>1 DEF Break
  <2>3. (Stopping /\ Reporting)'
    BY <1>6 DEF Break
  <2>4. Timing'
    BY <1>6 DEF Break
  <2>5. QED
    BY <2>2, <2>3, <2>4
<1>7. CASE DropBody
  BY <1>7 DEF DropBody
<1>8. QED
  BY <1>1, <1>2, <1>3, <1>4, <1>5, <1>6, <1>7

\* Steps of the select, the watchdog and the end of send() (src/lib.rs).
LEMMA SendKeeps ==
    ASSUME IInv,
           \/ Cancelled \/ Headers \/ TransportFails
           \/ Tick \/ Observe \/ SeeClosed \/ Watchdog
           \/ StoreStop \/ TakeSlot
    PROVE  IInv'
<1> USE UploadAssumption DEF IInv, TypeOK, Results, Eof, Raise, Finished, Accounting, Stopping,
                            Reporting, Timing, News, Watching, Closed, body, channel, watcher,
                            ending, Pick
<1>1. CASE Cancelled
  BY <1>1 DEF Cancelled
<1>2. CASE Headers
  BY <1>2 DEF Headers
<1>3. CASE TransportFails
  BY <1>3 DEF TransportFails
<1>4. CASE Tick
  <2>1. (TypeOK /\ Accounting)'
    BY <1>4 DEF Tick
  <2>2. (Stopping /\ Reporting)'
    BY <1>4 DEF Tick
  <2>3. Timing'
    BY <1>4 DEF Tick
  <2>4. QED
    BY <2>1, <2>2, <2>3
<1>5. CASE Observe
  BY <1>5 DEF Observe
<1>6. CASE SeeClosed
  BY <1>6 DEF SeeClosed
<1>7. CASE Watchdog
  BY <1>7 DEF Watchdog
<1>8. CASE StoreStop
  BY <1>8 DEF StoreStop
<1>9. CASE TakeSlot
  BY <1>9 DEF TakeSlot
<1>10. QED
  BY <1>1, <1>2, <1>3, <1>4, <1>5, <1>6, <1>7, <1>8, <1>9

\* Every step keeps the invariant.
LEMMA NextIInv == IInv /\ [Next]_vars => IInv'
<1>1. ASSUME IInv, Next PROVE IInv'
  BY <1>1, BodyKeeps, SendKeeps DEF Next
<1>2. ASSUME IInv, UNCHANGED vars PROVE IInv'
  BY <1>2 DEF IInv, TypeOK, Accounting, Stopping, Reporting, Timing, News, Closed, vars
<1>3. QED
  BY <1>1, <1>2

\* The inductive invariant holds always.
THEOREM Invariance == Spec => []IInv
BY InitIInv, NextIInv, PTL DEF Spec

-----------------------------------------------------------------------------
(* What follows                                                             *)

\* Every variable keeps its type: the watchdog's clock never runs past its
\* timeout, nor the iterator past its chunks (src/upload.rs:29-149).
THEOREM TypeCorrect == Spec => []TypeOK
<1>1. IInv => TypeOK
  BY DEF IInv
<1>2. QED
  BY <1>1, Invariance, PTL

\* A body that ends without having been stopped is the whole body, and the
\* iterator's exception is raised as it is (src/upload.rs:78-108,
\* src/lib.rs:300-307).
THEOREM TruncationIsLoud == Spec => []NoSilentTruncation
<1>1. IInv => NoSilentTruncation
  BY DEF IInv, Accounting, Reporting, NoSilentTruncation
<1>2. QED
  BY <1>1, Invariance, PTL

\* After the response at most the pull or slice that had passed the test of
\* upload_stop still happens (src/upload.rs:48-56, 78-88).
THEOREM StopsPromptly == Spec => []StopIsPrompt
<1>1. IInv => StopIsPrompt
  BY DEF IInv, Stopping, StopIsPrompt
<1>2. QED
  BY <1>1, Invariance, PTL

\* A WriteTimeout is raised only for a body that stood still for the whole
\* timeout before it was finished, or because the watchdog had no turn between
\* news and the next tick of the clock (src/upload.rs:122-149).
THEOREM TimeoutOnlyWhenDue == Spec => TimeoutIsDue
<1> DEFINE Due == phase = "sending" /\ outcome' = "write_timeout" => still \/ away
<1>1. ASSUME IInv, Next PROVE Due
  <2>1. CASE Watchdog
    BY <1>1, <2>1 DEF Watchdog, IInv, Timing
  <2>2. CASE ~Watchdog
    BY <1>1, <2>2 DEF IInv, Reporting, Next, Pick, ending, Poll, Yield, StartPull, PullReturns,
                      Receive, Break, DropBody, Cancelled, Headers, TransportFails, Tick,
                      Observe, SeeClosed, StoreStop, TakeSlot
  <2>3. QED
    BY <2>1, <2>2
<1>2. IInv /\ [Next]_vars => [Due]_vars
  BY <1>1
<1>3. QED
  BY <1>2, Invariance, PTL DEF Spec, TimeoutIsDue

-----------------------------------------------------------------------------
(* Upload implements BodyDelivery                                           *)

\* A step of the body stream is a step of the delivery, or cannot be seen.
LEMMA BodyDelivers ==
    ASSUME IInv,
           Poll \/ Yield \/ StartPull \/ PullReturns \/ Receive \/ Break \/ DropBody
    PROVE  \/ Delivery!DeliveryNext
           \/ UNCHANGED <<left, taken, wire, Fate, slot, outcome, phase = "returned", still, away>>
<1>1. /\ outcome' = outcome /\ phase' = phase /\ still' = still /\ away' = away
      /\ left \in Nat /\ taken \in Nat /\ wire \in Nat /\ pending \in Nat /\ stop \in BOOLEAN
  BY UploadAssumption DEF IInv, TypeOK, watcher, ending, Poll, Yield, StartPull, PullReturns,
     Receive, Break, DropBody
<1>2. ASSUME producer \in {"resting", "pulled"}, producer' = "ended", slot' = slot,
             UNCHANGED <<left, taken, wire>>,
             stop \/ (left = 0 /\ wire = taken)
      PROVE  Delivery!DeliveryNext
  <2>1. Fate = "going" /\ slot' = slot
    BY <1>2 DEF Fate
  <2>2. CASE left = 0 /\ wire = taken
    <3>1. Fate' = "whole"
      BY <1>2, <2>2 DEF Fate
    <3>2. Delivery!Complete
      BY <1>1, <1>2, <2>1, <2>2, <3>1 DEF Delivery!Complete, Delivery!patience
    <3>3. QED
      BY <3>2 DEF Delivery!DeliveryNext
  <2>3. CASE ~(left = 0 /\ wire = taken)
    <3>1. Fate' = "curtailed"
      BY <1>2, <2>3 DEF Fate
    <3>2. outcome = "response"
      BY <1>2, <2>3 DEF IInv, Stopping, Reporting
    <3>3. Delivery!Curtail
      BY <1>1, <1>2, <2>1, <3>1, <3>2 DEF Delivery!Curtail, Delivery!patience
    <3>4. QED
      BY <3>3 DEF Delivery!DeliveryNext
  <2>4. QED
    BY <2>2, <2>3
<1>3. CASE Poll
  <2>1. UNCHANGED <<left, taken, wire, slot>> /\ producer = "resting"
    BY <1>3 DEF Poll, ending
  <2>2. CASE producer' = "ended"
    <3>1. stop \/ (left = 0 /\ wire = taken)
      BY <1>1, <1>3, <2>2 DEF Poll, IInv, Accounting
    <3>2. QED
      BY <1>2, <2>1, <2>2, <3>1
  <2>3. CASE producer' = "armed"
    BY <1>1, <2>1, <2>3 DEF Fate
  <2>4. QED
    BY <1>3, <2>2, <2>3 DEF Poll
<1>4. CASE Yield
  <2>1. /\ producer = "armed" /\ producer' = "resting" /\ wire' = wire + 1
        /\ UNCHANGED <<left, taken, slot>> /\ wire < taken
    BY <1>1, <1>4 DEF Yield, ending, IInv, Accounting
  <2>2. Fate = "going" /\ Fate' = "going"
    BY <2>1 DEF Fate
  <2>3. Delivery!SendSlice
    BY <1>1, <2>1, <2>2 DEF Delivery!SendSlice, Delivery!patience
  <2>4. QED
    BY <2>3 DEF Delivery!DeliveryNext
<1>5. CASE StartPull
  BY <1>1, <1>5 DEF StartPull, ending, Fate
<1>6. CASE PullReturns
  <2>1. /\ producer = "pulling" /\ producer' = "pulled" /\ UNCHANGED <<wire, slot>>
        /\ wire = taken
    BY <1>1, <1>6 DEF PullReturns, ending, IInv, Accounting
  <2>2. Fate = "going" /\ Fate' = "going"
    BY <2>1 DEF Fate
  <2>3. CASE UNCHANGED <<left, taken>>
    BY <1>1, <2>1, <2>2, <2>3
  <2>4. CASE left > 0 /\ left' = left - 1 /\ \E n \in 0 .. MaxSlices : taken' = taken + n
    <3>1. taken' \in Nat /\ taken' >= taken
      BY <1>1, <2>4, UploadAssumption
    <3>2. Delivery!Give
      BY <1>1, <2>1, <2>2, <2>4, <3>1 DEF Delivery!Give, Delivery!patience
    <3>3. QED
      BY <3>2 DEF Delivery!DeliveryNext
  <2>5. QED
    BY <1>6, <2>3, <2>4 DEF PullReturns
<1>7. CASE Receive
  <2>1. producer = "pulled" /\ UNCHANGED <<left, taken, wire>>
    BY <1>7 DEF Receive
  <2>2. CASE producer' = "ended"
    <3>1. slot' = slot /\ (stop \/ pulled = Eof)
      BY <1>7, <2>2 DEF Receive
    <3>2. stop \/ (left = 0 /\ wire = taken)
      BY <2>1, <3>1, UploadAssumption DEF IInv, Accounting, Eof, Raise
    <3>3. QED
      BY <1>2, <2>1, <2>2, <3>1, <3>2
  <2>3. CASE producer' = "armed"
    <3>1. slot' = slot
      BY <1>7, <2>3 DEF Receive
    <3>2. QED
      BY <1>1, <2>1, <2>3, <3>1 DEF Fate
  <2>4. CASE producer' = "breaking"
    <3>1. slot' = "error" /\ pulled = Raise
      BY <1>7, <2>4 DEF Receive
    <3>2. slot = "empty"
      BY <2>1 DEF IInv, Reporting
    <3>3. Fate = "going" /\ Fate' = "going"
      BY <2>1, <2>4 DEF Fate
    <3>4. wire = taken
      BY <2>1, <3>1 DEF IInv, Accounting
    <3>5. Delivery!Raise
      BY <1>1, <2>1, <3>1, <3>2, <3>3, <3>4 DEF Delivery!Raise, Delivery!patience
    <3>6. QED
      BY <3>5 DEF Delivery!DeliveryNext
  <2>5. QED
    BY <1>7, <2>2, <2>3, <2>4 DEF Receive
<1>8. CASE Break
  <2>1. /\ producer = "breaking" /\ producer' = "broken" /\ UNCHANGED <<left, taken, wire, slot>>
        /\ slot # "empty"
    BY <1>8 DEF Break, ending, IInv, Reporting
  <2>2. Fate = "going" /\ Fate' = "failed"
    BY <2>1 DEF Fate
  <2>3. Delivery!Fail
    BY <1>1, <2>1, <2>2 DEF Delivery!Fail, Delivery!patience
  <2>4. QED
    BY <2>3 DEF Delivery!DeliveryNext
<1>9. CASE DropBody
  <2>1. /\ producer \notin Finished /\ producer' = "dropped" /\ UNCHANGED <<left, taken, wire, slot>>
    BY <1>9 DEF DropBody, ending
  <2>2. Fate = "going" /\ Fate' = "dropped"
    BY <2>1 DEF Fate, Finished
  <2>3. Delivery!Drop
    BY <1>1, <2>1, <2>2 DEF Delivery!Drop, Delivery!patience
  <2>4. QED
    BY <2>3 DEF Delivery!DeliveryNext
<1>10. QED
  BY <1>3, <1>4, <1>5, <1>6, <1>7, <1>8, <1>9

\* So is a step of send() or of the clock.
LEMMA SendDelivers ==
    ASSUME IInv,
           \/ Cancelled \/ Headers \/ TransportFails
           \/ Tick \/ Observe \/ SeeClosed \/ Watchdog
           \/ StoreStop \/ TakeSlot
    PROVE  \/ Delivery!DeliveryNext
           \/ UNCHANGED <<left, taken, wire, Fate, slot, outcome, phase = "returned", still, away>>
<1>1. UNCHANGED <<left, taken, wire, Fate>>
  BY DEF body, Cancelled, Headers, TransportFails, Tick, Observe, SeeClosed, Watchdog,
         StoreStop, TakeSlot, Fate
<1>2. ASSUME NEW what \in {"response", "cancelled", "transport", "write_timeout"}, Pick(what),
             UNCHANGED <<slot, still, away>>, what = "write_timeout" => still \/ away
      PROVE  Delivery!DeliveryNext
  <2>1. /\ outcome = "none" /\ outcome' = what
        /\ (phase = "returned") = FALSE /\ (phase' = "returned") = FALSE
    BY <1>2 DEF Pick, IInv, Reporting
  <2>2. Delivery!Decide(what)
    BY <1>1, <1>2, <2>1 DEF Delivery!Decide, Delivery!patience
  <2>3. QED
    BY <2>2 DEF Delivery!DeliveryNext
<1>3. CASE Cancelled \/ Headers \/ TransportFails
  BY <1>2, <1>3 DEF Cancelled, Headers, TransportFails, watcher
<1>4. CASE Tick
  <2>1. UNCHANGED <<slot, outcome, phase>> /\ still' \in BOOLEAN /\ away' \in BOOLEAN
    BY <1>4 DEF Tick, ending, IInv, TypeOK
  <2>2. still' \in {still, still \/ Fate = "going"}
    <3>1. producer \notin Finished => Fate = "going"
      BY DEF Fate, Finished
    <3>2. QED
      BY <1>4, <3>1, Zenon DEF Tick, IInv, TypeOK
  <2>3. away' \in {away, TRUE}
    BY <1>4, Zenon DEF Tick, IInv, TypeOK
  <2>4. Delivery!Wait
    BY <1>1, <2>1, <2>2, <2>3 DEF Delivery!Wait
  <2>5. QED
    BY <2>4 DEF Delivery!DeliveryNext
<1>5. CASE Observe
  <2>1. UNCHANGED <<slot, outcome, phase>>
    BY <1>5 DEF Observe, ending
  <2>2. still' \in {still, FALSE} /\ away' \in {away, FALSE}
    BY <1>5, Zenon DEF Observe, IInv, TypeOK
  <2>3. Delivery!Look
    BY <1>1, <2>1, <2>2 DEF Delivery!Look
  <2>4. QED
    BY <2>3 DEF Delivery!DeliveryNext
<1>6. CASE SeeClosed
  BY <1>1, <1>6 DEF SeeClosed, ending
<1>7. CASE Watchdog
  <2>1. still \/ away
    BY <1>7 DEF Watchdog, IInv, Timing
  <2>2. QED
    BY <1>2, <1>7, <2>1 DEF Watchdog, watcher
<1>8. CASE StoreStop
  BY <1>1, <1>8 DEF StoreStop, watcher
<1>9. CASE TakeSlot
  <2>1. /\ (phase = "returned") = FALSE /\ (phase' = "returned") = TRUE /\ outcome # "none"
        /\ IF slot = "error" THEN slot' = "taken" /\ outcome' = "iterator"
                             ELSE UNCHANGED <<slot, outcome>>
        /\ UNCHANGED <<still, away>>
    BY <1>9 DEF TakeSlot, watcher, IInv, Reporting
  <2>2. Delivery!Report
    BY <1>1, <2>1 DEF Delivery!Report, Delivery!patience
  <2>3. QED
    BY <2>2 DEF Delivery!DeliveryNext
<1>10. QED
  BY <1>3, <1>4, <1>5, <1>6, <1>7, <1>8, <1>9

\* The body stream, its blocking thread, the watchdog and the end of send()
\* together deliver the whole body or the reason why not, whatever their order
\* (src/upload.rs:29-149, src/lib.rs:277-307).
THEOREM UploadImplementsDelivery == Spec => ImplementsDelivery
<1>1. Init => Delivery!DeliveryInit
  <2> SUFFICES ASSUME Init PROVE Delivery!DeliveryInit
    OBVIOUS
  <2>1. left \in Nat /\ taken \in Nat /\ wire = 0
    BY UploadAssumption DEF Init
  <2>2. /\ Fate = "going" /\ (phase = "returned") = FALSE /\ slot = "empty"
        /\ outcome = "none" /\ still = FALSE /\ away = FALSE
    BY DEF Init, Fate
  <2>3. QED
    BY <2>1, <2>2 DEF Delivery!DeliveryInit
<1>2. IInv /\ [Next]_vars => [Delivery!DeliveryNext]_(Delivery!deliveryVars)
  <2> SUFFICES ASSUME IInv, [Next]_vars
               PROVE  \/ Delivery!DeliveryNext
                      \/ UNCHANGED <<left, taken, wire, Fate, slot, outcome, phase = "returned", still, away>>
    BY DEF Delivery!deliveryVars
  <2>1. CASE UNCHANGED vars
    BY <2>1 DEF vars, Fate
  <2>2. CASE Next
    BY <2>2, BodyDelivers, SendDelivers DEF Next
  <2>3. QED
    BY <2>1, <2>2
<1>3. QED
  BY <1>1, <1>2, Invariance, PTL DEF Spec, ImplementsDelivery, Delivery!DeliverySpec
===============================================================================
