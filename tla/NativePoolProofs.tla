--------------------------- MODULE NativePoolProofs ---------------------------
(* Proofs about NativePool for every finite set of calls and every limit.    *)
EXTENDS NativePool, FiniteSetTheorems, SequenceTheorems, TLAPS

-----------------------------------------------------------------------------
(* The set of permit owners                                                 *)

\* Holders is a finite set, so that its cardinality is a natural number.
LEMMA HoldersFinite ==
    IsFiniteSet(Holders) /\ Cardinality(Holders) \in Nat
<1>1. Holders \subseteq Calls
  BY DEF Holders
<1>2. QED
  BY <1>1, CallsAssumption, FS_Subset, FS_CardinalityType

\* A call that takes a permit adds one owner.
LEMMA HoldersGrow ==
    ASSUME NEW c \in Calls, call \in [Calls -> Phases], call[c] \notin Owning,
           NEW p \in Owning, call' = [call EXCEPT ![c] = p]
    PROVE  Cardinality(Holders') = Cardinality(Holders) + 1
<1>1. Holders' = Holders \union {c} /\ c \notin Holders
  BY DEF Holders
<1>2. QED
  BY <1>1, HoldersFinite, FS_AddElement

\* A call that lets its permit go removes one owner.
LEMMA HoldersShrink ==
    ASSUME NEW c \in Calls, call \in [Calls -> Phases], call[c] \in Owning,
           NEW p \in Phases \ Owning, call' = [call EXCEPT ![c] = p]
    PROVE  Cardinality(Holders') = Cardinality(Holders) - 1
<1>1. Holders' = Holders \ {c} /\ c \in Holders
  BY DEF Holders
<1>2. QED
  BY <1>1, HoldersFinite, FS_RemoveElement

\* A permit that goes straight to a waiter leaves the number of owners alone.
LEMMA HoldersSwap ==
    ASSUME NEW c \in Calls, NEW d \in Calls, call \in [Calls -> Phases],
           call[c] \in Owning, call[d] \notin Owning,
           NEW p \in Phases \ Owning,
           call' = [call EXCEPT ![c] = p, ![d] = "assigned"]
    PROVE  Cardinality(Holders') = Cardinality(Holders)
<1>1. Holders' = (Holders \ {c}) \union {d} /\ c \in Holders /\ d \notin Holders
  BY DEF Holders, Owning
<1>2. IsFiniteSet(Holders \ {c}) /\ Cardinality(Holders \ {c}) = Cardinality(Holders) - 1
  BY <1>1, HoldersFinite, FS_RemoveElement
<1>3. Cardinality((Holders \ {c}) \union {d}) = Cardinality(Holders \ {c}) + 1
  BY <1>1, <1>2, FS_AddElement
<1>4. QED
  BY <1>1, <1>2, <1>3, HoldersFinite

\* A step that moves a call between phases that agree on owning a permit.
LEMMA HoldersKeep ==
    ASSUME NEW c \in Calls, call \in [Calls -> Phases], NEW p \in Phases,
           call[c] \in Owning <=> p \in Owning,
           call' = [call EXCEPT ![c] = p]
    PROVE  Holders' = Holders
BY DEF Holders

-----------------------------------------------------------------------------
(* The wait queue                                                           *)

\* What is left of the queue when an element in the middle is taken out.
LEMMA DropAtFacts ==
    ASSUME queue \in Seq(Calls), NEW i \in DOMAIN queue
    PROVE  /\ DropAt(i) \in Seq(Calls)
           /\ DOMAIN DropAt(i) = 1 .. Len(queue) - 1
           /\ \A j \in 1 .. Len(queue) - 1 :
                DropAt(i)[j] = queue[IF j < i THEN j ELSE j + 1]
<1>1. Len(queue) \in Nat /\ i \in 1 .. Len(queue) /\ queue \in [1 .. Len(queue) -> Calls]
  BY LenProperties
<1>2. DropAt(i) \in [1 .. Len(queue) - 1 -> Calls]
  BY <1>1 DEF DropAt
<1>3. Len(queue) - 1 \in Nat
  BY <1>1
<1>4. DropAt(i) \in Seq(Calls)
  BY <1>2, <1>3, SeqDef
<1>5. QED
  BY <1>1, <1>2, <1>4 DEF DropAt

\* The head and the tail of a queue of waiting calls.
LEMMA HeadFacts ==
    ASSUME queue \in Seq(Calls), QueueIsWaiting, queue # <<>>
    PROVE  /\ Head(queue) \in Calls
           /\ call[Head(queue)] = "waiting"
           /\ Tail(queue) \in Seq(Calls)
           /\ DOMAIN Tail(queue) = 1 .. Len(queue) - 1
           /\ \A i \in DOMAIN Tail(queue) : i + 1 \in DOMAIN queue /\ Tail(queue)[i] = queue[i + 1]
           /\ \A i \in DOMAIN Tail(queue) : Tail(queue)[i] # Head(queue)
           /\ ~semClosed
<1>1. Len(queue) \in Nat \ {0} /\ DOMAIN queue = 1 .. Len(queue)
  BY LenProperties, EmptySeq
<1>2. /\ Head(queue) \in Calls
      /\ Tail(queue) \in Seq(Calls)
      /\ Len(Tail(queue)) = Len(queue) - 1
      /\ \A i \in 1 .. Len(Tail(queue)) : Tail(queue)[i] = queue[i + 1]
  BY HeadTailProperties
<1>3. DOMAIN Tail(queue) = 1 .. Len(queue) - 1
  BY <1>2, LenProperties
<1>4. Head(queue) = queue[1]
  BY <1>1
<1>5. QED
  BY <1>1, <1>2, <1>3, <1>4 DEF QueueIsWaiting

-----------------------------------------------------------------------------
(* Letting a permit go                                                      *)

\* What every release guarantees, whether or not a waiter takes over.
LEMMA GiveBackKeeps ==
    ASSUME IInv, NEW c \in Calls, call[c] \in Owning,
           NEW p \in {"ended", "released"}, GiveBack(c, p), UNCHANGED semClosed
    PROVE  /\ permits' \in Nat /\ queue' \in Seq(Calls) /\ call' \in [Calls -> Phases]
           /\ PermitsConserved' /\ NoIdlePermit' /\ QueueIsWaiting'
           /\ call'[c] = p
           /\ \A d \in Calls \ {c} : \/ call'[d] = call[d]
                                     \/ call[d] = "waiting" /\ call'[d] = "assigned"
<1> USE DEF IInv, TypeOK
<1>1. p \in Phases \ Owning
  BY DEF Phases, Owning
<1>2. CASE queue = <<>>
  <2>1. call' = [call EXCEPT ![c] = p] /\ permits' = permits + 1 /\ queue' = queue
    BY <1>2 DEF GiveBack
  <2>2. Cardinality(Holders') = Cardinality(Holders) - 1
    BY <1>1, <2>1, HoldersShrink
  <2>3. PermitsConserved'
    BY <2>1, <2>2, HoldersFinite, MaxConnectionsAssumption DEF PermitsConserved
  <2>4. QueueIsWaiting' /\ NoIdlePermit'
    BY <1>2, <2>1 DEF QueueIsWaiting, NoIdlePermit
  <2>5. QED
    BY <1>1, <2>1, <2>3, <2>4
<1>3. CASE queue # <<>>
  <2> DEFINE h == Head(queue)
  <2>1. /\ call' = [call EXCEPT ![c] = p, ![h] = "assigned"]
        /\ permits' = permits /\ queue' = Tail(queue)
    BY <1>3 DEF GiveBack
  <2>2. h \in Calls /\ call[h] = "waiting" /\ h # c
    BY <1>3, HeadFacts DEF Owning
  <2>3. Cardinality(Holders') = Cardinality(Holders)
    BY <1>1, <2>1, <2>2, HoldersSwap DEF Owning
  <2>4. PermitsConserved'
    BY <2>1, <2>3 DEF PermitsConserved
  <2>5. \A i \in DOMAIN queue' : queue'[i] # c /\ queue'[i] # h
    BY <1>3, <2>1, HeadFacts DEF QueueIsWaiting, Owning
  <2>6. QueueIsWaiting'
    <3>1. \A i \in DOMAIN queue' : i + 1 \in DOMAIN queue /\ queue'[i] = queue[i + 1]
      BY <1>3, <2>1, HeadFacts
    <3>2. \A i \in DOMAIN queue' : queue'[i] \in Calls /\ i \in Nat
      BY <1>3, <2>1, HeadFacts, LenProperties
    <3>3. \A i \in DOMAIN queue' : call'[queue'[i]] = "waiting"
      BY <2>1, <2>5, <3>1, <3>2 DEF QueueIsWaiting
    <3>4. \A i, j \in DOMAIN queue' : i # j => queue'[i] # queue'[j]
      BY <3>1, <3>2 DEF QueueIsWaiting
    <3>5. ~semClosed'
      BY <1>3, HeadFacts
    <3>6. QED
      BY <3>3, <3>4, <3>5 DEF QueueIsWaiting
  <2>7. NoIdlePermit'
    BY <1>3, <2>1 DEF NoIdlePermit
  <2>8. QED
    BY <1>1, <1>3, <2>1, <2>2, <2>4, <2>6, <2>7, HeadFacts DEF Phases
<1>4. QED
  BY <1>2, <1>3

-----------------------------------------------------------------------------
(* The inductive invariant                                                  *)

\* The initial state satisfies the inductive invariant.
LEMMA InitIInv == Init => IInv
<1> SUFFICES ASSUME Init PROVE IInv
  OBVIOUS
<1>1. TypeOK
  BY MaxConnectionsAssumption, EmptySeq DEF Init, TypeOK, Phases
<1>2. Holders = {}
  BY DEF Init, Holders, Owning
<1>3. PermitsConserved
  BY <1>2, FS_EmptySet, MaxConnectionsAssumption DEF PermitsConserved, Init
<1>4. QueueIsWaiting /\ NoIdlePermit /\ WhoTouchesWhat
  BY DEF Init, QueueIsWaiting, NoIdlePermit, WhoTouchesWhat
<1>5. QED
  BY <1>1, <1>3, <1>4 DEF IInv

\* A step that only moves call c, keeps its ownership and touches no waiter.
LEMMA MoveKeeps ==
    ASSUME IInv, NEW c \in Calls, call[c] # "waiting", NEW p \in Phases \ {"waiting"},
           call[c] \in Owning <=> p \in Owning,
           call' = [call EXCEPT ![c] = p], UNCHANGED <<permits, queue, semClosed>>
    PROVE  /\ call' \in [Calls -> Phases]
           /\ PermitsConserved' /\ NoIdlePermit' /\ QueueIsWaiting'
<1>1. Holders' = Holders
  BY HoldersKeep DEF IInv, TypeOK
<1>2. \A i \in DOMAIN queue : queue[i] \in Calls /\ queue[i] # c
  BY LenProperties DEF IInv, TypeOK, QueueIsWaiting
<1>3. QED
  BY <1>1, <1>2 DEF IInv, TypeOK, PermitsConserved, NoIdlePermit, QueueIsWaiting

\* Abandoning a wait, by timeout, cancellation or close, keeps the books.
LEMMA AbandonKeeps ==
    ASSUME IInv, NEW c \in Calls, Abandon(c),
           UNCHANGED <<clientOpen, semClosed, live, cancelled, reader, closer>>
    PROVE  IInv'
<1> USE DEF IInv, TypeOK
<1>1. CASE call[c] = "assigned" /\ GiveBack(c, "ended")
  <2>1. /\ permits' \in Nat /\ queue' \in Seq(Calls) /\ call' \in [Calls -> Phases]
        /\ PermitsConserved' /\ NoIdlePermit' /\ QueueIsWaiting'
        /\ call'[c] = "ended"
        /\ \A d \in Calls \ {c} : \/ call'[d] = call[d]
                                  \/ call[d] = "waiting" /\ call'[d] = "assigned"
    BY <1>1, GiveBackKeeps DEF Owning
  <2>2. WhoTouchesWhat'
    BY <1>1, <2>1 DEF WhoTouchesWhat
  <2>3. QED
    BY <2>1, <2>2
<1>2. CASE /\ call[c] = "waiting"
           /\ call' = [call EXCEPT ![c] = "ended"]
           /\ UNCHANGED permits
           /\ (\A i \in DOMAIN queue : queue[i] # c) /\ UNCHANGED queue
  <2>1. Holders' = Holders
    BY <1>2, HoldersKeep DEF Owning, Phases
  <2>2. \A i \in DOMAIN queue : queue[i] \in Calls
    BY LenProperties
  <2>3. QueueIsWaiting'
    BY <1>2, <2>2 DEF QueueIsWaiting
  <2>4. PermitsConserved' /\ NoIdlePermit' /\ WhoTouchesWhat' /\ TypeOK'
    BY <1>2, <2>1 DEF Phases, PermitsConserved, NoIdlePermit, WhoTouchesWhat
  <2>5. QED
    BY <2>3, <2>4
<1>3. ASSUME NEW i \in DOMAIN queue, queue[i] = c, queue' = DropAt(i),
             call[c] = "waiting", call' = [call EXCEPT ![c] = "ended"], UNCHANGED permits
      PROVE  IInv'
  <2>1. Holders' = Holders
    BY <1>3, HoldersKeep DEF Owning, Phases
  <2>2. /\ queue' \in Seq(Calls)
        /\ DOMAIN queue' = 1 .. Len(queue) - 1
        /\ \A j \in 1 .. Len(queue) - 1 : queue'[j] = queue[IF j < i THEN j ELSE j + 1]
    BY <1>3, DropAtFacts
  <2>3. Len(queue) \in Nat /\ DOMAIN queue = 1 .. Len(queue) /\ i \in 1 .. Len(queue)
    BY LenProperties
  <2>4. queue # <<>>
    BY <2>3, EmptySeq
  <2>5. \A j \in DOMAIN queue' : \E k \in DOMAIN queue :
            k # i /\ queue'[j] = queue[k] /\ k = IF j < i THEN j ELSE j + 1
    BY <2>2, <2>3
  <2>6. \A j \in DOMAIN queue' : queue'[j] # c /\ queue'[j] \in Calls /\ call'[queue'[j]] = "waiting"
    BY <1>3, <2>3, <2>5 DEF QueueIsWaiting
  <2>7. \A j, k \in DOMAIN queue' : j # k => queue'[j] # queue'[k]
    <3> SUFFICES ASSUME NEW j \in DOMAIN queue', NEW k \in DOMAIN queue', j # k
                 PROVE  queue'[j] # queue'[k]
      OBVIOUS
    <3> DEFINE m == IF j < i THEN j ELSE j + 1
               n == IF k < i THEN k ELSE k + 1
    <3>1. m \in DOMAIN queue /\ n \in DOMAIN queue /\ m # n
      BY <2>2, <2>3
    <3>2. queue'[j] = queue[m] /\ queue'[k] = queue[n]
      BY <2>2
    <3>3. QED
      BY <3>1, <3>2 DEF QueueIsWaiting
  <2>8. QueueIsWaiting'
    BY <2>4, <2>6, <2>7 DEF QueueIsWaiting
  <2>9. NoIdlePermit' /\ PermitsConserved' /\ WhoTouchesWhat' /\ TypeOK'
    BY <1>3, <2>1, <2>2, <2>4 DEF NoIdlePermit, PermitsConserved, WhoTouchesWhat, Phases
  <2>10. QED
    BY <2>8, <2>9
<1>4. QED
  BY <1>1, <1>2, <1>3 DEF Abandon

\* Every step of send() preserves the inductive invariant.
LEMMA SendKeeps == ASSUME IInv, NEW c \in Calls, Send(c) PROVE IInv'
<1> USE DEF IInv, TypeOK
<1>1. CASE Begin(c)
  <2>1. CASE clientOpen
    BY <1>1, <2>1, MoveKeeps DEF Begin, Phases, Owning, WhoTouchesWhat
  <2>2. CASE ~clientOpen
    BY <1>1, <2>2, MoveKeeps DEF Begin, Phases, Owning, WhoTouchesWhat
  <2>3. QED
    BY <2>1, <2>2
<1>2. CASE Acquire(c)
  <2>1. CASE /\ cancelled[c] \/ semClosed
             /\ call' = [call EXCEPT ![c] = "ended"]
             /\ UNCHANGED <<permits, queue>>
    BY <1>2, <2>1, MoveKeeps DEF Acquire, Phases, Owning, WhoTouchesWhat
  <2>2. CASE /\ permits > 0
             /\ call' = [call EXCEPT ![c] = "granted"]
             /\ permits' = permits - 1
             /\ UNCHANGED queue
    <3>1. Cardinality(Holders') = Cardinality(Holders) + 1
      BY <1>2, <2>2, HoldersGrow DEF Acquire, Owning
    <3>2. PermitsConserved'
      BY <2>2, <3>1, HoldersFinite DEF PermitsConserved
    <3>3. queue = <<>>
      BY <2>2 DEF NoIdlePermit
    <3>4. QueueIsWaiting' /\ NoIdlePermit'
      BY <2>2, <3>3, EmptySeq DEF NoIdlePermit, QueueIsWaiting
    <3>5. WhoTouchesWhat'
      BY <1>2, <2>2 DEF Acquire, WhoTouchesWhat
    <3>6. TypeOK'
      BY <1>2, <2>2 DEF Acquire, Phases
    <3>7. QED
      BY <3>2, <3>4, <3>5, <3>6
  <2>3. CASE /\ ~semClosed /\ permits = 0
             /\ call' = [call EXCEPT ![c] = "waiting"]
             /\ queue' = Append(queue, c)
             /\ UNCHANGED permits
    <3>1. Holders' = Holders
      BY <1>2, <2>3, HoldersKeep DEF Acquire, Owning, Phases
    <3>2. Len(queue) \in Nat /\ DOMAIN queue = 1 .. Len(queue)
      BY LenProperties
    <3>3. /\ queue' \in Seq(Calls) /\ DOMAIN queue' = 1 .. Len(queue) + 1
          /\ \A i \in 1 .. Len(queue) : queue'[i] = queue[i]
          /\ queue'[Len(queue) + 1] = c
      BY <2>3, <3>2, AppendProperties, LenProperties
    <3>4. \A i \in DOMAIN queue : queue[i] \in Calls /\ queue[i] # c
      BY <1>2, LenProperties DEF Acquire, QueueIsWaiting
    <3>5. QueueIsWaiting'
      <4>1. \A i \in DOMAIN queue' : call'[queue'[i]] = "waiting"
        BY <2>3, <3>2, <3>3, <3>4 DEF QueueIsWaiting
      <4>2. \A i, j \in DOMAIN queue' : i # j => queue'[i] # queue'[j]
        BY <3>2, <3>3, <3>4 DEF QueueIsWaiting
      <4>3. QED
        BY <1>2, <2>3, <4>1, <4>2 DEF QueueIsWaiting, Acquire
    <3>6. QED
      BY <1>2, <2>3, <3>1, <3>3, <3>5
         DEF Acquire, Phases, NoIdlePermit, PermitsConserved, WhoTouchesWhat
  <2>4. QED
    BY <1>2, <2>1, <2>2, <2>3 DEF Acquire
<1>3. CASE Granted(c)
  BY <1>3, MoveKeeps DEF Granted, Phases, Owning, WhoTouchesWhat
<1>4. CASE Refused(c) \/ PoolTimeout(c)
  BY <1>4, AbandonKeeps DEF Refused, PoolTimeout
<1>5. CASE BuildFails(c)
  BY <1>5, MoveKeeps DEF BuildFails, Phases, Owning, WhoTouchesWhat
<1>6. CASE StartExchange(c)
  <2>1. call' \in [Calls -> Phases] /\ PermitsConserved' /\ NoIdlePermit' /\ QueueIsWaiting'
    BY <1>6, MoveKeeps DEF StartExchange, Phases, Owning
  <2>2. WhoTouchesWhat'
    BY <1>6 DEF StartExchange, WhoTouchesWhat
  <2>3. QED
    BY <1>6, <2>1, <2>2 DEF StartExchange
<1>7. CASE Respond(c)
  BY <1>7, MoveKeeps DEF Respond, Phases, Owning, WhoTouchesWhat
<1>8. CASE ExchangeFails(c)
  <2>1. call' \in [Calls -> Phases] /\ PermitsConserved' /\ NoIdlePermit' /\ QueueIsWaiting'
    BY <1>8, MoveKeeps DEF ExchangeFails, Phases, Owning
  <2>2. WhoTouchesWhat'
    BY <1>8 DEF ExchangeFails, WhoTouchesWhat
  <2>3. QED
    BY <1>8, <2>1, <2>2 DEF ExchangeFails
<1>9. CASE Unwind(c)
  <2>1. /\ permits' \in Nat /\ queue' \in Seq(Calls) /\ call' \in [Calls -> Phases]
        /\ PermitsConserved' /\ NoIdlePermit' /\ QueueIsWaiting'
        /\ call'[c] = "ended"
        /\ \A d \in Calls \ {c} : \/ call'[d] = call[d]
                                  \/ call[d] = "waiting" /\ call'[d] = "assigned"
    BY <1>9, GiveBackKeeps DEF Unwind, Owning
  <2>2. QED
    BY <1>9, <2>1 DEF Unwind, WhoTouchesWhat
<1>10. QED
  BY <1>1, <1>2, <1>3, <1>4, <1>5, <1>6, <1>7, <1>8, <1>9 DEF Send

\* release_permit keeps the books whichever thread calls it.
LEMMA ReleaseKeeps ==
    ASSUME IInv, NEW c \in Calls, ReleasePermit(c), UNCHANGED semClosed,
           call[c] \in {"open", "released"}
    PROVE  /\ permits' \in Nat /\ queue' \in Seq(Calls) /\ call' \in [Calls -> Phases]
           /\ PermitsConserved' /\ NoIdlePermit' /\ QueueIsWaiting'
           /\ call'[c] = "released"
           /\ \A d \in Calls \ {c} : \/ call'[d] = call[d]
                                     \/ call[d] = "waiting" /\ call'[d] = "assigned"
<1>1. CASE call[c] = "open"
  BY <1>1, GiveBackKeeps DEF ReleasePermit, Owning
<1>2. CASE call[c] = "released"
  BY <1>2 DEF ReleasePermit, IInv, TypeOK, PermitsConserved, NoIdlePermit, QueueIsWaiting, Holders
<1>3. QED
  BY <1>1, <1>2

\* A step that leaves the semaphore and every call alone keeps the books.
LEMMA BooksKeep ==
    ASSUME IInv, UNCHANGED <<permits, queue, call, semClosed>>
    PROVE  PermitsConserved' /\ NoIdlePermit' /\ QueueIsWaiting'
BY DEF IInv, PermitsConserved, NoIdlePermit, QueueIsWaiting, Holders

\* Every step of a response preserves the inductive invariant.
LEMMA ResponseKeeps == ASSUME IInv, NEW c \in Calls, Response(c) PROVE IInv'
<1> USE DEF IInv, TypeOK
<1>1. CASE ReadBegin(c)
  BY <1>1, BooksKeep DEF ReadBegin, LockFree, WhoTouchesWhat
<1>2. CASE ReadChunk(c)
  BY <1>2, BooksKeep DEF ReadChunk, WhoTouchesWhat
<1>3. CASE ReadStops(c)
  BY <1>3, BooksKeep DEF ReadStops, WhoTouchesWhat
<1>4. CASE Cancel(c)
  BY <1>4, BooksKeep DEF Cancel, WhoTouchesWhat
<1>5. CASE CloseSignal(c)
  BY <1>5, BooksKeep DEF CloseSignal, WhoTouchesWhat
<1>6. CASE CloseDrops(c)
  BY <1>6, BooksKeep DEF CloseDrops, LockFree, WhoTouchesWhat
<1>7. CASE ReadEnds(c)
  <2>1. call[c] \in {"open", "released"}
    BY <1>7 DEF ReadEnds, WhoTouchesWhat
  <2>2. WhoTouchesWhat'
    BY <1>7, <2>1, ReleaseKeeps DEF ReadEnds, WhoTouchesWhat
  <2>3. QED
    BY <1>7, <2>1, <2>2, ReleaseKeeps DEF ReadEnds
<1>8. CASE CloseEnds(c)
  <2>1. call[c] \in {"open", "released"}
    BY <1>8 DEF CloseEnds, WhoTouchesWhat
  <2>2. WhoTouchesWhat'
    BY <1>8, <2>1, ReleaseKeeps DEF CloseEnds, WhoTouchesWhat
  <2>3. QED
    BY <1>8, <2>1, <2>2, ReleaseKeeps DEF CloseEnds
<1>9. CASE Freed(c)
  <2>1. call' \in [Calls -> Phases] /\ PermitsConserved' /\ NoIdlePermit' /\ QueueIsWaiting'
    BY <1>9, MoveKeeps DEF Freed, Phases, Owning
  <2>2. WhoTouchesWhat'
    BY <1>9 DEF Freed, WhoTouchesWhat
  <2>3. QED
    BY <1>9, <2>1, <2>2 DEF Freed
<1>10. CASE Again(c)
  <2>1. call' \in [Calls -> Phases] /\ PermitsConserved' /\ NoIdlePermit' /\ QueueIsWaiting'
    BY <1>10, MoveKeeps DEF Again, Phases, Owning
  <2>2. WhoTouchesWhat'
    BY <1>10 DEF Again, WhoTouchesWhat
  <2>3. QED
    BY <1>10, <2>1, <2>2 DEF Again
<1>11. QED
  BY <1>1, <1>2, <1>3, <1>4, <1>5, <1>6, <1>7, <1>8, <1>9, <1>10 DEF Response

\* Closing the client preserves the inductive invariant.
LEMMA ClientCloseKeeps == ASSUME IInv, CloseSemaphore \/ ClearClient PROVE IInv'
<1> USE DEF IInv, TypeOK
<1>1. CASE CloseSemaphore
  <2>1. PermitsConserved' /\ NoIdlePermit' /\ QueueIsWaiting'
    BY <1>1, EmptySeq DEF CloseSemaphore, PermitsConserved, NoIdlePermit, QueueIsWaiting, Holders
  <2>2. TypeOK' /\ WhoTouchesWhat'
    BY <1>1, EmptySeq DEF CloseSemaphore, WhoTouchesWhat
  <2>3. QED
    BY <2>1, <2>2
<1>2. CASE ClearClient
  BY <1>2, BooksKeep DEF ClearClient, WhoTouchesWhat
<1>3. QED
  BY <1>1, <1>2

\* The invariant is inductive.
LEMMA NextIInv == IInv /\ [Next]_vars => IInv'
<1> SUFFICES ASSUME IInv, [Next]_vars PROVE IInv'
  OBVIOUS
<1>1. CASE UNCHANGED vars
  BY <1>1, BooksKeep DEF vars, IInv, TypeOK, WhoTouchesWhat
<1>2. ASSUME NEW c \in Calls, Send(c) \/ Response(c) PROVE IInv'
  BY <1>2, SendKeeps, ResponseKeeps
<1>3. CASE CloseSemaphore \/ ClearClient
  BY <1>3, ClientCloseKeeps
<1>4. QED
  BY <1>1, <1>2, <1>3 DEF Next

\* Every reachable state satisfies the inductive invariant.
THEOREM Invariance == Spec => []IInv
<1>1. QED
  BY InitIInv, NextIInv, PTL DEF Spec

\* No variable leaves its type: in particular the permits never run negative.
THEOREM TypeCorrect == Spec => []TypeOK
<1>1. IInv => TypeOK
  BY DEF IInv
<1>2. QED
  BY <1>1, Invariance, PTL

\* No permit of the semaphore is ever lost or made up, whatever the
\* interleaving of timeouts, cancellations, reads and closes.
THEOREM PermitConservation == Spec => []PermitsConserved
<1>1. IInv => PermitsConserved
  BY DEF IInv
<1>2. QED
  BY <1>1, Invariance, PTL

\* Never more live exchanges than max_connections.
THEOREM ConnectionLimit == Spec => []LiveWithinLimit
<1>1. IInv => LiveWithinLimit
  <2> SUFFICES ASSUME IInv PROVE LiveWithinLimit
    OBVIOUS
  <2> DEFINE L == {c \in Calls : live[c]}
  <2>1. L \subseteq Holders
    BY DEF Holders, IInv, WhoTouchesWhat, Owning
  <2>2. Cardinality(L) \in Nat /\ Cardinality(L) <= Cardinality(Holders)
    BY <2>1, HoldersFinite, FS_Subset, FS_CardinalityType
  <2>3. QED
    BY <2>2, HoldersFinite, MaxConnectionsAssumption
       DEF LiveWithinLimit, IInv, TypeOK, PermitsConserved
<1>2. QED
  BY <1>1, Invariance, PTL

\* No call waits in the queue beside an idle permit.
THEOREM NoLostWakeup == Spec => []NoIdlePermit
<1>1. IInv => NoIdlePermit
  BY DEF IInv
<1>2. QED
  BY <1>1, Invariance, PTL

\* A response without its permit has no stream and no reader inside it.
THEOREM DryAfterRelease == Spec => []ReleasedIsDry
<1>1. IInv => ReleasedIsDry
  BY DEF IInv, WhoTouchesWhat, ReleasedIsDry
<1>2. QED
  BY <1>1, Invariance, PTL

\* No call is admitted after the client's close.
THEOREM ClosedStaysClosed == Spec => ClosedAdmitsNobody
<1> DEFINE A == semClosed => \A c \in Calls : call'[c] = "granted" => call[c] = "granted"
<1>1. IInv /\ [Next]_vars => [A]_vars
  <2> SUFFICES ASSUME IInv, [Next]_vars, semClosed, NEW d \in Calls, call[d] # "granted"
               PROVE  call'[d] # "granted"
    OBVIOUS
  <2> USE DEF IInv, TypeOK
  <2>1. ASSUME NEW c \in Calls, NEW p \in {"ended", "released"}, GiveBack(c, p)
        PROVE  call'[d] # "granted"
    BY <2>1, HeadFacts DEF GiveBack
  <2>2. ASSUME NEW c \in Calls, Abandon(c) PROVE call'[d] # "granted"
    BY <2>1, <2>2 DEF Abandon
  <2>3. ASSUME NEW c \in Calls, Send(c) PROVE call'[d] # "granted"
    BY <2>1, <2>2, <2>3
       DEF Send, Begin, Acquire, Granted, Refused, PoolTimeout, BuildFails, StartExchange,
           Respond, ExchangeFails, Unwind
  <2>4. ASSUME NEW c \in Calls, Response(c) PROVE call'[d] # "granted"
    BY <2>1, <2>4
       DEF Response, ReadBegin, ReadChunk, ReadStops, ReadEnds, ReleasePermit, Cancel,
           CloseSignal, CloseDrops, CloseEnds, Freed, Again
  <2>5. QED
    BY <2>3, <2>4 DEF Next, CloseSemaphore, ClearClient, vars
<1>2. QED
  BY <1>1, Invariance, PTL DEF Spec, ClosedAdmitsNobody

-----------------------------------------------------------------------------
(* NativePool implements ConnectionGate                                     *)

\* Letting a permit go is leaving the gate, or handing one's place over.
LEMMA GiveBackIsLeaving ==
    ASSUME IInv, NEW c \in Calls, call[c] \in Owning,
           NEW p \in {"ended", "released"}, GiveBack(c, p), UNCHANGED semClosed
    PROVE  Gate!GateNext
<1> USE DEF IInv, TypeOK
<1>1. CASE queue = <<>>
  <2>1. Holders' = Holders \ {c} /\ c \in Holders
    BY <1>1 DEF GiveBack, Holders, Owning
  <2>2. QED
    BY <2>1 DEF Gate!GateNext, Gate!Leave
<1>2. CASE queue # <<>>
  <2> DEFINE h == Head(queue)
  <2>1. h \in Calls /\ call[h] = "waiting" /\ ~semClosed
    BY <1>2, HeadFacts
  <2>2. call' = [call EXCEPT ![c] = p, ![h] = "assigned"]
    BY <1>2 DEF GiveBack
  <2>3. Holders' = (Holders \ {c}) \union {h} /\ c \in Holders /\ h \notin Holders
    BY <2>1, <2>2 DEF Holders, Owning
  <2>4. QED
    BY <2>1, <2>3 DEF Gate!GateNext, Gate!HandOver
<1>3. QED
  BY <1>1, <1>2

\* Every step of send() is a step of the gate or leaves it alone.
LEMMA SendIsGated ==
    ASSUME IInv, NEW c \in Calls, Send(c)
    PROVE  Gate!GateNext \/ UNCHANGED <<Holders, semClosed>>
<1> USE DEF IInv, TypeOK
<1>1. CASE Abandon(c) /\ UNCHANGED semClosed
  <2>1. CASE call[c] = "assigned" /\ GiveBack(c, "ended")
    BY <1>1, <2>1, GiveBackIsLeaving DEF Owning
  <2>2. CASE call[c] = "waiting" /\ call' = [call EXCEPT ![c] = "ended"]
    BY <1>1, <2>2, HoldersKeep DEF Owning, Phases
  <2>3. QED
    BY <1>1, <2>1, <2>2 DEF Abandon
<1>2. CASE Acquire(c)
  <2>1. CASE permits > 0 /\ ~semClosed /\ call' = [call EXCEPT ![c] = "granted"]
    <3>1. Holders' = Holders \union {c} /\ c \notin Holders
      <4>1. call[c] = "cloned" /\ call' = [call EXCEPT ![c] = "granted"]
        BY <1>2, <2>1 DEF Acquire
      <4>2. QED
        BY <4>1 DEF Holders, Owning
    <3>2. Cardinality(Holders) < MaxConnections
      BY <2>1, HoldersFinite, MaxConnectionsAssumption DEF PermitsConserved
    <3>3. UNCHANGED semClosed
      BY <1>2 DEF Acquire
    <3>4. Gate!Enter(c)
      <4>1. Gate!Cardinality(Holders) = Cardinality(Holders)
        BY DEF Gate!Cardinality, Cardinality
      <4>2. QED
        BY <2>1, <3>1, <3>2, <3>3, <4>1 DEF Gate!Enter
    <3>5. QED
      BY <3>4 DEF Gate!GateNext
  <2>2. CASE \E p \in {"ended", "waiting"} : call' = [call EXCEPT ![c] = p]
    BY <1>2, <2>2, HoldersKeep DEF Acquire, Owning, Phases
  <2>3. QED
    BY <1>2, <2>1, <2>2 DEF Acquire
<1>3. CASE Begin(c)
  <2>1. \E p \in {"cloned", "ended"} : call' = [call EXCEPT ![c] = p]
    BY <1>3 DEF Begin
  <2>2. QED
    BY <1>3, <2>1, HoldersKeep DEF Begin, Owning, Phases
<1>4. CASE Granted(c) \/ BuildFails(c) \/ StartExchange(c) \/ Respond(c) \/ ExchangeFails(c)
  <2>1. /\ call[c] \in Owning
        /\ \E p \in Owning : call' = [call EXCEPT ![c] = p]
        /\ UNCHANGED semClosed
    BY <1>4 DEF Granted, BuildFails, StartExchange, Respond, ExchangeFails, Owning
  <2>2. QED
    BY <2>1, HoldersKeep DEF Owning, Phases
<1>5. CASE Unwind(c)
  BY <1>5, GiveBackIsLeaving DEF Unwind, Owning
<1>6. QED
  BY <1>1, <1>2, <1>3, <1>4, <1>5 DEF Send, Refused, PoolTimeout

\* Every step of a response is a step of the gate or leaves it alone.
LEMMA ResponseIsGated ==
    ASSUME IInv, NEW c \in Calls, Response(c)
    PROVE  Gate!GateNext \/ UNCHANGED <<Holders, semClosed>>
<1> USE DEF IInv, TypeOK
<1>1. CASE ReleasePermit(c) /\ UNCHANGED semClosed
  BY <1>1, GiveBackIsLeaving DEF ReleasePermit, Owning, Holders
<1>2. CASE UNCHANGED <<call, semClosed>>
  BY <1>2 DEF Holders
<1>3. CASE Freed(c) \/ Again(c)
  <2>1. \E p \in Phases : /\ call[c] \in Owning <=> p \in Owning
                          /\ call' = [call EXCEPT ![c] = p]
    BY <1>3 DEF Freed, Again, Owning, Phases
  <2>2. QED
    BY <1>3, <2>1, HoldersKeep DEF Freed, Again
<1>4. QED
  BY <1>1, <1>2, <1>3
     DEF Response, ReadBegin, ReadChunk, ReadStops, ReadEnds, Cancel, CloseSignal,
         CloseDrops, CloseEnds

\* The native pool implements the gate that max_connections promises.
THEOREM PoolImplementsGate == Spec => ImplementsGate
<1>1. Init => Gate!GateInit
  BY DEF Init, Gate!GateInit, Holders, Owning
<1>2. IInv /\ [Next]_vars => [Gate!GateNext]_(Gate!gateVars)
  <2> SUFFICES ASSUME IInv, [Next]_vars
               PROVE  Gate!GateNext \/ UNCHANGED <<Holders, semClosed>>
    BY DEF Gate!gateVars
  <2>1. CASE CloseSemaphore
    BY <2>1 DEF CloseSemaphore, Gate!GateNext, Gate!Shut, Holders
  <2>2. CASE ClearClient \/ UNCHANGED vars
    BY <2>2 DEF ClearClient, vars, Holders
  <2>3. ASSUME NEW c \in Calls, Send(c) \/ Response(c)
        PROVE  Gate!GateNext \/ UNCHANGED <<Holders, semClosed>>
    BY <2>3, SendIsGated, ResponseIsGated
  <2>4. QED
    BY <2>1, <2>2, <2>3 DEF Next
<1>3. QED
  BY <1>1, <1>2, Invariance, PTL DEF Spec, ImplementsGate, Gate!GateSpec
===============================================================================
