---------------------------- MODULE AsyncPoolProofs ----------------------------
(* Proofs about AsyncPool for every set of tasks and every size of the pools. *)
EXTENDS AsyncPool, FiniteSetTheorems, SequenceTheorems, TLAPS

-----------------------------------------------------------------------------
(* Queues in which nobody stands twice                                       *)

\* The oldest waiter goes and the others stay.
LEMMA PopFacts ==
    ASSUME NEW S, NEW q \in Seq(S), IsInjective(q), q # <<>>
    PROVE  /\ Head(q) \in S /\ Contains(q, Head(q))
           /\ Tail(q) \in Seq(S) /\ IsInjective(Tail(q))
           /\ ~Contains(Tail(q), Head(q))
           /\ \A x : Contains(Tail(q), x) => Contains(q, x)
<1>1. Len(q) \in Nat \ {0} /\ DOMAIN q = 1 .. Len(q)
  BY LenProperties, EmptySeq
<1>2. /\ Head(q) \in S /\ Tail(q) \in Seq(S) /\ Len(Tail(q)) = Len(q) - 1
      /\ \A i \in 1 .. Len(Tail(q)) : Tail(q)[i] = q[i + 1]
  BY HeadTailProperties
<1>3. DOMAIN Tail(q) = 1 .. Len(q) - 1
  BY <1>2, LenProperties
<1>4. Head(q) = q[1]
  BY <1>1
<1>5. IsInjective(Tail(q))
  BY <1>1, <1>2, <1>3 DEF IsInjective
<1>6. QED
  BY <1>1, <1>2, <1>3, <1>4, <1>5 DEF IsInjective, Contains

\* Somebody new joins at the end.
LEMMA PushFacts ==
    ASSUME NEW S, NEW q \in Seq(S), IsInjective(q), NEW e \in S, ~Contains(q, e)
    PROVE  /\ Append(q, e) \in Seq(S) /\ IsInjective(Append(q, e))
           /\ \A x : Contains(Append(q, e), x) <=> Contains(q, x) \/ x = e
<1>1. Len(q) \in Nat /\ DOMAIN q = 1 .. Len(q)
  BY LenProperties
<1>2. /\ Append(q, e) \in Seq(S) /\ Len(Append(q, e)) = Len(q) + 1
      /\ \A i \in 1 .. Len(q) : Append(q, e)[i] = q[i]
      /\ Append(q, e)[Len(q) + 1] = e
  BY AppendProperties
<1>3. DOMAIN Append(q, e) = 1 .. Len(q) + 1
  BY <1>2, LenProperties
<1>4. IsInjective(Append(q, e))
  BY <1>1, <1>2, <1>3 DEF IsInjective, Contains
<1>5. ASSUME NEW x PROVE Contains(Append(q, e), x) <=> Contains(q, x) \/ x = e
  BY <1>1, <1>2 DEF Contains
<1>6. QED
  BY <1>2, <1>4, <1>5

\* Somebody leaves from wherever he stands.
LEMMA WithoutFacts ==
    ASSUME NEW S, NEW q \in Seq(S), IsInjective(q), NEW t
    PROVE  /\ Without(q, t) \in Seq(S) /\ IsInjective(Without(q, t))
           /\ ~Contains(Without(q, t), t)
           /\ \A x : Contains(Without(q, t), x) => Contains(q, x)
<1>1. CASE ~Contains(q, t)
  BY <1>1 DEF Without
<1>2. CASE Contains(q, t)
  <2> DEFINE i == CHOOSE k \in DOMAIN q : q[k] = t
             a == SubSeq(q, 1, i - 1)
             b == SubSeq(q, i + 1, Len(q))
  <2>1. Len(q) \in Nat /\ DOMAIN q = 1 .. Len(q) /\ \A k \in 1 .. Len(q) : q[k] \in S
    BY LenProperties
  <2>2. i \in 1 .. Len(q) /\ q[i] = t
    BY <1>2, <2>1 DEF Contains
  <2>3. Without(q, t) = a \o b
    BY <1>2 DEF Without, RemoveAt
  <2> HIDE DEF i
  <2>4. /\ a \in Seq(S) /\ Len(a) = i - 1
        /\ \A k \in 1 .. i - 1 : a[k] = q[k]
    BY <2>1, <2>2, SubSeqProperties
  <2>5. /\ b \in Seq(S) /\ Len(b) = Len(q) - i
        /\ \A k \in 1 .. Len(q) - i : b[k] = q[k + i]
    <3>1. i + 1 \in Int /\ Len(q) \in Int /\ \A k \in i + 1 .. Len(q) : q[k] \in S
      BY <2>1, <2>2
    <3>2. /\ b \in Seq(S)
          /\ Len(b) = IF i + 1 <= Len(q) THEN Len(q) - (i + 1) + 1 ELSE 0
          /\ \A k \in 1 .. Len(q) - (i + 1) + 1 : b[k] = q[(i + 1) + k - 1]
      BY <3>1, SubSeqProperties
    <3> HIDE DEF b
    <3>3. Len(b) = Len(q) - i
      <4>1. CASE i + 1 <= Len(q)
        <5>1. Len(b) = Len(q) - (i + 1) + 1
          BY <3>2, <4>1
        <5>2. Len(q) \in Nat /\ i \in Nat
          BY <2>1, <2>2
        <5>3. QED
          BY <5>1, <5>2
      <4>2. CASE ~(i + 1 <= Len(q))
        <5>1. Len(b) = 0
          BY <3>2, <4>2
        <5>2. i \in Nat /\ Len(q) \in Nat /\ i <= Len(q)
          BY <2>1, <2>2
        <5>3. i = Len(q)
          BY <4>2, <5>2
        <5>4. QED
          BY <5>1, <5>2, <5>3
      <4>3. QED
        BY <4>1, <4>2
    <3>4. ASSUME NEW k \in 1 .. Len(q) - i PROVE b[k] = q[k + i]
      <4>1. k \in 1 .. Len(q) - (i + 1) + 1 /\ (i + 1) + k - 1 = k + i
        BY <2>1, <2>2
      <4>2. QED
        BY <3>2, <4>1
    <3>5. QED
      BY <3>2, <3>3, <3>4
  <2> HIDE DEF a, b
  <2> DEFINE p(k) == IF k < i THEN k ELSE k + 1
  <2>6. /\ a \o b \in Seq(S) /\ Len(a \o b) = Len(q) - 1
        /\ \A k \in 1 .. Len(q) - 1 : (a \o b)[k] = q[p(k)]
    <3>1. /\ a \o b \in Seq(S) /\ Len(a \o b) = Len(a) + Len(b)
          /\ \A k \in 1 .. Len(a) + Len(b) :
                (a \o b)[k] = IF k <= Len(a) THEN a[k] ELSE b[k - Len(a)]
      BY <2>4, <2>5, ConcatProperties
    <3>2. Len(a) + Len(b) = Len(q) - 1
      BY <2>1, <2>2, <2>4, <2>5
    <3>3. ASSUME NEW k \in 1 .. Len(q) - 1 PROVE (a \o b)[k] = q[p(k)]
      <4>1. CASE k < i
        <5>1. k <= Len(a) /\ k \in 1 .. i - 1
          BY <2>1, <2>2, <2>4, <4>1
        <5>2. QED
          BY <2>4, <3>1, <3>2, <4>1, <5>1
      <4>2. CASE ~(k < i)
        <5>1. ~(k <= Len(a)) /\ k - Len(a) \in 1 .. Len(q) - i /\ (k - Len(a)) + i = k + 1
          BY <2>1, <2>2, <2>4, <4>2
        <5>2. QED
          BY <2>5, <3>1, <3>2, <4>2, <5>1
      <4>3. QED
        BY <4>1, <4>2
    <3>4. QED
      BY <3>1, <3>2, <3>3
  <2>7. \A k \in 1 .. Len(q) - 1 : p(k) \in 1 .. Len(q) /\ p(k) # i
    BY <2>1, <2>2
  <2>8. \A k, l \in 1 .. Len(q) - 1 : p(k) = p(l) => k = l
    BY <2>1, <2>2
  <2> HIDE DEF p
  <2>9. DOMAIN (a \o b) = 1 .. Len(q) - 1
    BY <2>6, LenProperties
  <2>10. IsInjective(a \o b)
    <3>1. SUFFICES ASSUME NEW k \in 1 .. Len(q) - 1, NEW l \in 1 .. Len(q) - 1,
                          (a \o b)[k] = (a \o b)[l]
                   PROVE  k = l
      BY <2>9 DEF IsInjective
    <3>2. q[p(k)] = q[p(l)]
      BY <2>6, <3>1
    <3>3. p(k) \in DOMAIN q /\ p(l) \in DOMAIN q
      BY <2>1, <2>7
    <3>4. p(k) = p(l)
      BY <3>2, <3>3 DEF IsInjective
    <3>5. QED
      BY <2>8, <3>4
  <2>11. ~Contains(a \o b, t)
    BY <2>1, <2>2, <2>6, <2>7 DEF IsInjective, Contains
  <2>12. \A x : Contains(a \o b, x) => Contains(q, x)
    BY <2>6, <2>7 DEF Contains
  <2>13. QED
    BY <2>3, <2>6, <2>10, <2>11, <2>12
<1>3. QED
  BY <1>1, <1>2

-----------------------------------------------------------------------------
(* Counting threads                                                          *)

\* Threads and permits are counted by natural numbers.
LEMMA Counts ==
    ASSUME TypeOK
    PROVE  /\ Threads \in Nat \ {0} /\ MaxConnections \in Nat \ {0}
           /\ IsFiniteSet(Workers) /\ Cardinality(Workers) \in Nat
           /\ IsFiniteSet(permits) /\ Cardinality(permits) \in Nat
           /\ Busy \in Nat
<1>1. Threads \in Nat \ {0} /\ MaxConnections \in Nat \ {0}
  BY AsyncPoolAssumption DEF TypeOK, Threads, MaxConnections
<1>2. IsFiniteSet(Workers) /\ IsFiniteSet(permits)
  BY AsyncPoolAssumption, FS_Subset DEF TypeOK, Workers
<1>3. QED
  BY <1>1, <1>2, FS_CardinalityType DEF Busy

\* A step after which no new task is on a thread keeps to the limit.
LEMMA NoNewWorker ==
    ASSUME TypeOK, Workers' \subseteq Workers, client' = client, setup' = setup
    PROVE  Busy' <= Threads'
<1>1. IsFiniteSet(Workers') /\ Cardinality(Workers') <= Cardinality(Workers)
  BY Counts, FS_Subset
<1>2. Cardinality(Workers') \in Nat
  BY <1>1, FS_CardinalityType
<1>3. Busy <= Threads /\ Threads' = Threads
  BY DEF TypeOK, Threads
<1>4. QED
  BY <1>1, <1>2, <1>3, Counts DEF Busy

\* A task that gets a free thread is one worker more at most.
LEMMA OneMoreWorker ==
    ASSUME TypeOK, Busy < Threads, NEW t, Workers' \subseteq Workers \union {t},
           client' = client, setup' = setup
    PROVE  Busy' <= Threads'
<1>1. /\ IsFiniteSet(Workers \union {t})
      /\ Cardinality(Workers \union {t}) <= Cardinality(Workers) + 1
  BY Counts, FS_AddElement
<1>2. IsFiniteSet(Workers') /\ Cardinality(Workers') <= Cardinality(Workers \union {t})
  BY <1>1, FS_Subset
<1>3. Cardinality(Workers') \in Nat /\ Cardinality(Workers \union {t}) \in Nat
  BY <1>1, <1>2, FS_CardinalityType
<1>4. Cardinality(Workers') <= Cardinality(Workers) + 1
  BY <1>1, <1>2, <1>3, Counts
<1>5. Threads' = Threads
  BY DEF Threads
<1>6. QED
  BY <1>3, <1>4, <1>5, Counts DEF Busy

\* A step that hands out no permit keeps to the limit.
LEMMA NoNewPermit ==
    ASSUME TypeOK, permits' \subseteq permits, setup' = setup
    PROVE  permits' \subseteq Tasks /\ Cardinality(permits') <= MaxConnections'
<1>1. IsFiniteSet(permits') /\ Cardinality(permits') <= Cardinality(permits)
  BY Counts, FS_Subset
<1>2. Cardinality(permits') \in Nat
  BY <1>1, FS_CardinalityType
<1>3. Cardinality(permits) <= MaxConnections /\ MaxConnections' = MaxConnections
  BY DEF TypeOK, MaxConnections
<1>4. QED
  BY <1>1, <1>2, <1>3, Counts DEF TypeOK

-----------------------------------------------------------------------------
(* The invariant IInv == TypeOK /\ OneTicketEach /\ Placed                   *)

\* A new client satisfies the invariant.
LEMMA InitIInv == Init => IInv
<1> SUFFICES ASSUME Init PROVE IInv
  OBVIOUS
<1>1. \A t \in Tasks : task[t] = "idle"
  BY DEF Init
<1>2. Workers = {}
  BY <1>1 DEF Workers, OnThread
<1>3. Threads \in Nat \ {0} /\ MaxConnections \in Nat \ {0} /\ Chunks \in Nat
  BY AsyncPoolAssumption DEF Init, Threads, MaxConnections
<1>4. Busy <= Threads /\ Cardinality(permits) <= MaxConnections
  BY <1>2, <1>3, FS_EmptySet DEF Init, Busy
<1>5. limiter = <<>> /\ pool = <<>>
  BY DEF Init
<1>6. TypeOK
  BY <1>3, <1>4 DEF Init, TypeOK, Phases
<1>7. OneTicketEach
  BY <1>5 DEF OneTicketEach, IsInjective
<1>8. \A x : ~Contains(limiter, x) /\ ~Contains(pool, x)
  BY <1>5 DEF Contains
<1>9. Placed
  BY <1>1, <1>8 DEF Init, Placed
<1>10. QED
  BY <1>6, <1>7, <1>9 DEF IInv

\* A waiter gets a worker thread.
LEMMA GetThreadKeeps == ASSUME IInv, NEW t \in Tasks, GetThread(t) PROVE IInv'
<1>1. /\ Tail(limiter) \in Seq(Tasks \union {"client"}) /\ IsInjective(Tail(limiter))
      /\ ~Contains(Tail(limiter), t) /\ Contains(limiter, t)
      /\ \A x : Contains(Tail(limiter), x) => Contains(limiter, x)
  BY PopFacts DEF IInv, TypeOK, OneTicketEach, GetThread
<1>2. t \notin stray \/ task[t] = "wantClose"
  BY <1>1 DEF IInv, Placed, GetThread, Queued
<1>3. task[t] = "queued" => ~Contains(pool, t) /\ t \notin stray /\ t \notin permits
  BY DEF IInv, Placed
<1>4. task[t] = "queued" =>
        /\ Append(pool, t) \in Seq(Tasks) /\ IsInjective(Append(pool, t))
        /\ \A x : Contains(Append(pool, t), x) <=> Contains(pool, x) \/ x = t
  BY <1>3, PushFacts DEF IInv, TypeOK, OneTicketEach
<1>5. /\ task' \in [Tasks -> Phases]
      /\ \A u \in Tasks : u # t => task'[u] = task[u]
  BY DEF IInv, TypeOK, GetThread, Goto, Phases, OnThread, Queued
<1>6. Workers' \subseteq Workers \union {t}
  BY <1>5 DEF Workers
<1>7. Busy' <= Threads'
  BY <1>6, OneMoreWorker DEF IInv, GetThread
<1>8. Cardinality(permits') <= MaxConnections'
  BY NoNewPermit DEF IInv, GetThread
<1>9. TypeOK'
  BY <1>1, <1>4, <1>5, <1>7, <1>8 DEF IInv, TypeOK, GetThread
<1>10. OneTicketEach'
  BY <1>1, <1>4 DEF IInv, OneTicketEach, GetThread
<1>11. Placed'
  <2>1. /\ limiter' = Tail(limiter)
        /\ UNCHANGED <<permits, stray, client>>
        /\ Placed /\ task \in [Tasks -> Phases]
    BY DEF IInv, TypeOK, GetThread
  <2>2. \/ task[t] = "queued" /\ task'[t] = "pooling" /\ pool' = Append(pool, t)
        \/ task[t] = "queued" /\ task'[t] = "done" /\ pool' = pool
        \/ task[t] = "wantRead" /\ task'[t] = "reading" /\ pool' = pool
        \/ task[t] = "wantClose" /\ task'[t] = "closing" /\ pool' = pool
    BY <2>1 DEF GetThread, Goto
  <2>3. \A x : Contains(pool', x) => Contains(pool, x) \/ (x = t /\ task'[t] = "pooling")
    BY <1>4, <2>2
  <2>4. Contains(limiter', "client") => client' = "closing"
    BY <1>1, <2>1 DEF Placed
  <2>5. ASSUME NEW u \in Tasks, u # t
        PROVE  /\ u \in stray' => task'[u] \in {"done", "wantClose", "closing"}
               /\ u \in permits' => u \in stray' \/ task'[u] \notin {"idle", "queued", "pooling", "done"}
               /\ Contains(pool', u) => u \notin permits' /\ (u \in stray' \/ task'[u] = "pooling")
               /\ Contains(limiter', u) => task'[u] \in Queued
    <3>1. task'[u] = task[u]
      BY <1>5, <2>5
    <3>2. QED
      BY <1>1, <2>1, <2>3, <2>5, <3>1 DEF Placed
  <2>6. /\ t \in stray' => task'[t] \in {"done", "wantClose", "closing"}
        /\ t \in permits' => t \in stray' \/ task'[t] \notin {"idle", "queued", "pooling", "done"}
        /\ Contains(pool', t) => t \notin permits' /\ (t \in stray' \/ task'[t] = "pooling")
        /\ Contains(limiter', t) => task'[t] \in Queued
    BY <1>1, <1>2, <1>3, <2>1, <2>2, <2>3 DEF Placed
  <2>7. QED
    BY <2>4, <2>5, <2>6 DEF Placed
<1>12. QED
  BY <1>9, <1>10, <1>11 DEF IInv

\* TypeOK after a step that puts nobody on a thread and hands out no permit.
LEMMA TypeKeeps ==
    ASSUME IInv, UNCHANGED <<setup, client>>,
           task' \in [Tasks -> Phases],
           \A u \in Tasks : task'[u] \in OnThread => task[u] \in OnThread,
           left' \in [Tasks -> 0 .. Chunks], permits' \subseteq permits, stray' \subseteq Tasks,
           pool' \in Seq(Tasks), limiter' \in Seq(Tasks \union {"client"})
    PROVE  TypeOK'
<1>1. TypeOK
  BY DEF IInv
<1>2. Workers' \subseteq Workers
  BY DEF Workers
<1>3. Busy' <= Threads'
  BY <1>1, <1>2, NoNewWorker
<1>4. permits' \subseteq Tasks /\ Cardinality(permits') <= MaxConnections'
  BY <1>1, NoNewPermit
<1>5. QED
  BY <1>1, <1>3, <1>4 DEF TypeOK

\* Asking for a thread: somebody new stands in the limiter's queue.
LEMMA AskFacts ==
    ASSUME IInv, NEW t \in Tasks, task[t] \notin Queued
    PROVE  /\ Append(limiter, t) \in Seq(Tasks \union {"client"})
           /\ IsInjective(Append(limiter, t))
           /\ \A x : Contains(Append(limiter, t), x) <=> Contains(limiter, x) \/ x = t
<1>1. ~Contains(limiter, t)
  BY DEF IInv, Placed
<1>2. QED
  BY <1>1, PushFacts DEF IInv, TypeOK, OneTicketEach

\* Steps of a task that only goes from one place to another.
LEMMA MoveKeeps ==
    ASSUME IInv, NEW t \in Tasks, Respond(t) \/ ReadChunk(t) \/ Again(t)
    PROVE  IInv'
<1>1. /\ task' \in [Tasks -> Phases] /\ left' \in [Tasks -> 0 .. Chunks]
      /\ \A u \in Tasks : u # t => task'[u] = task[u]
      /\ task'[t] \in {"open", "idle"}
  <2>1. \E p \in {"open", "idle"} : task' = [task EXCEPT ![t] = p]
    BY DEF Respond, ReadChunk, Again, Goto
  <2>2. left' \in [Tasks -> 0 .. Chunks]
    BY AsyncPoolAssumption DEF IInv, TypeOK, Respond, ReadChunk, Again
  <2>3. QED
    BY <2>1, <2>2 DEF IInv, TypeOK, Phases
<1>2. \/ task[t] \in {"exchange", "reading"} /\ task'[t] = "open"
      \/ task[t] = "done" /\ t \notin stray /\ task'[t] = "idle"
  BY DEF IInv, TypeOK, Respond, ReadChunk, Again, Goto
<1>3. UNCHANGED <<setup, permits, limiter, pool, stray, client>>
  BY DEF Respond, ReadChunk, Again
<1>4. TypeOK'
  BY <1>1, <1>3, TypeKeeps DEF IInv, TypeOK, OnThread
<1>5. OneTicketEach'
  BY <1>3 DEF IInv, OneTicketEach
<1>6. Placed'
  BY <1>1, <1>2, <1>3 DEF IInv, Placed, Queued
<1>7. QED
  BY <1>4, <1>5, <1>6 DEF IInv

\* Steps of a task that asks for a thread.
LEMMA AskKeeps ==
    ASSUME IInv, NEW t \in Tasks, Send(t) \/ Read(t) \/ ReadEnds(t) \/ Leave(t)
    PROVE  IInv'
<1>1. /\ task' \in [Tasks -> Phases] /\ left' \in [Tasks -> 0 .. Chunks]
      /\ \A u \in Tasks : u # t => task'[u] = task[u]
  <2>1. \E p \in Queued : task' = [task EXCEPT ![t] = p]
    BY DEF Send, Read, ReadEnds, Leave, Ask, Goto, Queued
  <2>2. left' \in [Tasks -> 0 .. Chunks]
    BY AsyncPoolAssumption DEF IInv, TypeOK, Send, Read, ReadEnds, Leave
  <2>3. QED
    BY <2>1, <2>2 DEF IInv, TypeOK, Phases
<1>2. \/ task[t] = "idle" /\ task'[t] = "queued" /\ permits' = permits
      \/ task[t] = "open" /\ task'[t] \in {"wantRead", "wantClose"} /\ permits' = permits
      \/ task[t] = "reading" /\ task'[t] = "wantClose" /\ permits' = permits \ {t}
  BY DEF IInv, TypeOK, Send, Read, ReadEnds, Leave, Ask, Goto
<1>3. UNCHANGED <<setup, pool, stray, client>> /\ limiter' = Append(limiter, t)
  BY DEF Send, Read, ReadEnds, Leave, Ask
<1>4. /\ limiter' \in Seq(Tasks \union {"client"}) /\ IsInjective(limiter')
      /\ \A x : Contains(limiter', x) <=> Contains(limiter, x) \/ x = t
  BY <1>2, <1>3, AskFacts DEF Queued
<1>5. TypeOK'
  BY <1>1, <1>2, <1>3, <1>4, TypeKeeps DEF IInv, TypeOK, OnThread
<1>6. OneTicketEach'
  BY <1>3, <1>4 DEF IInv, OneTicketEach
<1>7. Placed'
  BY <1>1, <1>2, <1>3, <1>4, AsyncPoolAssumption DEF IInv, Placed, Queued
<1>8. QED
  BY <1>5, <1>6, <1>7 DEF IInv

\* A free permit goes to the oldest call that waits for one.
LEMMA GetPermitKeeps == ASSUME IInv, NEW t \in Tasks, GetPermit(t) PROVE IInv'
<1>1. /\ pool' \in Seq(Tasks) /\ IsInjective(pool')
      /\ ~Contains(pool', t) /\ Contains(pool, t)
      /\ \A x : Contains(pool', x) => Contains(pool, x)
  BY PopFacts DEF IInv, TypeOK, OneTicketEach, GetPermit
<1>2. \/ t \in stray /\ task' = task
      \/ t \notin stray /\ task[t] = "pooling" /\ task' = [task EXCEPT ![t] = "exchange"]
  BY <1>1 DEF IInv, Placed, GetPermit, Goto
<1>3. /\ task' \in [Tasks -> Phases]
      /\ \A u \in Tasks : u # t => task'[u] = task[u]
  BY <1>2 DEF IInv, TypeOK, Phases, OnThread
<1>4. UNCHANGED <<setup, left, limiter, stray, client>> /\ permits' = permits \union {t}
  BY DEF GetPermit
<1>5. Busy' <= Threads'
  <2>1. Workers' \subseteq Workers
    BY <1>2, <1>3 DEF Workers, OnThread
  <2>2. QED
    BY <1>4, <2>1, NoNewWorker DEF IInv
<1>6. Cardinality(permits') <= MaxConnections'
  <2>1. Cardinality(permits') <= Cardinality(permits) + 1 /\ Cardinality(permits') \in Nat
    <3>1. IsFiniteSet(permits) /\ Cardinality(permits) \in Nat
      BY Counts DEF IInv
    <3>2. /\ IsFiniteSet(permits \union {t})
          /\ Cardinality(permits \union {t})
               = IF t \in permits THEN Cardinality(permits) ELSE Cardinality(permits) + 1
      BY <3>1, FS_AddElement
    <3>3. QED
      BY <1>4, <3>1, <3>2
  <2>2. Cardinality(permits) < MaxConnections /\ MaxConnections' = MaxConnections
    BY <1>4 DEF GetPermit, MaxConnections
  <2>3. QED
    BY <2>1, <2>2, Counts DEF IInv
<1>7. TypeOK'
  BY <1>1, <1>3, <1>4, <1>5, <1>6 DEF IInv, TypeOK
<1>8. OneTicketEach'
  BY <1>1, <1>4 DEF IInv, OneTicketEach
<1>9. Placed'
  BY <1>1, <1>2, <1>3, <1>4 DEF IInv, Placed, TypeOK, Queued
<1>10. QED
  BY <1>7, <1>8, <1>9 DEF IInv

\* Steps that leave the pool's queue or give a permit back.
LEMMA GiveUpKeeps ==
    ASSUME IInv, NEW t \in Tasks,
           StrayEnds(t) \/ LeavePool(t) \/ ExchangeFails(t) \/ CloseEnds(t)
    PROVE  IInv'
<1>1. /\ Without(pool, t) \in Seq(Tasks) /\ IsInjective(Without(pool, t))
      /\ ~Contains(Without(pool, t), t)
      /\ \A x : Contains(Without(pool, t), x) => Contains(pool, x)
  BY WithoutFacts DEF IInv, TypeOK, OneTicketEach
<1>2. \/ /\ t \in stray /\ stray' = stray \ {t} /\ task' = task
         /\ permits' = permits \ {t} /\ pool' = Without(pool, t)
      \/ /\ t \notin stray /\ task[t] = "pooling" /\ task' = [task EXCEPT ![t] = "done"]
         /\ UNCHANGED <<permits, stray>> /\ pool' = Without(pool, t)
      \/ /\ task[t] \in {"exchange", "closing"} /\ task' = [task EXCEPT ![t] = "done"]
         /\ permits' = permits \ {t} /\ UNCHANGED <<pool, stray>>
  BY DEF StrayEnds, LeavePool, ExchangeFails, CloseEnds, Goto
<1>3. /\ task' \in [Tasks -> Phases]
      /\ \A u \in Tasks : u # t => task'[u] = task[u]
      /\ task'[t] \in {task[t], "done"}
  BY <1>2 DEF IInv, TypeOK, Phases
<1>4. UNCHANGED <<setup, left, limiter, client>>
  BY DEF StrayEnds, LeavePool, ExchangeFails, CloseEnds
<1>5. /\ pool' \in Seq(Tasks) /\ IsInjective(pool')
      /\ \A x : Contains(pool', x) => Contains(pool, x)
  BY <1>1, <1>2 DEF IInv, TypeOK, OneTicketEach
<1>6. TypeOK'
  BY <1>2, <1>3, <1>4, <1>5, TypeKeeps DEF IInv, TypeOK, OnThread
<1>7. OneTicketEach'
  BY <1>4, <1>5 DEF IInv, OneTicketEach
<1>8. Placed'
  BY <1>1, <1>2, <1>3, <1>4, <1>5 DEF IInv, Placed, TypeOK, Queued
<1>9. QED
  BY <1>6, <1>7, <1>8 DEF IInv

\* A task is cancelled while it sends or reads.
LEMMA CancelKeeps ==
    ASSUME IInv, NEW t \in Tasks, CancelSend(t) \/ CancelRead(t)
    PROVE  IInv'
<1> DEFINE rest == Without(limiter, t)
<1>1. /\ rest \in Seq(Tasks \union {"client"}) /\ IsInjective(rest)
      /\ ~Contains(rest, t)
      /\ \A x : Contains(rest, x) => Contains(limiter, x)
  BY WithoutFacts DEF IInv, TypeOK, OneTicketEach
<1>2. /\ Append(rest, t) \in Seq(Tasks \union {"client"}) /\ IsInjective(Append(rest, t))
      /\ \A x : Contains(Append(rest, t), x) <=> Contains(rest, x) \/ x = t
  BY <1>1, PushFacts
<1>3. /\ UNCHANGED <<setup, left, permits, pool, client>>
      /\ stray' = IF task[t] \in OnThread THEN stray \union {t} ELSE stray
  BY DEF CancelSend, CancelRead
<1>4. \/ /\ task[t] \in {"queued", "pooling", "exchange"}
         /\ task' = [task EXCEPT ![t] = "done"] /\ limiter' = rest
      \/ /\ task[t] \in {"wantRead", "reading"}
         /\ task' = [task EXCEPT ![t] = "wantClose"] /\ limiter' = Append(rest, t)
  BY DEF CancelSend, CancelRead, Goto
<1> HIDE DEF rest
<1>5. /\ task' \in [Tasks -> Phases]
      /\ \A u \in Tasks : u # t => task'[u] = task[u]
      /\ task'[t] \in {"done", "wantClose"}
  BY <1>4 DEF IInv, TypeOK, Phases, Queued
<1>6. /\ limiter' \in Seq(Tasks \union {"client"}) /\ IsInjective(limiter')
      /\ \A x : Contains(limiter', x) => Contains(limiter, x) \/ x = t
      /\ Contains(limiter', t) => task'[t] = "wantClose"
  BY <1>1, <1>2, <1>4 DEF IInv, TypeOK
<1>7. TypeOK'
  BY <1>3, <1>5, <1>6, TypeKeeps DEF IInv, TypeOK, OnThread
<1>8. OneTicketEach'
  BY <1>3, <1>6 DEF IInv, OneTicketEach
<1>9. Placed'
  BY <1>3, <1>4, <1>5, <1>6, AsyncPoolAssumption DEF IInv, Placed, TypeOK, Queued, OnThread
<1>10. QED
  BY <1>7, <1>8, <1>9 DEF IInv

\* aclose() of the client asks for a thread, gets it and returns.
LEMMA ClientKeeps ==
    ASSUME IInv, CloseClient \/ ClientGetsThread \/ ClientClosed
    PROVE  IInv'
<1>1. UNCHANGED <<setup, task, left, permits, pool, stray>>
  BY DEF CloseClient, ClientGetsThread, ClientClosed
<1>2. Workers' = Workers /\ Threads' = Threads /\ MaxConnections' = MaxConnections
  BY <1>1 DEF Workers, Threads, MaxConnections
<1>3. CASE CloseClient
  <2>1. ~Contains(limiter, "client")
    BY <1>3 DEF IInv, Placed, CloseClient
  <2>2. /\ limiter' \in Seq(Tasks \union {"client"}) /\ IsInjective(limiter')
        /\ \A x : Contains(limiter', x) <=> Contains(limiter, x) \/ x = "client"
    BY <1>3, <2>1, PushFacts DEF IInv, TypeOK, OneTicketEach, CloseClient
  <2>3. Busy' <= Threads'
    BY <1>2, <1>3 DEF IInv, TypeOK, Busy, CloseClient
  <2>4. TypeOK'
    BY <1>1, <1>2, <1>3, <2>2, <2>3 DEF IInv, TypeOK, CloseClient
  <2>5. OneTicketEach' /\ Placed'
    BY <1>1, <1>3, <2>2, AsyncPoolAssumption DEF IInv, OneTicketEach, Placed, CloseClient
  <2>6. QED
    BY <2>4, <2>5 DEF IInv
<1>4. CASE ClientGetsThread
  <2>1. /\ limiter' \in Seq(Tasks \union {"client"}) /\ IsInjective(limiter')
        /\ ~Contains(limiter', "client") /\ Contains(limiter, "client")
        /\ \A x : Contains(limiter', x) => Contains(limiter, x)
    BY <1>4, PopFacts DEF IInv, TypeOK, OneTicketEach, ClientGetsThread
  <2>2. client = "closing" /\ client' = "busy"
    BY <1>4, <2>1 DEF IInv, Placed, ClientGetsThread
  <2>3. Busy' <= Threads'
    <3>1. Cardinality(Workers) < Threads
      BY <1>4, <2>2, Counts DEF IInv, Busy, ClientGetsThread
    <3>2. QED
      BY <1>2, <2>2, <3>1, Counts DEF IInv, Busy
  <2>4. TypeOK'
    BY <1>1, <1>2, <2>1, <2>2, <2>3 DEF IInv, TypeOK
  <2>5. OneTicketEach' /\ Placed'
    BY <1>1, <2>1 DEF IInv, OneTicketEach, Placed
  <2>6. QED
    BY <2>4, <2>5 DEF IInv
<1>5. CASE ClientClosed
  <2>1. client = "busy" /\ client' = "closed" /\ limiter' = limiter
    BY <1>5 DEF ClientClosed
  <2>2. Busy' <= Threads'
    BY <1>2, <2>1, Counts DEF IInv, TypeOK, Busy
  <2>3. TypeOK'
    BY <1>1, <1>2, <2>1, <2>2 DEF IInv, TypeOK
  <2>4. OneTicketEach' /\ Placed'
    BY <1>1, <2>1 DEF IInv, OneTicketEach, Placed
  <2>5. QED
    BY <2>3, <2>4 DEF IInv
<1>6. QED
  BY <1>3, <1>4, <1>5

\* Every step keeps the invariant.
LEMMA NextIInv == IInv /\ [Next]_vars => IInv'
<1>1. ASSUME IInv, NEW t \in Tasks, Step(t) PROVE IInv'
  BY <1>1, GetThreadKeeps, GetPermitKeeps, GiveUpKeeps, MoveKeeps, AskKeeps, CancelKeeps
     DEF Step
<1>2. ASSUME IInv, UNCHANGED vars PROVE IInv'
  BY <1>2 DEF IInv, TypeOK, OneTicketEach, Placed, Busy, Workers, Threads, MaxConnections, vars
<1>3. QED
  BY <1>1, <1>2, ClientKeeps DEF Next

\* The inductive invariant holds always.
THEOREM Invariance == Spec => []IInv
BY InitIInv, NextIInv, PTL DEF Spec

-----------------------------------------------------------------------------
(* What follows                                                             *)

\* Types, and the two limits: never more busy threads than anyio's limiter has
\* tokens, never more permits out than max_connections.
THEOREM TypeCorrect == Spec => []TypeOK
<1>1. IInv => TypeOK
  BY DEF IInv
<1>2. QED
  BY <1>1, Invariance, PTL

\* Between requests a task holds nothing and waits for nothing, whatever was
\* cancelled before (httpxp/_transports/default.py:219-246).
THEOREM NothingHeld == Spec => []NothingHeldBetweenRequests
<1>1. IInv => NothingHeldBetweenRequests
  BY DEF IInv, Placed, Queued, NothingHeldBetweenRequests
<1>2. QED
  BY <1>1, Invariance, PTL

\* Threads that wait for permits and responses that wait for threads cannot
\* block each other while tasks are fewer than threads and permits together
\* (httpxp/_transports/default.py:288): in the circle each task would be either
\* a worker or the owner of a permit, and no task is both.
THEOREM FewTasksNeverBlock == Spec => []NoCircularWait
<1>1. ASSUME IInv, CircularWait PROVE Cardinality(Tasks) >= Threads + MaxConnections
  <2>1. Workers \intersect permits = {}
    BY <1>1 DEF IInv, Placed, CircularWait, Workers
  <2>2. Cardinality(Workers) = Threads /\ Cardinality(permits) = MaxConnections
    BY <1>1, Counts DEF IInv, CircularWait, Busy
  <2>3. IsFiniteSet(Workers) /\ IsFiniteSet(permits)
    BY <1>1, Counts DEF IInv
  <2>4. Cardinality(Workers \union permits) = Threads + MaxConnections
    BY <1>1, <2>1, <2>2, <2>3, FS_Union, FS_EmptySet, Counts DEF IInv
  <2>5. Workers \union permits \subseteq Tasks
    BY <1>1 DEF IInv, TypeOK, Workers
  <2>6. Cardinality(Workers \union permits) <= Cardinality(Tasks)
    BY <2>5, FS_Subset, AsyncPoolAssumption
  <2>7. QED
    BY <2>4, <2>6
<1>2. IInv => NoCircularWait
  <2>1. IInv => Threads + MaxConnections \in Nat /\ Cardinality(Tasks) \in Nat
    BY Counts, AsyncPoolAssumption, FS_CardinalityType DEF IInv
  <2>2. QED
    BY <1>1, <2>1 DEF NoCircularWait
<1>3. QED
  BY <1>2, Invariance, PTL

-----------------------------------------------------------------------------
(* AsyncPool implements ConnectionGate                                      *)

\* Every step of a task is a step of the gate, or nothing the gate can see.
LEMMA StepIsGated ==
    ASSUME IInv, NEW t \in Tasks, Step(t), NEW n \in Nat, MaxConnections = n
    PROVE  Gate(n)!GateNext \/ UNCHANGED <<permits, client>>
<1>1. CASE GetPermit(t)
  <2>1. Contains(pool, t)
    BY <1>1, PopFacts DEF IInv, TypeOK, OneTicketEach, GetPermit
  <2>2. /\ t \notin permits /\ permits' = permits \union {t}
        /\ client # "closed" /\ client' = client
        /\ Cardinality(permits) < n
    BY <1>1, <2>1 DEF IInv, Placed, GetPermit
  <2>3. Gate(n)!Enter(t)
    <3>1. Gate(n)!Cardinality(permits) = Cardinality(permits)
      BY DEF Gate!Cardinality, Cardinality
    <3>2. QED
      BY <2>2, <3>1 DEF Gate!Enter
  <2>4. QED
    BY <2>3 DEF Gate!GateNext
<1>2. CASE permits' = permits \ {t} /\ UNCHANGED client
  <2>1. CASE t \in permits
    BY <1>2, <2>1 DEF Gate!GateNext, Gate!Leave
  <2>2. CASE t \notin permits
    BY <1>2, <2>2
  <2>3. QED
    BY <2>1, <2>2
<1>3. Step(t) => GetPermit(t) \/ (permits' \in {permits, permits \ {t}} /\ UNCHANGED client)
  BY DEF Step, GetThread, StrayEnds, Send, LeavePool, ExchangeFails, Respond, Read, ReadChunk,
     ReadEnds, Leave, CloseEnds, CancelSend, CancelRead, Again, Ask
<1>4. QED
  BY <1>1, <1>2, <1>3

\* What the native gate promises to threads, an AsyncClient keeps for tasks that
\* abandon their threads (httpxp/_transports/default.py:219-308).
THEOREM TasksImplementGate == Spec => ImplementsGate
<1> SUFFICES ASSUME NEW n \in Nat PROVE Spec => (MaxConnections = n => Gate(n)!GateSpec)
  BY DEF ImplementsGate
<1>1. Init => Gate(n)!GateInit
  BY DEF Init, Gate!GateInit
<1>2. MaxConnections = n /\ [Next]_vars => (MaxConnections = n)'
  <2> SUFFICES ASSUME [Next]_vars PROVE setup' = setup
    BY DEF MaxConnections
  <2>1. QED
    BY DEF Next, vars, Step, GetThread, StrayEnds, Send, GetPermit, LeavePool, ExchangeFails,
       Respond, Read, ReadChunk, ReadEnds, Leave, CloseEnds, CancelSend, CancelRead, Again,
       CloseClient, ClientGetsThread, ClientClosed
<1>3. IInv /\ MaxConnections = n /\ [Next]_vars => [Gate(n)!GateNext]_(Gate(n)!gateVars)
  <2> SUFFICES ASSUME IInv, MaxConnections = n, [Next]_vars
               PROVE  Gate(n)!GateNext \/ UNCHANGED <<permits, client = "closed">>
    BY DEF Gate!gateVars
  <2>1. CASE \E t \in Tasks : Step(t)
    BY <2>1, StepIsGated
  <2>2. CASE CloseClient \/ ClientGetsThread \/ UNCHANGED vars
    BY <2>2, PopFacts DEF CloseClient, ClientGetsThread, IInv, TypeOK, OneTicketEach, Placed, vars
  <2>3. CASE ClientClosed
    BY <2>3 DEF ClientClosed, Gate!GateNext, Gate!Shut
  <2>4. QED
    BY <2>1, <2>2, <2>3 DEF Next
<1>4. QED
  BY <1>1, <1>2, <1>3, Invariance, PTL DEF Spec, Gate!GateSpec
===============================================================================
