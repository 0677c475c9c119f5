-------------------------- MODULE ClientRequestsProofs --------------------------
(* Proofs about ClientSend and ClientRequests for every redirect limit, every *)
(* size of the body and every choice of URLs, methods and headers.            *)
EXTENDS ClientRequests, FiniteSetTheorems, SequenceTheorems, TLAPS

-----------------------------------------------------------------------------
(* Steps that change the response in hand                                   *)

\* A sequence with one element replaced.
LEMMA Excepted ==
    ASSUME NEW S, NEW s \in Seq(S), NEW i \in 1 .. Len(s), NEW e \in S,
           NEW t, t = [s EXCEPT ![i] = e]
    PROVE  /\ t \in Seq(S)
           /\ Len(t) = Len(s)
           /\ \A j \in 1 .. Len(s) : t[j] = IF j = i THEN e ELSE s[j]
<1>1. t \in Seq(S)
  OBVIOUS
<1>2. Len(t) = Len(s)
  OBVIOUS
<1>3. \A j \in 1 .. Len(s) : t[j] = IF j = i THEN e ELSE s[j]
  OBVIOUS
<1>4. QED
  BY <1>1, <1>2, <1>3

\* The response in hand is replaced; the others stay as they are.
Touched ==
    /\ responses' \in Seq(Response)
    /\ Len(responses') = Len(responses)
    /\ responses'[Len(responses)].kind = responses[Len(responses)].kind
    /\ \A i \in 1 .. Len(responses) : i # Len(responses) => responses'[i] = responses[i]

\* Putting another response of the same kind in its place is such a change.
LEMMA Replace ==
    ASSUME TypeOK, cur > 0, NEW new \in Response, new.kind = responses[cur].kind,
           responses' = [responses EXCEPT ![cur] = new]
    PROVE  Touched /\ responses'[cur] = new
<1>1. responses \in Seq(Response) /\ Len(responses) \in 1 .. Len(responses)
  BY DEF TypeOK, cur
<1>2. /\ responses' \in Seq(Response)
      /\ Len(responses') = Len(responses)
      /\ \A j \in 1 .. Len(responses) :
            responses'[j] = IF j = Len(responses) THEN new ELSE responses[j]
  <2> DEFINE last == Len(responses)
  <2>1. last \in 1 .. Len(responses) /\ responses' = [responses EXCEPT ![last] = new]
    BY <1>1 DEF cur
  <2> HIDE DEF last
  <2>2. /\ responses' \in Seq(Response)
        /\ Len(responses') = Len(responses)
        /\ \A j \in 1 .. Len(responses) :
              responses'[j] = IF j = last THEN new ELSE responses[j]
    BY ONLY <1>1, <2>1, new \in Response, Excepted, SMT
  <2>3. QED
    BY <2>2 DEF last
<1>3. QED
  BY <1>1, <1>2 DEF Touched, cur

\* Setting its open flag is such a change.
LEMMA SetOpen ==
    ASSUME TypeOK, cur > 0, NEW stillOpen \in BOOLEAN,
           responses' = [responses EXCEPT ![cur].open = stillOpen]
    PROVE  /\ Touched
           /\ responses'[cur].open = stillOpen
           /\ responses'[cur].history = responses[cur].history
<1> DEFINE new == [responses[cur] EXCEPT !.open = stillOpen]
<1>1. cur \in 1 .. Len(responses) /\ responses[cur] \in Response
  BY ElementOfSeq DEF TypeOK, cur
<1>2. new \in Response
  BY <1>1 DEF Response
<1>3. new.kind = responses[cur].kind
  BY <1>1 DEF Response
<1>4. responses' = [responses EXCEPT ![cur] = new]
  OBVIOUS
<1> HIDE DEF new
<1>5. Touched /\ responses'[cur] = new
  BY <1>2, <1>3, <1>4, Replace
<1>6. QED
  BY <1>1, <1>5 DEF new, Response

\* Setting its history as well.
LEMMA SetHistory ==
    ASSUME TypeOK, cur > 0, NEW stillOpen \in BOOLEAN, NEW h \in Seq(Nat),
           responses' = [responses EXCEPT ![cur].history = h, ![cur].open = stillOpen]
    PROVE  /\ Touched
           /\ responses'[cur].open = stillOpen
           /\ responses'[cur].history = h
<1> DEFINE new == [responses[cur] EXCEPT !.history = h, !.open = stillOpen]
<1>1. cur \in 1 .. Len(responses) /\ responses[cur] \in Response
  BY ElementOfSeq DEF TypeOK, cur
<1>2. new \in Response
  BY <1>1 DEF Response
<1>3. new.kind = responses[cur].kind
  BY <1>1 DEF Response
<1>4. responses' = [responses EXCEPT ![cur] = new]
  BY <1>1 DEF TypeOK, cur, Response
<1> HIDE DEF new
<1>5. Touched /\ responses'[cur] = new
  BY <1>2, <1>3, <1>4, Replace
<1>6. QED
  BY <1>1, <1>5 DEF new, Response

\* Offering the next request changes neither.
LEMMA SetNext ==
    ASSUME TypeOK, cur > 0, responses' = [responses EXCEPT ![cur].next = TRUE]
    PROVE  /\ Touched
           /\ responses'[cur].open = responses[cur].open
           /\ responses'[cur].history = responses[cur].history
<1> DEFINE new == [responses[cur] EXCEPT !.next = TRUE]
<1>1. cur \in 1 .. Len(responses) /\ responses[cur] \in Response
  BY ElementOfSeq DEF TypeOK, cur
<1>2. new \in Response
  BY <1>1 DEF Response
<1>3. new.kind = responses[cur].kind
  BY <1>1 DEF Response
<1>4. responses' = [responses EXCEPT ![cur] = new]
  OBVIOUS
<1> HIDE DEF new
<1>5. Touched /\ responses'[cur] = new
  BY <1>2, <1>3, <1>4, Replace
<1>6. QED
  BY <1>1, <1>5 DEF new, Response

\* Kinds stay, and so do the types.
LEMMA TouchedKeeps ==
    ASSUME TypeOK, cur > 0, Touched
    PROVE  /\ cur' = cur
           /\ \A i \in 1 .. cur : responses'[i].kind = responses[i].kind
           /\ \A i \in 1 .. cur : i # cur => responses'[i].open = responses[i].open
BY DEF TypeOK, Touched, cur

\* The histories hold numbers of responses.
LEMMA Numbers ==
    ASSUME TypeOK
    PROVE  /\ cur \in Nat /\ leg \in Nat
           /\ Len(history) \in Nat /\ Len(authHistory) \in Nat /\ Len(followed) \in Nat
           /\ \A i \in 1 .. Len(history) : history[i] \in 1 .. cur
           /\ \A i \in 1 .. Len(authHistory) : authHistory[i] \in 1 .. cur
           /\ \A i \in 1 .. Len(followed) : followed[i] \in 1 .. cur
<1>1. cur \in Nat /\ leg \in Nat
  BY MaxRedirectsAssumption DEF TypeOK, cur
<1>2. /\ history \in Seq(1 .. cur) /\ authHistory \in Seq(1 .. cur)
      /\ followed \in Seq(1 .. cur)
  BY Zenon DEF TypeOK, cur
<1>3. \A S : \A s \in Seq(S) : Len(s) \in Nat /\ \A i \in 1 .. Len(s) : s[i] \in S
  OBVIOUS
<1>4. QED
  BY <1>1, <1>2, <1>3, Zenon

\* What is remembered does not change with the responses.
LEMMA StillRemembered ==
    ASSUME FollowedRemembered, UNCHANGED <<authHistory, history, followed>>
    PROVE  FollowedRemembered'
BY DEF FollowedRemembered

-----------------------------------------------------------------------------
(* The invariant CallInv of ClientSend                                      *)

\* A call begins without a response.
LEMMA InitCallInv == Init => CallInv
<1> SUFFICES ASSUME Init PROVE CallInv
  OBVIOUS
<1> USE MaxRedirectsAssumption DEF Init, cur, InHand
<1>1. TypeOK
  BY DEF TypeOK
<1>2. OpenSound
  BY DEF OpenSound, OneOpenAtATime, NothingLeftOpen
<1>3. HistoriesSound
  BY DEF HistoriesSound
<1>4. LimitSound /\ AttachedSound
  BY DEF LimitSound, AttachedSound
<1>5. FollowedSound
  BY DEF FollowedSound, FollowedRemembered
<1>6. QED
  BY <1>1, <1>2, <1>3, <1>4, <1>5 DEF CallInv

\* A step that closes the response in hand and raises, wherever it happens.
LEMMA RaisingKeeps ==
    ASSUME CallInv, pc \in InHand, CloseAndRaise
    PROVE  CallInv'
<1>1. TypeOK /\ cur > 0
  BY DEF CallInv, OpenSound
<1>2. Touched /\ responses'[cur].open = FALSE
  BY <1>1, SetOpen DEF CloseAndRaise
<1>3. /\ cur' = cur
      /\ \A i \in 1 .. cur : responses'[i].kind = responses[i].kind
      /\ \A i \in 1 .. cur : i # cur => responses'[i].open = responses[i].open
  BY <1>1, <1>2, TouchedKeeps
<1>4. /\ pc' = "done" /\ outcome' = "raised"
      /\ UNCHANGED <<follow, stream, authHistory, history, leg, followed>>
  BY DEF CloseAndRaise
<1>5. TypeOK'
  BY <1>1, <1>2, <1>3, <1>4 DEF TypeOK, Touched, cur
<1>6. OpenSound'
  BY <1>2, <1>3, <1>4 DEF CallInv, OpenSound, OneOpenAtATime, NothingLeftOpen, InHand
<1>7. HistoriesSound'
  BY <1>1, <1>3, <1>4, Numbers DEF CallInv, HistoriesSound, InHand
<1>8. LimitSound' /\ AttachedSound'
  BY <1>4 DEF LimitSound, AttachedSound
<1>9. FollowedSound'
  BY <1>1, <1>3, <1>4, Numbers, StillRemembered DEF CallInv, FollowedSound, InHand
<1>10. QED
  BY <1>5, <1>6, <1>7, <1>8, <1>9 DEF CallInv

\* The top of the redirect loop, and a request without a response.
LEMMA LoopKeeps ==
    ASSUME CallInv, CheckLimit \/ RequestFails
    PROVE  CallInv'
<1> USE DEF CallInv, CheckLimit, RequestFails, RaiseOnly, InHand, cur
<1>1. TypeOK'
  BY DEF TypeOK
<1>2. OpenSound'
  BY DEF OpenSound, OneOpenAtATime, NothingLeftOpen, TypeOK
<1>3. HistoriesSound'
  BY DEF HistoriesSound
<1>4. LimitSound'
  BY MaxRedirectsAssumption DEF LimitSound, HistoriesSound, TypeOK
<1>5. FollowedSound'
  BY StillRemembered DEF FollowedSound
<1>6. AttachedSound'
  BY DEF AttachedSound, OpenSound
<1>7. QED
  BY <1>1, <1>2, <1>3, <1>4, <1>5, <1>6

\* A response arrives.
LEMMA RespondKeeps ==
    ASSUME CallInv, NEW kind_ \in Kinds, Respond(kind_)
    PROVE  CallInv'
<1> DEFINE new == [kind |-> kind_, open |-> TRUE, history |-> <<>>, next |-> FALSE]
<1>1. TypeOK /\ new \in Response
  BY DEF CallInv, Response
<1>2. responses' = Append(responses, new) /\ pc = "single" /\ pc' = "hooks"
  BY DEF Respond
<1>3. UNCHANGED <<follow, stream, authHistory, history, outcome, leg, followed>>
  BY DEF Respond
<1>4. new.open = TRUE
  OBVIOUS
<1> HIDE DEF new
<1>5. /\ responses' \in Seq(Response) /\ cur' = cur + 1
      /\ \A i \in 1 .. cur : responses'[i] = responses[i]
      /\ responses'[cur + 1] = new
  BY <1>1, <1>2, AppendProperties DEF TypeOK, cur
<1>6. cur \in Nat
  BY <1>1 DEF TypeOK, cur
<1>7. TypeOK'
  BY <1>1, <1>2, <1>3, <1>5, <1>6 DEF TypeOK, cur
<1>8. OpenSound'
  BY <1>2, <1>3, <1>4, <1>5, <1>6 DEF CallInv, OpenSound, OneOpenAtATime, NothingLeftOpen, InHand
<1>9. /\ \A i \in 1 .. cur : responses'[i].kind = responses[i].kind
      /\ \A i \in 1 .. cur : i < cur'
      /\ \A i \in 1 .. Len(history) : history[i] \in 1 .. cur
      /\ \A i \in 1 .. Len(authHistory) : authHistory[i] \in 1 .. cur
      /\ \A i \in 1 .. Len(followed) : followed[i] \in 1 .. cur
      /\ Len(authHistory) <= Len(history)
  BY <1>1, <1>5, <1>6, Numbers DEF CallInv, HistoriesSound
<1>10. HistoriesSound'
  BY <1>2, <1>3, <1>9, Numbers DEF CallInv, HistoriesSound, InHand
<1>11. LimitSound'
  BY <1>2, <1>3 DEF CallInv, LimitSound
<1>12. FollowedSound'
  <2>1. FollowedRemembered'
    BY <1>3, StillRemembered DEF CallInv, FollowedSound
  <2>2. \A i \in 1 .. Len(followed) : responses[followed[i]].kind = "redirect"
    BY DEF CallInv, FollowedSound
  <2>3. \A i \in 1 .. Len(followed) :
            responses'[followed[i]].kind = "redirect" /\ followed[i] < cur'
    <3> SUFFICES ASSUME NEW i \in 1 .. Len(followed)
                 PROVE  responses'[followed[i]].kind = "redirect" /\ followed[i] < cur'
      OBVIOUS
    <3>1. followed[i] \in 1 .. cur
      BY <1>9
    <3>2. responses'[followed[i]].kind = responses[followed[i]].kind /\ followed[i] < cur'
      BY <1>9, <3>1
    <3>3. QED
      BY <2>2, <3>2
  <2>4. QED
    BY <1>2, <1>3, <2>1, <2>3 DEF FollowedSound
<1>13. AttachedSound'
  BY <1>2, <1>3 DEF CallInv, AttachedSound, OpenSound
<1>14. QED
  BY <1>7, <1>8, <1>10, <1>11, <1>12, <1>13 DEF CallInv

\* The hooks have run: the history is attached.
LEMMA HooksKeep ==
    ASSUME CallInv, HooksPass
    PROVE  CallInv'
<1>1. TypeOK /\ cur > 0 /\ pc = "hooks"
  BY DEF CallInv, OpenSound, InHand, HooksPass
<1>2. PICK stillOpen \in BOOLEAN :
          responses' = [responses EXCEPT ![cur].history = history, ![cur].open = stillOpen]
  BY DEF HooksPass
<1>3. history \in Seq(Nat)
  BY <1>1 DEF TypeOK
<1>4. Touched /\ responses'[cur].history = history
  BY <1>1, <1>2, <1>3, SetHistory
<1>5. /\ cur' = cur
      /\ \A i \in 1 .. cur : responses'[i].kind = responses[i].kind
      /\ \A i \in 1 .. cur : i # cur => responses'[i].open = responses[i].open
  BY <1>1, <1>4, TouchedKeeps
<1>6. /\ pc' = IF IsRedirect(responses[cur].kind) THEN "location" ELSE "flow"
      /\ UNCHANGED <<follow, stream, authHistory, history, outcome, leg, followed>>
  BY DEF HooksPass
<1>7. TypeOK'
  BY <1>1, <1>4, <1>5, <1>6 DEF TypeOK, Touched, cur
<1>8. OpenSound'
  BY <1>1, <1>5, <1>6 DEF CallInv, OpenSound, OneOpenAtATime, NothingLeftOpen, InHand
<1>9. HistoriesSound'
  BY <1>1, <1>5, <1>6, Numbers DEF CallInv, HistoriesSound, InHand
<1>10. LimitSound'
  BY <1>1, <1>6 DEF CallInv, LimitSound
<1>11. FollowedSound'
  BY <1>1, <1>5, <1>6, Numbers, StillRemembered DEF CallInv, FollowedSound, InHand
<1>12. AttachedSound'
  <2>1. /\ Len(history) <= MaxRedirects /\ Len(authHistory) <= Len(history)
        /\ \A i \in 1 .. Len(history) : history[i] < cur
        /\ \A i \in 1 .. Len(followed) : followed[i] < cur
    BY <1>1 DEF CallInv, HistoriesSound, LimitSound, FollowedSound, InHand
  <2>2. \A i \in Len(history) + 1 .. Len(history) : FALSE
    BY Numbers, <1>1
  <2>3. responses'[cur'].history = history /\ Len(history) \in Nat
    BY <1>1, <1>4, <1>5, Numbers
  <2>4. UNCHANGED <<authHistory, history, followed>>
    BY <1>6
  <2>5. QED
    BY <1>5, <2>1, <2>2, <2>3, <2>4 DEF AttachedSound
<1>13. QED
  BY <1>7, <1>8, <1>9, <1>10, <1>11, <1>12 DEF CallInv

\* A redirect joins the history, and is followed or offered.
LEMMA LocationKeeps ==
    ASSUME CallInv, Location
    PROVE  CallInv'
<1>1. TypeOK /\ cur > 0 /\ pc = "location" /\ responses[cur].kind = "redirect"
  BY DEF CallInv, OpenSound, InHand, Location
<1>2. /\ history' = Append(history, cur)
      /\ UNCHANGED <<follow, stream, authHistory, outcome, leg, followed>>
      /\ pc' \in {"follow", "flow"}
  BY DEF Location
<1>3. /\ responses' \in Seq(Response) /\ cur' = cur
      /\ \A i \in 1 .. cur : responses'[i].kind = responses[i].kind
      /\ \A i \in 1 .. cur : responses'[i].open = responses[i].open
      /\ responses'[cur].history = responses[cur].history
  <2>1. CASE UNCHANGED responses
    BY <1>1, <2>1 DEF TypeOK, cur
  <2>2. CASE responses' = [responses EXCEPT ![cur].next = TRUE]
    <3>1. Touched /\ responses'[cur].open = responses[cur].open
                  /\ responses'[cur].history = responses[cur].history
      BY <1>1, <2>2, SetNext
    <3>2. QED
      BY <1>1, <3>1, TouchedKeeps DEF Touched
  <2>3. QED
    BY <2>1, <2>2 DEF Location
<1>4. /\ history' \in Seq(1 .. cur) /\ Len(history') = Len(history) + 1
      /\ \A i \in 1 .. Len(history) : history'[i] = history[i]
      /\ history'[Len(history) + 1] = cur
  <2>1. history \in Seq(1 .. cur) /\ cur \in 1 .. cur
    BY <1>1 DEF TypeOK, cur
  <2>2. QED
    BY <1>2, <2>1, AppendProperties
<1>5. \A i \in 1 .. Len(history') : i \in 1 .. Len(history) \/ i = Len(history) + 1
  BY <1>4, LenProperties
<1>6. /\ \A i \in 1 .. Len(history) : history[i] \in 1 .. cur /\ history[i] < cur
      /\ Len(history) \in Nat /\ Len(authHistory) \in Nat /\ leg \in Nat
      /\ Len(authHistory) = leg - 1 /\ Len(authHistory) <= Len(history)
  BY <1>1, Numbers DEF CallInv, HistoriesSound
<1>7. TypeOK'
  BY <1>1, <1>2, <1>3, <1>4 DEF TypeOK, cur
<1>8. OpenSound'
  BY <1>1, <1>2, <1>3 DEF CallInv, OpenSound, OneOpenAtATime, NothingLeftOpen, InHand
<1>9. HistoriesSound'
  <2>1. \A i \in 1 .. Len(authHistory) : history'[i] = authHistory[i] /\ history'[i] < cur
    BY <1>4, <1>6 DEF CallInv, HistoriesSound
  <2>2. \A i \in 1 .. Len(history') :
            responses'[history'[i]].kind = IF i < leg THEN "challenge" ELSE "redirect"
    <3> SUFFICES ASSUME NEW i \in 1 .. Len(history')
                 PROVE  responses'[history'[i]].kind = IF i < leg THEN "challenge" ELSE "redirect"
      OBVIOUS
    <3>1. CASE i \in 1 .. Len(history)
      <4>1. responses[history[i]].kind = IF i < leg THEN "challenge" ELSE "redirect"
        BY <3>1 DEF CallInv, HistoriesSound
      <4>2. responses'[history[i]].kind = responses[history[i]].kind
        BY <1>3, <1>6, <3>1
      <4>3. QED
        BY <1>4, <3>1, <4>1, <4>2
    <3>2. CASE i = Len(history) + 1
      <4>1. history'[i] = cur /\ ~(i < leg)
        BY <1>4, <1>6, <3>2
      <4>2. QED
        BY <1>1, <1>3, <4>1, Numbers
    <3>3. QED
      BY <1>5, <3>1, <3>2
  <2>3. \A i, j \in 1 .. Len(history') : i < j => history'[i] < history'[j]
    <3> SUFFICES ASSUME NEW i \in 1 .. Len(history'), NEW j \in 1 .. Len(history'), i < j
                 PROVE  history'[i] < history'[j]
      OBVIOUS
    <3>1. i \in 1 .. Len(history)
      BY <1>4, <1>6
    <3>2. CASE j \in 1 .. Len(history)
      BY <1>4, <3>1, <3>2 DEF CallInv, HistoriesSound
    <3>3. CASE j = Len(history) + 1
      BY <1>4, <1>6, <3>1, <3>3
    <3>4. QED
      BY <1>5, <3>2, <3>3
  <2>4. /\ Len(authHistory') = leg' - 1 /\ Len(authHistory') <= Len(history')
        /\ \A i \in 1 .. Len(authHistory') : history'[i] = authHistory'[i] /\ history'[i] < cur'
    BY <1>2, <1>3, <1>4, <1>6, <2>1
  <2>5. pc' \notin {"hooks", "location", "challenged"} /\ leg' = leg
    BY <1>2
  <2>6. QED
    BY <2>2, <2>3, <2>4, <2>5, Zenon DEF HistoriesSound
<1>10. LimitSound'
  BY <1>1, <1>2 DEF CallInv, LimitSound
<1>11. FollowedSound'
  <2>1. FollowedRemembered'
    <3>1. \A i \in 1 .. Len(history) : i \in 1 .. Len(history') /\ history'[i] = history[i]
      BY <1>4, <1>6
    <3>2. FollowedRemembered
      BY DEF CallInv, FollowedSound
    <3>3. QED
      BY <1>2, <3>1, <3>2 DEF FollowedRemembered
  <2>2. Len(history') > 0 /\ history'[Len(history')] = cur
    BY <1>4, <1>6
  <2>3. \A i \in 1 .. Len(followed) : followed[i] \in 1 .. cur
    BY <1>1, Numbers
  <2>4. \A i \in 1 .. Len(followed) : responses[followed[i]].kind = "redirect" /\ followed[i] < cur
    BY <1>1 DEF CallInv, FollowedSound, InHand
  <2>5. \A i \in 1 .. Len(followed) : responses'[followed[i]].kind = "redirect"
    BY <1>3, <2>3, <2>4
  <2>6. responses'[cur].kind = "redirect"
    BY <1>1, <1>3, Numbers
  <2>7. QED
    BY <1>2, <1>3, <2>1, <2>2, <2>4, <2>5, <2>6 DEF FollowedSound
<1>12. AttachedSound'
  <2> DEFINE h == responses[cur].history
  <2>1. /\ Len(h) <= MaxRedirects /\ Len(authHistory) <= Len(h) /\ Len(h) = Len(history)
        /\ \A i \in 1 .. Len(h) : h[i] = history[i] /\ h[i] < cur
        /\ \A i \in 1 .. Len(followed) : followed[i] < cur
    BY <1>1 DEF CallInv, AttachedSound
  <2>2. /\ \A i \in 1 .. Len(h) : h[i] = history'[i]
        /\ \A i \in Len(h) + 1 .. Len(history') : history'[i] = cur
        /\ Len(h) <= Len(history')
    BY <1>4, <1>6, <2>1
  <2>3. responses'[cur'].history = h
    BY <1>3
  <2> HIDE DEF h
  <2>4. outcome' # "returned" /\ pc' # "location"
    BY <1>1, <1>2 DEF CallInv, OpenSound
  <2>5. QED
    BY <1>2, <1>3, <2>1, <2>2, <2>3, <2>4 DEF AttachedSound
<1>13. QED
  BY <1>7, <1>8, <1>9, <1>10, <1>11, <1>12 DEF CallInv

\* A redirect has been read, and the next request is sent.
LEMMA FollowKeeps ==
    ASSUME CallInv, Follow
    PROVE  CallInv'
<1>1. TypeOK /\ cur > 0 /\ pc = "follow" /\ responses[cur].kind = "redirect"
  BY DEF CallInv, OpenSound, FollowedSound, InHand, Follow
<1>2. Touched /\ responses'[cur].open = FALSE
  BY <1>1, SetOpen DEF Follow
<1>3. /\ cur' = cur
      /\ \A i \in 1 .. cur : responses'[i].kind = responses[i].kind
      /\ \A i \in 1 .. cur : i # cur => responses'[i].open = responses[i].open
  BY <1>1, <1>2, TouchedKeeps
<1>4. /\ pc' = "loop" /\ followed' = Append(followed, cur)
      /\ UNCHANGED <<follow, stream, authHistory, history, outcome, leg>>
  BY DEF Follow
<1>5. /\ followed' \in Seq(1 .. cur) /\ Len(followed') = Len(followed) + 1
      /\ \A i \in 1 .. Len(followed) : followed'[i] = followed[i]
      /\ followed'[Len(followed) + 1] = cur
  <2>1. followed \in Seq(1 .. cur) /\ cur \in 1 .. cur
    BY <1>1 DEF TypeOK, cur
  <2>2. QED
    BY <1>4, <2>1, AppendProperties
<1>6. TypeOK'
  BY <1>1, <1>2, <1>3, <1>4, <1>5 DEF TypeOK, Touched, cur
<1>7. OpenSound'
  BY <1>1, <1>2, <1>3, <1>4 DEF CallInv, OpenSound, OneOpenAtATime, NothingLeftOpen, InHand
<1>8. HistoriesSound'
  BY <1>1, <1>3, <1>4, Numbers DEF CallInv, HistoriesSound, InHand
<1>9. LimitSound'
  BY <1>4 DEF LimitSound
<1>10. FollowedSound'
  <2>1. /\ \A i \in 1 .. Len(followed') : i \in 1 .. Len(followed) \/ followed'[i] = cur
        /\ \A i \in 1 .. Len(followed) : followed[i] \in 1 .. cur
        /\ Len(history) > 0 => Len(history) \in 1 .. Len(history)
    BY <1>1, <1>5, Numbers
  <2>2. Len(history) > 0 /\ history[Len(history)] = cur
    BY <1>1 DEF CallInv, FollowedSound
  <2>3. FollowedRemembered'
    <3>1. FollowedRemembered
      BY DEF CallInv, FollowedSound
    <3>2. \A i \in 1 .. Len(followed) :
              \/ \E j \in 1 .. Len(history) : history[j] = followed'[i]
              \/ \E j \in 1 .. Len(authHistory) : followed'[i] < authHistory[j]
      BY <1>5, <3>1 DEF FollowedRemembered
    <3>3. \E j \in 1 .. Len(history) : history[j] = cur
      BY <2>1, <2>2
    <3>4. QED
      BY <1>4, <2>1, <3>2, <3>3 DEF FollowedRemembered
  <2>4. \A i \in 1 .. Len(followed') : responses'[followed'[i]].kind = "redirect"
    <3>1. \A i \in 1 .. Len(followed) : responses[followed[i]].kind = "redirect"
      BY DEF CallInv, FollowedSound
    <3>2. \A i \in 1 .. Len(followed) : responses'[followed[i]].kind = "redirect"
      BY <1>3, <2>1, <3>1
    <3>3. responses'[cur].kind = "redirect"
      BY <1>1, <1>3, Numbers
    <3>4. QED
      BY <1>5, <2>1, <3>2, <3>3
  <2>5. QED
    BY <1>4, <2>3, <2>4 DEF FollowedSound, InHand
<1>11. AttachedSound'
  BY <1>1, <1>4 DEF CallInv, AttachedSound, OpenSound
<1>12. QED
  BY <1>6, <1>7, <1>8, <1>9, <1>10, <1>11 DEF CallInv

\* The flow has looked at the response, and lets it go.
LEMMA StopsKeep ==
    ASSUME CallInv, FlowStops
    PROVE  CallInv'
<1>1. TypeOK /\ cur > 0 /\ pc = "flow" /\ responses[cur] \in Response
  BY ElementOfSeq DEF CallInv, OpenSound, InHand, FlowStops, TypeOK, cur
<1>2. /\ pc' = "final"
      /\ UNCHANGED <<follow, stream, authHistory, history, outcome, leg, followed>>
  BY DEF FlowStops
<1>3. Touched /\ responses'[cur].history = responses[cur].history
  <2>1. CASE UNCHANGED responses
    BY <1>1, <2>1 DEF Touched, TypeOK
  <2>2. CASE responses' = [responses EXCEPT ![cur].open = FALSE]
    BY <1>1, <2>2, SetOpen
  <2>3. QED
    BY <2>1, <2>2 DEF FlowStops
<1>4. /\ cur' = cur
      /\ \A i \in 1 .. cur : responses'[i].kind = responses[i].kind
      /\ \A i \in 1 .. cur : i # cur => responses'[i].open = responses[i].open
  BY <1>1, <1>3, TouchedKeeps
<1>5. TypeOK'
  BY <1>1, <1>2, <1>3, <1>4 DEF TypeOK, Touched, cur
<1>6. OpenSound'
  BY <1>1, <1>2, <1>4 DEF CallInv, OpenSound, OneOpenAtATime, NothingLeftOpen, InHand
<1>7. HistoriesSound'
  BY <1>1, <1>2, <1>4, Numbers DEF CallInv, HistoriesSound, InHand
<1>8. LimitSound'
  BY <1>1, <1>2 DEF CallInv, LimitSound
<1>9. FollowedSound'
  BY <1>1, <1>2, <1>4, Numbers, StillRemembered DEF CallInv, FollowedSound, InHand
<1>10. AttachedSound'
  BY <1>1, <1>2, <1>3, <1>4 DEF CallInv, AttachedSound, OpenSound
<1>11. QED
  BY <1>5, <1>6, <1>7, <1>8, <1>9, <1>10 DEF CallInv

\* The flow wants another request.
LEMMA ContinuesKeep ==
    ASSUME CallInv, FlowContinues
    PROVE  CallInv'
<1>1. TypeOK /\ cur > 0 /\ pc = "flow" /\ responses[cur].kind = "challenge"
  BY DEF CallInv, OpenSound, InHand, FlowContinues
<1>2. PICK stillOpen \in {FALSE, responses[cur].open} :
          responses' = [responses EXCEPT ![cur].history = authHistory, ![cur].open = stillOpen]
  BY DEF FlowContinues
<1>3. Touched
  <2>1. responses[cur] \in Response /\ authHistory \in Seq(Nat)
    BY <1>1, ElementOfSeq DEF TypeOK, cur
  <2>2. stillOpen \in BOOLEAN
    BY <2>1, Zenon DEF Response
  <2>3. QED
    BY <1>1, <1>2, <2>1, <2>2, SetHistory
<1>4. /\ cur' = cur
      /\ \A i \in 1 .. cur : responses'[i].kind = responses[i].kind
      /\ \A i \in 1 .. cur : i # cur => responses'[i].open = responses[i].open
  BY <1>1, <1>3, TouchedKeeps
<1>5. /\ pc' = "challenged"
      /\ UNCHANGED <<follow, stream, authHistory, history, outcome, leg, followed>>
  BY DEF FlowContinues
<1>6. responses'[cur].kind = "challenge"
  BY <1>1, <1>4, Numbers
<1>7. TypeOK'
  BY <1>1, <1>3, <1>4, <1>5 DEF TypeOK, Touched, cur
<1>8. OpenSound'
  BY <1>1, <1>4, <1>5 DEF CallInv, OpenSound, OneOpenAtATime, NothingLeftOpen, InHand
<1>9. HistoriesSound'
  BY <1>1, <1>4, <1>5, <1>6, Numbers DEF CallInv, HistoriesSound, InHand
<1>10. LimitSound'
  BY <1>1, <1>5 DEF CallInv, LimitSound
<1>11. FollowedSound'
  BY <1>1, <1>4, <1>5, Numbers, StillRemembered DEF CallInv, FollowedSound, InHand
<1>12. AttachedSound'
  BY <1>1, <1>5 DEF CallInv, AttachedSound, OpenSound
<1>13. QED
  BY <1>7, <1>8, <1>9, <1>10, <1>11, <1>12 DEF CallInv

\* The challenge has been read and joins the history.
LEMMA NextLegKeeps ==
    ASSUME CallInv, NextLeg
    PROVE  CallInv'
<1>1. TypeOK /\ cur > 0 /\ pc = "challenged" /\ responses[cur].kind = "challenge"
  BY DEF CallInv, OpenSound, HistoriesSound, InHand, NextLeg
<1>2. Touched /\ responses'[cur].open = FALSE
  BY <1>1, SetOpen DEF NextLeg
<1>3. /\ cur' = cur
      /\ \A i \in 1 .. cur : responses'[i].kind = responses[i].kind
      /\ \A i \in 1 .. cur : i # cur => responses'[i].open = responses[i].open
  BY <1>1, <1>2, TouchedKeeps
<1>4. /\ pc' = "loop" /\ authHistory' = Append(authHistory, cur) /\ history' = authHistory'
      /\ leg' = leg + 1
      /\ UNCHANGED <<follow, stream, outcome, followed>>
  BY DEF NextLeg
<1>5. /\ authHistory' \in Seq(1 .. cur) /\ Len(authHistory') = Len(authHistory) + 1
      /\ \A i \in 1 .. Len(authHistory) : authHistory'[i] = authHistory[i]
      /\ authHistory'[Len(authHistory) + 1] = cur
  <2>1. authHistory \in Seq(1 .. cur) /\ cur \in 1 .. cur
    BY <1>1 DEF TypeOK, cur
  <2>2. QED
    BY <1>4, <2>1, AppendProperties
<1>6. \A i \in 1 .. Len(authHistory') : i \in 1 .. Len(authHistory) \/ i = Len(authHistory) + 1
  BY <1>5, LenProperties
<1>7. /\ \A i \in 1 .. Len(authHistory) :
            /\ authHistory[i] \in 1 .. cur /\ authHistory[i] < cur
            /\ i \in 1 .. Len(history) /\ history[i] = authHistory[i] /\ i < leg
      /\ Len(authHistory) \in Nat /\ leg \in Nat /\ Len(authHistory) = leg - 1
      /\ cur \in 1 .. cur
  BY <1>1, Numbers DEF CallInv, HistoriesSound, InHand
<1>8. TypeOK'
  <2>1. leg' \in 1 .. MaxRedirects + 2
    BY <1>1, <1>4, <1>7, MaxRedirectsAssumption DEF CallInv, LimitSound
  <2>2. QED
    BY <1>1, <1>2, <1>3, <1>4, <1>5, <2>1 DEF TypeOK, Touched, cur
<1>9. OpenSound'
  BY <1>1, <1>2, <1>3, <1>4 DEF CallInv, OpenSound, OneOpenAtATime, NothingLeftOpen, InHand
<1>10. HistoriesSound'
  <2>1. \A i \in 1 .. Len(history') : responses'[history'[i]].kind = "challenge" /\ i < leg'
    <3> SUFFICES ASSUME NEW i \in 1 .. Len(authHistory')
                 PROVE  responses'[authHistory'[i]].kind = "challenge" /\ i < leg'
      BY <1>4
    <3>1. CASE i \in 1 .. Len(authHistory)
      <4>1. responses[history[i]].kind = "challenge"
        BY <1>7, <3>1 DEF CallInv, HistoriesSound
      <4>2. responses'[authHistory[i]].kind = "challenge"
        BY <1>3, <1>7, <3>1, <4>1
      <4>3. QED
        BY <1>4, <1>5, <1>7, <3>1, <4>2
    <3>2. CASE i = Len(authHistory) + 1
      BY <1>1, <1>3, <1>4, <1>5, <1>7, <3>2
    <3>3. QED
      BY <1>6, <3>1, <3>2
  <2>2. \A i, j \in 1 .. Len(history') : i < j => history'[i] < history'[j]
    <3> SUFFICES ASSUME NEW i \in 1 .. Len(authHistory'), NEW j \in 1 .. Len(authHistory'), i < j
                 PROVE  authHistory'[i] < authHistory'[j]
      BY <1>4
    <3>1. i \in 1 .. Len(authHistory)
      BY <1>5, <1>7
    <3>2. CASE j \in 1 .. Len(authHistory)
      BY <1>5, <1>7, <3>1, <3>2 DEF CallInv, HistoriesSound
    <3>3. CASE j = Len(authHistory) + 1
      BY <1>5, <1>7, <3>1, <3>3
    <3>4. QED
      BY <1>6, <3>2, <3>3
  <2>3. QED
    BY <1>4, <1>5, <1>7, <2>1, <2>2 DEF HistoriesSound, InHand
<1>11. LimitSound'
  BY <1>4 DEF LimitSound
<1>12. FollowedSound'
  <2>1. \A i \in 1 .. Len(followed) : followed[i] \in 1 .. cur /\ followed[i] < cur
    BY <1>1, Numbers DEF CallInv, FollowedSound, InHand
  <2>2. \E j \in 1 .. Len(authHistory') : authHistory'[j] = cur
    BY <1>5, <1>7
  <2>3. FollowedRemembered'
    BY <1>4, <2>1, <2>2 DEF FollowedRemembered
  <2>4. \A i \in 1 .. Len(followed) : responses[followed[i]].kind = "redirect"
    BY DEF CallInv, FollowedSound
  <2>5. \A i \in 1 .. Len(followed) : responses'[followed[i]].kind = "redirect"
    BY <1>3, <2>1, <2>4
  <2>6. QED
    BY <1>4, <2>3, <2>5 DEF FollowedSound, InHand
<1>13. AttachedSound'
  BY <1>1, <1>4 DEF CallInv, AttachedSound, OpenSound
<1>14. QED
  BY <1>8, <1>9, <1>10, <1>11, <1>12, <1>13 DEF CallInv

\* send() returns, and closes the response unless it is to be streamed.
LEMMA ReturnKeeps ==
    ASSUME CallInv, Return
    PROVE  CallInv'
<1>1. TypeOK /\ cur > 0 /\ pc = "final" /\ responses[cur] \in Response
  BY ElementOfSeq DEF CallInv, OpenSound, InHand, Return, TypeOK, cur
<1>2. /\ pc' = "done" /\ outcome' = "returned"
      /\ UNCHANGED <<follow, stream, authHistory, history, leg, followed>>
  BY DEF Return
<1>3. /\ Touched /\ responses'[cur].history = responses[cur].history
      /\ responses'[cur].open => stream
  <2>1. CASE stream
    BY <1>1, <2>1 DEF Touched, TypeOK, Return
  <2>2. CASE ~stream
    BY <1>1, <2>2, SetOpen DEF Return
  <2>3. QED
    BY <2>1, <2>2
<1>4. /\ cur' = cur
      /\ \A i \in 1 .. cur : responses'[i].kind = responses[i].kind
      /\ \A i \in 1 .. cur : i # cur => responses'[i].open = responses[i].open
  BY <1>1, <1>3, TouchedKeeps
<1>5. TypeOK'
  BY <1>1, <1>2, <1>3, <1>4 DEF TypeOK, Touched, cur
<1>6. OpenSound'
  BY <1>1, <1>2, <1>3, <1>4 DEF CallInv, OpenSound, OneOpenAtATime, NothingLeftOpen, InHand
<1>7. HistoriesSound'
  BY <1>1, <1>2, <1>4, Numbers DEF CallInv, HistoriesSound, InHand
<1>8. LimitSound'
  BY <1>2 DEF LimitSound
<1>9. FollowedSound'
  BY <1>1, <1>2, <1>4, Numbers, StillRemembered DEF CallInv, FollowedSound, InHand
<1>10. AttachedSound'
  BY <1>1, <1>2, <1>3, <1>4 DEF CallInv, AttachedSound, OpenSound
<1>11. QED
  BY <1>5, <1>6, <1>7, <1>8, <1>9, <1>10 DEF CallInv

\* Every step of a call keeps the invariant.
LEMMA NextCallInv == CallInv /\ [Next]_vars => CallInv'
<1> SUFFICES ASSUME CallInv, [Next]_vars PROVE CallInv'
  OBVIOUS
<1>1. CASE HookFails \/ LocationFails \/ FollowFails \/ FlowFails \/ NextLegFails \/ ReadFails
  <2>1. pc \in InHand /\ CloseAndRaise
    BY <1>1 DEF InHand, HookFails, LocationFails, FollowFails, FlowFails, NextLegFails, ReadFails
  <2>2. QED
    BY <2>1, RaisingKeeps
<1>2. CASE \E answer \in Kinds : Respond(answer)
  BY <1>2, RespondKeeps
<1>3. CASE \/ CheckLimit \/ RequestFails \/ HooksPass \/ Location \/ Follow
           \/ FlowStops \/ FlowContinues \/ NextLeg \/ Return
  BY <1>3, LoopKeeps, HooksKeep, LocationKeeps, FollowKeeps, StopsKeep, ContinuesKeep,
     NextLegKeeps, ReturnKeeps
<1>4. CASE UNCHANGED vars
  <2>1. TypeOK' /\ OpenSound'
    BY <1>4 DEF vars, cur, CallInv, TypeOK, OpenSound, OneOpenAtATime, NothingLeftOpen
  <2>2. HistoriesSound' /\ LimitSound'
    BY <1>4 DEF vars, cur, CallInv, HistoriesSound, LimitSound
  <2>3. FollowedSound'
    BY <1>4 DEF vars, cur, CallInv, FollowedSound, FollowedRemembered
  <2>4. AttachedSound'
    BY <1>4 DEF vars, cur, CallInv, AttachedSound
  <2>5. QED
    BY <2>1, <2>2, <2>3, <2>4 DEF CallInv
<1>5. QED
  BY <1>1, <1>2, <1>3, <1>4 DEF Next

\* The inductive invariant of a call holds always.
THEOREM CallInvariance == Spec => []CallInv
BY InitCallInv, NextCallInv, PTL DEF Spec

-----------------------------------------------------------------------------
(* What follows for a call                                                  *)

\* The challenges in the history of the response in hand are the answered ones,
\* one for each leg after the first.
LEMMA ChallengesCounted ==
    ASSUME CallInv, outcome = "returned"
    PROVE  LET h == responses[cur].history
               inHistory == {h[i] : i \in DOMAIN h} IN
           Cardinality({i \in inHistory : responses[i].kind = "challenge"}) = leg - 1
<1> DEFINE h == responses[cur].history
           challenges == {i \in {h[k] : k \in DOMAIN h} : responses[i].kind = "challenge"}
           legs == 1 .. leg - 1
           f == [i \in legs |-> h[i]]
<1>1. /\ Len(h) \in Nat /\ DOMAIN h = 1 .. Len(h)
      /\ leg \in Nat /\ Len(authHistory) = leg - 1 /\ leg - 1 <= Len(h) /\ Len(h) <= Len(history)
  <2>1. TypeOK /\ cur > 0
    BY DEF CallInv, OpenSound
  <2>2. responses[cur] \in Response
    BY <2>1, ElementOfSeq DEF TypeOK, cur
  <2>3. h \in Seq(Nat)
    BY <2>2 DEF Response
  <2>4. Len(h) \in Nat /\ DOMAIN h = 1 .. Len(h)
    BY <2>3, LenProperties
  <2>5. QED
    BY <2>1, <2>4, Numbers DEF CallInv, HistoriesSound, AttachedSound
<1>2. \A i \in 1 .. Len(h) : h[i] = history[i]
  BY DEF CallInv, AttachedSound
<1> HIDE DEF h
<1>3. \A i \in 1 .. Len(h) : i \in 1 .. Len(history)
  BY <1>1, Numbers DEF CallInv
<1>4. \A i \in 1 .. Len(h) : responses[h[i]].kind = IF i < leg THEN "challenge" ELSE "redirect"
  BY <1>2, <1>3 DEF CallInv, HistoriesSound
<1>5. \A i, j \in 1 .. Len(h) : i < j => h[i] < h[j]
  BY <1>2, <1>3 DEF CallInv, HistoriesSound
<1>6. \A i \in legs : i \in 1 .. Len(h) /\ i < leg
  BY <1>1
<1>7. \A i \in 1 .. Len(h) : h[i] \in Nat
  <2>1. \A i \in 1 .. Len(history) : history[i] \in 1 .. cur /\ cur \in Nat
    BY Numbers DEF CallInv
  <2>2. QED
    BY <1>2, <1>3, <2>1
<1>8. f \in Bijection(legs, challenges)
  <2>1. \A i \in legs : h[i] \in challenges
    BY <1>1, <1>4, <1>6
  <2>2. f \in [legs -> challenges]
    BY <2>1
  <2>3. \A i, j \in legs : f[i] = f[j] => i = j
    <3> SUFFICES ASSUME NEW i \in legs, NEW j \in legs, i < j PROVE h[i] # h[j]
      BY <1>1
    <3>1. QED
      BY <1>5, <1>6, <1>7
  <2>4. \A c \in challenges : \E i \in legs : f[i] = c
    <3> SUFFICES ASSUME NEW k \in 1 .. Len(h), responses[h[k]].kind = "challenge"
                 PROVE  \E i \in legs : f[i] = h[k]
      BY <1>1
    <3>1. k < leg
      BY <1>4
    <3>2. k \in legs
      BY <1>1, <3>1
    <3>3. QED
      BY <3>2
  <2> HIDE DEF f, challenges, legs
  <2>5. QED
    BY <2>2, <2>3, <2>4 DEF Bijection, Injection, Surjection, IsInjective
<1>9. IsFiniteSet(legs) /\ Cardinality(legs) = leg - 1
  <2>1. 1 \in Int /\ leg - 1 \in Int /\ leg - 1 >= 0
    BY <1>1, Numbers DEF CallInv
  <2>2. IsFiniteSet(legs) /\ Cardinality(legs) = IF 1 > leg - 1 THEN 0 ELSE (leg - 1) - 1 + 1
    BY <2>1, FS_Interval, Zenon
  <2>3. QED
    BY <2>1, <2>2
<1>10. Cardinality(challenges) = leg - 1
  <2> HIDE DEF f, challenges, legs
  <2>1. ExistsBijection(legs, challenges)
    BY <1>8 DEF ExistsBijection
  <2>2. QED
    BY <1>9, <2>1, FS_Bijection
<1>11. QED
  BY <1>10 DEF h

\* A call that raises leaves no response open, whatever failed, and one that
\* returns at most the one it returns (httpxp/_client.py:1017-1146).
THEOREM NothingStaysOpen == Spec => []NothingLeftOpen
<1>1. CallInv => NothingLeftOpen
  BY DEF CallInv, OpenSound
<1>2. QED
  BY <1>1, CallInvariance, PTL

\* A call never holds a second connection: it closes what it has in hand before
\* it sends the next request (httpxp/_client.py:1017-1146).
THEOREM OneConnectionAtATime == Spec => []OneOpenAtATime
<1>1. CallInv => OneOpenAtATime
  BY DEF CallInv, OpenSound
<1>2. QED
  BY <1>1, CallInvariance, PTL

\* The returned response's history is bounded, ordered, closed and complete
\* (httpxp/_client.py:1078-1146).
THEOREM HistoryIsSound == Spec => []HistorySound
<1>1. ASSUME CallInv, outcome = "returned" PROVE HistorySound
  <2> DEFINE h == responses[cur].history
             inHistory == {h[i] : i \in DOMAIN h}
  <2>1. DOMAIN h = 1 .. Len(h) /\ Len(h) \in Nat
    <3>1. responses[cur] \in Response
      BY <1>1, ElementOfSeq DEF CallInv, OpenSound, TypeOK, cur
    <3>2. QED
      BY <3>1, LenProperties DEF Response
  <2>2. /\ Len(h) <= MaxRedirects /\ Len(authHistory) <= Len(h) /\ Len(h) <= Len(history)
        /\ \A i \in 1 .. Len(h) : h[i] = history[i] /\ h[i] < cur
        /\ \A i \in Len(h) + 1 .. Len(history) : history[i] = cur
        /\ \A i \in 1 .. Len(followed) : followed[i] < cur
    BY <1>1 DEF CallInv, AttachedSound
  <2> HIDE DEF h
  <2>3. /\ cur \in Nat /\ leg \in Nat /\ Len(authHistory) \in Nat /\ Len(history) \in Nat
        /\ DOMAIN followed = 1 .. Len(followed)
        /\ \A i \in 1 .. Len(history) : history[i] \in 1 .. cur
        /\ \A i \in 1 .. Len(authHistory) : authHistory[i] \in 1 .. cur
        /\ \A i \in 1 .. Len(followed) : followed[i] \in 1 .. cur
    BY <1>1, Numbers, LenProperties DEF CallInv, TypeOK
  <2>4. \A i \in 1 .. Len(h) : h[i] \in 1 .. cur /\ i \in 1 .. Len(history)
    BY <2>1, <2>2, <2>3
  <2>5. \A i \in 1 .. Len(h) : h[i] < cur /\ ~responses[h[i]].open
    BY <1>1, <2>2, <2>3, <2>4 DEF CallInv, OpenSound, OneOpenAtATime
  <2>6. \A i, j \in 1 .. Len(h) : i < j => h[i] < h[j]
    BY <1>1, <2>2, <2>4 DEF CallInv, HistoriesSound
  <2>7. Cardinality({i \in inHistory : responses[i].kind = "challenge"}) = leg - 1
    BY <1>1, ChallengesCounted DEF h
  <2>8. ASSUME NEW i \in 1 .. Len(followed),
               \A c \in inHistory : responses[c].kind = "challenge" => c < followed[i]
        PROVE  followed[i] \in inHistory
    <3>1. CASE \E j \in 1 .. Len(history) : history[j] = followed[i]
      <4>1. PICK j \in 1 .. Len(history) : history[j] = followed[i]
        BY <3>1
      <4>2. j \in 1 .. Len(h)
        BY <2>1, <2>2, <2>3, <4>1
      <4>3. QED
        BY <2>1, <2>2, <4>1, <4>2
    <3>2. CASE \E j \in 1 .. Len(authHistory) : followed[i] < authHistory[j]
      <4>1. PICK j \in 1 .. Len(authHistory) : followed[i] < authHistory[j]
        BY <3>2
      <4>2. j \in 1 .. Len(h) /\ j \in 1 .. Len(history) /\ j < leg /\ history[j] = authHistory[j]
        BY <1>1, <2>1, <2>2, <2>3 DEF CallInv, HistoriesSound
      <4>3. h[j] = authHistory[j] /\ responses[h[j]].kind = "challenge"
        BY <1>1, <2>2, <4>2 DEF CallInv, HistoriesSound
      <4>4. authHistory[j] < followed[i]
        BY <2>1, <2>8, <4>2, <4>3
      <4>5. QED
        BY <2>3, <4>1, <4>4
    <3>3. QED
      BY <1>1, <3>1, <3>2 DEF CallInv, FollowedSound, FollowedRemembered
  <2>9. QED
    BY <2>1, <2>2, <2>3, <2>5, <2>6, <2>7, <2>8 DEF HistorySound, h
<1>2. CallInv => HistorySound
  BY <1>1 DEF HistorySound
<1>3. QED
  BY <1>2, CallInvariance, PTL

-----------------------------------------------------------------------------
(* Why a call ends                                                          *)

\* Every step of a call is a step forward.
LEMMA NextForward == CallInv /\ Next => Forward
<1> SUFFICES ASSUME CallInv, Next PROVE Forward
  OBVIOUS
<1>1. TypeOK /\ leg \in Nat /\ Len(history) \in Nat
  BY Numbers DEF CallInv
<1>2. CASE Location
  <2>1. history' = Append(history, cur) /\ leg' = leg
    BY <1>2 DEF Location
  <2>2. Len(history') = Len(history) + 1
    BY <1>1, <2>1 DEF TypeOK
  <2>3. QED
    BY <1>1, <2>1, <2>2 DEF Forward
<1>3. CASE NextLeg
  BY <1>1, <1>3 DEF NextLeg, Forward
<1>4. CASE HookFails \/ LocationFails \/ FollowFails \/ FlowFails \/ NextLegFails \/ ReadFails
  <2>1. /\ pc \in InHand /\ pc' = "done"
        /\ leg' = leg /\ history' = history
    BY <1>4 DEF CloseAndRaise, InHand, HookFails, LocationFails, FollowFails, FlowFails,
       NextLegFails, ReadFails
  <2>2. QED
    BY <2>1 DEF Forward, Rank, InHand
<1>5. CASE CheckLimit \/ RequestFails \/ (\E answer \in Kinds : Respond(answer))
  <2>1. /\ \/ pc = "loop" /\ pc' \in {"single", "done"}
           \/ pc = "single" /\ pc' \in {"hooks", "done"}
        /\ leg' = leg /\ history' = history
    BY <1>5 DEF CheckLimit, RequestFails, RaiseOnly, Respond
  <2>2. QED
    BY <2>1 DEF Forward, Rank
<1>6. CASE HooksPass \/ Follow \/ FlowStops \/ FlowContinues \/ Return
  BY <1>6 DEF Forward, Rank, HooksPass, Follow, FlowStops, FlowContinues, Return
<1>7. QED
  BY <1>2, <1>3, <1>4, <1>5, <1>6 DEF Next

\* The redirect loop and the authentication loop go forward with every step, to
\* a later leg, a longer history or a later line (httpxp/_client.py:968-1045).
THEOREM CallGoesForward == Spec => AlwaysForward
<1>1. CallInv /\ [Next]_vars => [Forward]_vars
  BY NextForward
<1>2. QED
  BY <1>1, CallInvariance, PTL DEF Spec, AlwaysForward

\* And there is not far to go: the limit is tested before each request, and
\* at most one entry is added between two tests (httpxp/_client.py:1003-1045).
THEOREM CallBounded == Spec => []CallIsBounded
<1>1. Init => CallIsBounded
  BY MaxRedirectsAssumption DEF Init, CallIsBounded
<1>2. CallInv /\ CallIsBounded /\ [Next]_vars => CallIsBounded'
  <2> SUFFICES ASSUME CallInv, CallIsBounded, [Next]_vars PROVE CallIsBounded'
    OBVIOUS
  <2>1. /\ leg \in Nat /\ leg' \in 1 .. MaxRedirects + 2 /\ MaxRedirects \in Nat
        /\ Len(history) \in Nat /\ Len(authHistory) = leg - 1
    BY NextCallInv, Numbers, MaxRedirectsAssumption DEF CallInv, HistoriesSound, TypeOK
  <2>2. CASE Location
    <3>1. history' = Append(history, cur) /\ Len(history) <= MaxRedirects
      BY <2>2 DEF Location, CallInv, LimitSound
    <3>2. Len(history') = Len(history) + 1
      BY <3>1 DEF CallInv, TypeOK
    <3>3. QED
      BY <2>1, <3>1, <3>2 DEF CallIsBounded
  <2>3. CASE NextLeg
    <3>1. /\ history' = Append(authHistory, cur) /\ leg <= MaxRedirects + 1
      BY <2>3 DEF NextLeg, CallInv, LimitSound
    <3>2. Len(history') = Len(authHistory) + 1
      BY <3>1 DEF CallInv, TypeOK
    <3>3. QED
      BY <2>1, <3>1, <3>2 DEF CallIsBounded
  <2>4. CASE UNCHANGED history
    BY <2>1, <2>4 DEF CallIsBounded
  <2>5. [Next]_vars => Location \/ NextLeg \/ UNCHANGED history
    BY DEF Next, vars, CheckLimit, RequestFails, RaiseOnly, HookFails, HooksPass, LocationFails,
       CloseAndRaise, Follow, FollowFails, FlowFails, FlowStops, FlowContinues, NextLegFails,
       Return, ReadFails, Respond
  <2>6. QED
    BY <2>2, <2>3, <2>4, <2>5
<1>3. QED
  BY <1>1, <1>2, CallInvariance, PTL DEF Spec

-----------------------------------------------------------------------------
(* ClientRequests implements ClientSend                                     *)

\* A step with requests is a step of the call.
LEMMA RequestStepIsCallStep == [RequestNext]_<<vars, rvars>> => [Next]_vars
<1>1. ASSUME RequestNext PROVE Next
  <2>1. CASE \E answer \in Kinds : Transmit(answer)
    BY <2>1 DEF Transmit, Next
  <2>2. CASE Redirected \/ Answered \/ Resend
    BY <2>2 DEF Redirected, Answered, Resend, Next
  <2>3. QED
    BY <1>1, <2>1, <2>2 DEF RequestNext, Next
<1>2. QED
  BY <1>1

\* What holds of the call holds of the call with its requests.
THEOREM RequestsImplementCall == RequestSpec => Spec
<1>1. RequestInit => Init
  BY DEF RequestInit
<1>2. QED
  BY <1>1, RequestStepIsCallStep, PTL DEF RequestSpec, Spec

-----------------------------------------------------------------------------
(* Origins and redirected requests                                          *)

\* The port of a URL depends on its scheme and port alone.
LEMMA PortOf ==
    ASSUME NEW u, NEW v, u.scheme = v.scheme, u.port = v.port
    PROVE  PortOrDefault(u) = PortOrDefault(v)
BY DEF PortOrDefault

\* An origin, or its https upgrade, stays what it is over one more redirect.
LEMMA OriginsCompose ==
    ASSUME NEW home, NEW from, NEW url
    PROVE  /\ SameOrigin(from, home) /\ SameOrigin(url, from) => SameOrigin(url, home)
           /\ SameOrigin(from, home) /\ IsHttpsRedirect(from, url) => IsHttpsRedirect(home, url)
           /\ IsHttpsRedirect(home, from) /\ SameOrigin(url, from) => IsHttpsRedirect(home, url)
           /\ ~(IsHttpsRedirect(home, from) /\ IsHttpsRedirect(from, url))
BY DEF SameOrigin, IsHttpsRedirect

\* A redirect leads to a URL.
LEMMA RedirectUrlType ==
    ASSUME NEW from \in Url, NEW location \in Url
    PROVE  RedirectUrl(from, location) \in Url
BY DEF RedirectUrl, IsAbsolute, Join, Url

\* The new request is one, and may be sent where it goes.
LEMMA RedirectedStaysHome ==
    ASSUME NEW from \in Request, NEW url \in Url, NEW method \in Methods \union {"GET"},
           StaysHome(from)
    PROVE  /\ RedirectRequest(from, url, method) \in Request
           /\ StaysHome(RedirectRequest(from, url, method))
           /\ Framed(from) => Framed(RedirectRequest(from, url, method))
<1> DEFINE bodiless == method # from.method /\ method = "GET"
           same == SameOrigin(url, from.url)
           new == RedirectRequest(from, url, method)
<1>1. /\ new.url = url /\ new.method = method /\ new.cookie = FALSE
      /\ new.authorization = (from.authorization /\ (same \/ IsHttpsRedirect(from.url, url)))
      /\ new.host = IF same THEN from.host ELSE Netloc(url)
      /\ new.length = IF bodiless THEN NoLength ELSE from.length
      /\ new.chunked = (from.chunked /\ ~bodiless)
      /\ new.stream = IF bodiless THEN "empty" ELSE from.stream
  BY DEF RedirectRequest, Request
<1>2. new \in Request
  <2>1. (IF same THEN from.host ELSE Netloc(url)) \in Hosts
    BY DEF Netloc, Url, Request, Hosts
  <2>2. (IF bodiless THEN NoLength ELSE from.length) \in {NoLength, 0, Size}
    BY DEF Request
  <2>3. (IF bodiless THEN "empty" ELSE from.stream) \in {"empty", "buffer", "source"}
    BY DEF Request
  <2>4. (from.authorization /\ (same \/ IsHttpsRedirect(from.url, url))) \in BOOLEAN
    OBVIOUS
  <2>5. (from.chunked /\ ~bodiless) \in BOOLEAN
    OBVIOUS
  <2> DEFINE host == IF same THEN from.host ELSE Netloc(url)
             length == IF bodiless THEN NoLength ELSE from.length
             stream_ == IF bodiless THEN "empty" ELSE from.stream
             authorization == from.authorization /\ (same \/ IsHttpsRedirect(from.url, url))
             chunked == from.chunked /\ ~bodiless
  <2>6. new = [from EXCEPT !.url = url, !.method = method, !.cookie = FALSE,
                           !.authorization = authorization, !.host = host, !.length = length,
                           !.chunked = chunked, !.stream = stream_]
    BY DEF RedirectRequest, Request
  <2> HIDE DEF new, host, length, stream_, authorization, chunked
  <2>7. /\ host \in Hosts /\ length \in {NoLength, 0, Size}
        /\ stream_ \in {"empty", "buffer", "source"}
        /\ authorization \in BOOLEAN /\ chunked \in BOOLEAN
    BY <2>1, <2>2, <2>3, <2>4, <2>5, Zenon DEF host, length, stream_, authorization, chunked
  <2>8. [from EXCEPT !.url = url, !.method = method, !.cookie = FALSE,
                     !.authorization = authorization, !.host = host, !.length = length,
                     !.chunked = chunked, !.stream = stream_] \in Request
    BY ONLY <2>7, from \in Request, url \in Url, method \in Methods \union {"GET"} DEF Request
  <2>9. QED
    BY <2>6, <2>8, Zenon
<1>3. Framed(from) => Framed(new)
  BY <1>1 DEF Framed, Request
<1> HIDE DEF new
<1>4. new.authorization => SameOrigin(url, flowRequest.url) \/ IsHttpsRedirect(flowRequest.url, url)
  <2>1. new.authorization => from.authorization /\ (same \/ IsHttpsRedirect(from.url, url))
    BY <1>1, Zenon
  <2>2. from.authorization => \/ SameOrigin(from.url, flowRequest.url)
                              \/ IsHttpsRedirect(flowRequest.url, from.url)
    BY Zenon DEF StaysHome
  <2>3. QED
    BY <2>1, <2>2, OriginsCompose, Zenon
<1>5. IF new.host = Own
        THEN SameOrigin(url, flowRequest.url)
        ELSE /\ new.host.host = url.host
             /\ PortOrDefault([url EXCEPT !.port = new.host.port]) = PortOrDefault(url)
  <2>1. CASE ~same
    <3>1. new.host = [host |-> url.host, port |-> url.port] /\ url.port \in Nat
      BY <1>1, <2>1 DEF Netloc, Url
    <3>2. [url EXCEPT !.port = url.port] = url /\ new.host # Own
      BY <3>1 DEF Url, Own
    <3>3. QED
      BY <3>1, <3>2
  <2>2. CASE same /\ from.host = Own
    BY <1>1, <2>2, OriginsCompose DEF StaysHome
  <2>3. CASE same /\ from.host # Own
    <3> DEFINE port == from.host.port
    <3>1. /\ new.host = from.host /\ from.host.host = from.url.host
          /\ PortOrDefault([from.url EXCEPT !.port = port]) = PortOrDefault(from.url)
      BY <1>1, <2>3 DEF StaysHome
    <3>2. /\ url.scheme = from.url.scheme /\ url.host = from.url.host
          /\ PortOrDefault(url) = PortOrDefault(from.url)
      BY <2>3 DEF SameOrigin
    <3>3. PortOrDefault([url EXCEPT !.port = port]) = PortOrDefault([from.url EXCEPT !.port = port])
      <4>1. /\ [url EXCEPT !.port = port].scheme = [from.url EXCEPT !.port = port].scheme
            /\ [url EXCEPT !.port = port].port = [from.url EXCEPT !.port = port].port
        BY <3>2 DEF Url, Request
      <4>2. QED
        BY <4>1, PortOf
    <3>4. QED
      BY <2>3, <3>1, <3>2, <3>3
  <2>4. QED
    BY <2>1, <2>2, <2>3
<1>6. StaysHome(new)
  BY <1>1, <1>4, <1>5 DEF StaysHome
<1>7. QED
  BY <1>2, <1>3, <1>6 DEF new

\* A first request announces the body it has.
LEMMA NewRequestSound ==
    ASSUME NEW url \in Url, NEW method \in Methods, NEW body \in BodyKinds, NEW own,
           body = "none" => "length" \notin own
    PROVE  LET new == NewRequest(url, method, body, own) IN
           new \in Request /\ Framed(new) /\ new.url = url
           /\ new.stream = (IF body = "none" THEN "empty" ELSE "source")
           /\ new.host = (IF "host" \in own THEN Own ELSE Netloc(url))
<1> DEFINE length == IF "length" \in own THEN Size ELSE EncodedLength(body)
           chunked == "chunked" \in own \/ (EncodedChunked(body) /\ "length" \notin own)
           host == IF "host" \in own THEN Own ELSE Netloc(url)
           announced == IF length = NoLength /\ ~chunked /\ method \in {"POST", "PUT"}
                          THEN 0 ELSE length
           stream_ == IF body = "none" THEN "empty" ELSE "source"
           new == NewRequest(url, method, body, own)
<1>1. new = [url |-> url, method |-> method,
             authorization |-> "authorization" \in own, cookie |-> "cookie" \in own,
             host |-> host, length |-> announced, chunked |-> chunked, stream |-> stream_]
  BY Zenon DEF NewRequest
<1>2. length \in {NoLength, Size} /\ (body = "none" => length = NoLength)
  BY DEF EncodedLength
<1>3. body # "none" /\ length = NoLength => chunked
  BY SizeAssumption DEF EncodedLength, EncodedChunked, NoLength, BodyKinds
<1>4. host \in Hosts
  BY DEF Netloc, Url, Hosts
<1>5. chunked \in BOOLEAN
  OBVIOUS
<1> HIDE DEF length, chunked, host
<1>6. announced \in {NoLength, 0, Size} /\ stream_ \in {"empty", "buffer", "source"}
  BY <1>2
<1>7. /\ body = "none" => announced \in {NoLength, 0}
      /\ body # "none" => announced = Size \/ (announced = NoLength /\ chunked)
  BY <1>2, <1>3
<1> HIDE DEF announced, new
<1>8. new \in Request
  BY <1>1, <1>4, <1>5, <1>6 DEF Request
<1>9. Framed(new)
  BY <1>1, <1>7 DEF Framed
<1>10. QED
  BY <1>1, <1>8, <1>9 DEF new, host

\* A request that goes where it was built for says what is true of its URL.
LEMMA InitRequestInv == RequestInit => RequestInv
<1> SUFFICES ASSUME RequestInit PROVE RequestInv
  OBVIOUS
<1> PICK url \in Homes, method \in Methods, own \in OwnHeaders :
      LET built == NewRequest(url, method, kind, own)
          asked == [built EXCEPT !.authorization = @ \/ auth = "basic",
                                 !.stream = IF auth = "signed" /\ kind \notin {"none", "bytes"}
                                              THEN "buffer" ELSE @] IN
      /\ kind = "none" => "length" \notin own
      /\ kind \notin {"none", "bytes"} => method \in {"POST", "PUT"}
      /\ flowRequest = asked /\ request = asked
  BY DEF RequestInit
<1> DEFINE built == NewRequest(url, method, kind, own)
           authorization == built.authorization \/ auth = "basic"
           stream_ == IF auth = "signed" /\ kind \notin {"none", "bytes"}
                        THEN "buffer" ELSE built.stream
<1>1. /\ url \in Url /\ kind \in BodyKinds
      /\ auth \in {"none", "basic", "digest", "signed"}
  BY UrlsAssumption DEF RequestInit
<1>2. /\ built \in Request /\ Framed(built) /\ built.url = url
      /\ built.stream = (IF kind = "none" THEN "empty" ELSE "source")
      /\ built.host = (IF "host" \in own THEN Own ELSE Netloc(url))
  BY <1>1, NewRequestSound
<1>3. request = [built EXCEPT !.authorization = authorization, !.stream = stream_]
  OBVIOUS
<1>4. authorization \in BOOLEAN
  BY <1>2, Zenon DEF Request
<1>5. stream_ \in {"empty", "buffer", "source"} /\ (kind = "none" <=> stream_ = "empty")
  BY <1>2
<1> HIDE DEF built, authorization, stream_
<1>6. /\ request \in Request /\ request.url = url /\ request.host = built.host
      /\ request.length = built.length /\ request.chunked = built.chunked
      /\ request.stream = stream_
  BY <1>2, <1>3, <1>4, <1>5 DEF Request
<1>7. flowRequest = request
  OBVIOUS
<1>8. Framed(request)
  BY <1>2, <1>5, <1>6 DEF Framed
<1>9. StaysHome(request)
  <2>1. SameOrigin(url, url)
    BY DEF SameOrigin
  <2>2. CASE "host" \in own
    BY <1>2, <1>6, <1>7, <2>1, <2>2 DEF StaysHome
  <2>3. CASE "host" \notin own
    <3>1. request.host = [host |-> url.host, port |-> url.port]
      BY <1>2, <1>6, <2>3 DEF Netloc
    <3>2. [url EXCEPT !.port = url.port] = url
      BY <1>1 DEF Url
    <3>3. request.host # Own
      BY <1>1, <3>1 DEF Url, Own
    <3>4. QED
      BY <1>6, <1>7, <2>1, <3>1, <3>2, <3>3 DEF StaysHome
  <2>4. QED
    BY <2>2, <2>3
<1>10. /\ position \in 0 .. Size /\ buffered \in 0 .. Size
       /\ (kind \notin OneShot => buffered = Size) /\ (kind # "file" => position = 0)
  BY SizeAssumption DEF RequestInit, OneShot, Spent
<1>11. Readable
  BY <1>10 DEF Readable
<1>12. /\ wire.request = request /\ ~wire.ended
       /\ wire \in [request : Request, units : 0 .. Size, ended : BOOLEAN, resumed : BOOLEAN]
  BY <1>6, SizeAssumption DEF RequestInit
<1>13. RequestTypeOK
  BY <1>1, <1>6, <1>7, <1>10, <1>12 DEF RequestTypeOK, RequestInit
<1>14. CredentialsStayHome /\ BodyOrError
  BY <1>9, <1>12 DEF CredentialsStayHome, BodyOrError
<1>15. QED
  BY <1>7, <1>8, <1>9, <1>11, <1>13, <1>14 DEF RequestInv

\* What is sent is what its source has left, whether it is the last of it or not.
LEMMA TransmitKeeps == ASSUME RequestInv, NEW answer, Transmit(answer) PROVE RequestInv'
<1>1. PICK units \in 0 .. Size :
        LET reading == request.stream = "source" /\ (units > 0 \/ Remaining("source") = 0) IN
        /\ IF Consumed(request.stream) THEN units = 0 ELSE units <= Remaining(request.stream)
        /\ position' = IF reading /\ kind \in Spent THEN position + units ELSE position
        /\ begun' = (begun \/ reading)
        /\ wire' = [request |-> request, units |-> units,
                    ended |-> ~Consumed(request.stream) /\ units = Remaining(request.stream),
                    resumed |-> /\ kind \in OneShot /\ request.stream # "empty"
                                /\ Remaining(request.stream) < Size]
        /\ UNCHANGED <<auth, kind, buffered, flowRequest, request>>
  BY DEF Transmit
<1> DEFINE reading == request.stream = "source" /\ (units > 0 \/ Remaining("source") = 0)
           ended == ~Consumed(request.stream) /\ units = Remaining(request.stream)
           resumed == /\ kind \in OneShot /\ request.stream # "empty"
                      /\ Remaining(request.stream) < Size
<1>2. /\ RequestTypeOK /\ Readable /\ StaysHome(flowRequest) /\ StaysHome(request)
      /\ Framed(flowRequest) /\ Framed(request)
  BY DEF RequestInv
<1>3. /\ position \in 0 .. Size /\ buffered \in 0 .. Size /\ Size \in Nat
      /\ request.stream \in {"empty", "buffer", "source"} /\ kind \in BodyKinds
  BY <1>2, SizeAssumption DEF RequestTypeOK, Request
<1>4. position' \in 0 .. Size
  BY <1>1, <1>3 DEF Remaining, Consumed, Spent
<1>5. reading \in BOOLEAN /\ ended \in BOOLEAN /\ resumed \in BOOLEAN /\ begun' \in BOOLEAN
  BY <1>1, Zenon
<1>6. wire' \in [request : Request, units : 0 .. Size, ended : BOOLEAN, resumed : BOOLEAN]
  <2> HIDE DEF ended, resumed
  <2>1. wire' = [request |-> request, units |-> units, ended |-> ended, resumed |-> resumed]
    BY <1>1, Zenon DEF ended, resumed
  <2>2. request \in Request
    BY <1>2 DEF RequestTypeOK
  <2>3. QED
    BY <1>5, <2>1, <2>2
<1>7. RequestTypeOK'
  <2>1. UNCHANGED <<auth, kind, buffered, flowRequest, request>>
    BY <1>1, Zenon
  <2>2. QED
    BY <1>2, <1>4, <1>5, <1>6, <2>1 DEF RequestTypeOK
<1>8. Readable'
  BY <1>1, <1>2 DEF Readable
<1>9. StaysHome(flowRequest)' /\ StaysHome(request)' /\ CredentialsStayHome'
  <2>1. flowRequest' = flowRequest /\ request' = request /\ wire'.request = request
    BY <1>1
  <2>2. QED
    BY <1>2, <2>1 DEF StaysHome, CredentialsStayHome
<1>10. Framed(flowRequest)' /\ Framed(request)'
  BY <1>1, <1>2 DEF Framed
<1>11. BodyOrError'
  <2>1. SUFFICES ASSUME ended, ~resumed
                 PROVE  /\ units = IF request.stream = "empty" THEN 0 ELSE Size
                        /\ request.length \in {NoLength, units}
                        /\ request.length = NoLength /\ ~request.chunked => units = 0
    <3>1. wire'.request = request /\ wire'.units = units /\ wire'.ended = ended
          /\ wire'.resumed = resumed
      BY <1>1
    <3> HIDE DEF ended, resumed
    <3>2. QED
      BY <3>1 DEF BodyOrError
  <2>2. CASE request.stream = "empty"
    BY <1>2, <2>1, <2>2 DEF Remaining, Framed
  <2>3. CASE request.stream = "buffer"
    <3>1. units = buffered /\ (kind \in OneShot => ~(buffered < Size))
      BY <2>1, <2>3 DEF Remaining
    <3>2. units = Size
      BY <1>2, <1>3, <3>1 DEF Readable
    <3>3. QED
      BY <1>2, <1>3, <2>3, <3>2 DEF Framed, NoLength
  <2>4. CASE request.stream = "source"
    <3>1. units = IF kind \in Spent THEN Size - position ELSE Size
      BY <2>1, <2>4 DEF Remaining
    <3>2. kind \in OneShot => ~(Size - position < Size)
      BY <2>1, <2>4 DEF Remaining, OneShot
    <3>3. kind = "generator" => position = 0
      BY <1>2, <2>1, <2>4 DEF Consumed, Readable
    <3>4. units = Size
      BY <1>3, <3>1, <3>2, <3>3 DEF OneShot
    <3>5. QED
      BY <1>2, <1>3, <2>4, <3>4 DEF Framed, NoLength
  <2>5. QED
    BY <1>3, <2>2, <2>3, <2>4
<1>12. QED
  BY <1>7, <1>8, <1>9, <1>10, <1>11 DEF RequestInv

\* A redirect strips what must not leave the origin.
LEMMA RedirectedKeeps == ASSUME RequestInv, Redirected PROVE RequestInv'
<1>1. PICK status \in Statuses, location \in Locations :
        request' = RedirectRequest(request, RedirectUrl(request.url, location),
                                   RedirectMethod(request.method, status))
  BY DEF Redirected
<1>2. UNCHANGED <<auth, kind, position, begun, buffered, flowRequest, wire>>
  BY DEF Redirected
<1>3. /\ RequestTypeOK /\ Readable /\ StaysHome(flowRequest) /\ StaysHome(request)
      /\ CredentialsStayHome /\ Framed(flowRequest) /\ Framed(request) /\ BodyOrError
  BY DEF RequestInv
<1>4. request \in Request /\ request.url \in Url /\ request.method \in Methods \union {"GET"}
  BY <1>3 DEF RequestTypeOK, Request
<1>5. RedirectUrl(request.url, location) \in Url
  BY <1>4, RedirectUrlType, UrlsAssumption
<1>6. RedirectMethod(request.method, status) \in Methods \union {"GET"}
  BY <1>4 DEF RedirectMethod
<1> DEFINE new == RedirectRequest(request, RedirectUrl(request.url, location),
                                  RedirectMethod(request.method, status))
<1>7. new \in Request /\ StaysHome(new) /\ Framed(new)
  BY <1>3, <1>4, <1>5, <1>6, RedirectedStaysHome
<1> HIDE DEF new
<1>8. request' = new
  BY <1>1 DEF new
<1>9. RequestTypeOK' /\ Readable'
  BY <1>2, <1>3, <1>7, <1>8 DEF RequestTypeOK, Readable
<1>10. StaysHome(flowRequest)' /\ StaysHome(request)' /\ CredentialsStayHome'
  BY <1>2, <1>3, <1>7, <1>8 DEF StaysHome, CredentialsStayHome
<1>11. Framed(flowRequest)' /\ Framed(request)' /\ BodyOrError'
  BY <1>2, <1>3, <1>7, <1>8 DEF Framed, BodyOrError
<1>12. QED
  BY <1>9, <1>10, <1>11 DEF RequestInv

\* Credentials are answered to a challenge for the flow's own request alone.
LEMMA AnsweredKeeps == ASSUME RequestInv, Answered PROVE RequestInv'
<1>1. /\ flowRequest' = [flowRequest EXCEPT !.authorization = TRUE]
      /\ UNCHANGED <<auth, kind, position, begun, buffered, request, wire>>
  BY DEF Answered
<1>2. /\ RequestTypeOK /\ Readable /\ StaysHome(flowRequest) /\ StaysHome(request)
      /\ CredentialsStayHome /\ Framed(flowRequest) /\ Framed(request) /\ BodyOrError
  BY DEF RequestInv
<1>3. /\ flowRequest' \in Request /\ flowRequest'.url = flowRequest.url
      /\ flowRequest'.host = flowRequest.host /\ flowRequest'.cookie = flowRequest.cookie
      /\ flowRequest'.stream = flowRequest.stream /\ flowRequest'.length = flowRequest.length
      /\ flowRequest'.chunked = flowRequest.chunked
  BY <1>1, <1>2 DEF RequestTypeOK, Request
<1>4. RequestTypeOK' /\ Readable'
  BY <1>1, <1>2, <1>3 DEF RequestTypeOK, Readable
<1>5. StaysHome(flowRequest)'
  BY <1>2, <1>3 DEF StaysHome, SameOrigin
<1>6. StaysHome(request)' /\ CredentialsStayHome'
  BY <1>1, <1>2, <1>3 DEF StaysHome, CredentialsStayHome
<1>7. Framed(flowRequest)' /\ Framed(request)' /\ BodyOrError'
  BY <1>1, <1>2, <1>3 DEF Framed, BodyOrError
<1>8. QED
  BY <1>4, <1>5, <1>6, <1>7 DEF RequestInv

\* The next leg sends the flow's request again, not the redirected one.
LEMMA ResendKeeps == ASSUME RequestInv, Resend PROVE RequestInv'
<1>1. /\ request' = flowRequest
      /\ UNCHANGED <<auth, kind, position, begun, buffered, flowRequest, wire>>
  BY DEF Resend
<1>2. QED
  BY <1>1 DEF RequestInv, RequestTypeOK, Readable, StaysHome, CredentialsStayHome, Framed,
              BodyOrError

\* Every step keeps the invariant.
LEMMA NextRequestInv == RequestInv /\ [RequestNext]_<<vars, rvars>> => RequestInv'
<1> SUFFICES ASSUME RequestInv, [RequestNext]_<<vars, rvars>> PROVE RequestInv'
  OBVIOUS
<1>1. ASSUME NEW answer \in Kinds, Transmit(answer) PROVE RequestInv'
  BY <1>1, TransmitKeeps
<1>2. CASE Redirected
  BY <1>2, RedirectedKeeps
<1>3. CASE Answered
  BY <1>3, AnsweredKeeps
<1>4. CASE Resend
  BY <1>4, ResendKeeps
<1>5. CASE UNCHANGED rvars
  BY <1>5 DEF rvars, RequestInv, RequestTypeOK, Readable, StaysHome, CredentialsStayHome,
              Framed, BodyOrError
<1>6. QED
  BY <1>1, <1>2, <1>3, <1>4, <1>5, Zenon DEF RequestNext

\* What a request carries is what its headers say, and what may go to its
\* origin, in every state of every call.
THEOREM RequestInvariance == RequestSpec => []RequestInv
BY InitRequestInv, NextRequestInv, PTL DEF RequestSpec

\* However a chain of redirects and challenges wanders, the credentials of the
\* flow's request reach its origin or its https upgrade only (_redirect_headers).
THEOREM CredentialsStay == RequestSpec => []CredentialsStayHome
<1>1. RequestInv => CredentialsStayHome
  BY DEF RequestInv
<1>2. QED
  BY <1>1, RequestInvariance, PTL

\* A request that was sent to its end carried the body its headers announce,
\* whole, or none (_redirect_stream, encode_request, IteratorByteStream).
THEOREM BodiesWhole == RequestSpec => []BodyOrError
<1>1. RequestInv => BodyOrError
  BY DEF RequestInv
<1>2. QED
  BY <1>1, RequestInvariance, PTL

\* The requests of a call never leave a response open behind them, hold at most
\* one open, and know where they have been: what is proved of ClientSend holds
\* of the calls it composes with.
THEOREM RequestsLeaveNothing == RequestSpec => [](NothingLeftOpen /\ OneOpenAtATime /\ HistorySound)
BY RequestsImplementCall, NothingStaysOpen, OneConnectionAtATime, HistoryIsSound, PTL
===============================================================================
