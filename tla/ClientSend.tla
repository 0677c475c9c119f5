------------------------------ MODULE ClientSend ------------------------------
(***************************************************************************)
(* One call of Client.send (httpxp/_client.py): the authentication loop    *)
(* around the redirect loop around single requests, with hooks, body reads *)
(* and failures at every place where the code can raise.  The asynchronous *)
(* client has the same structure; there a raise is also a cancellation at  *)
(* the corresponding await.  Responses are numbered in order of arrival.   *)
(***************************************************************************)
EXTENDS Naturals, Sequences, FiniteSets

CONSTANT MaxRedirects      \* Client.max_redirects

ASSUME MaxRedirectsAssumption == MaxRedirects \in Nat

VARIABLES
    follow,      \* follow_redirects
    stream,      \* send(..., stream=True)
    pc,          \* which line the call is at
    responses,   \* every response obtained: its kind, whether it is open, its history
    authHistory, \* `history` of _send_handling_auth
    history,     \* `history` of _send_handling_redirects
    outcome,     \* what send() did
    leg,         \* history: which request of the authentication flow this is
    followed     \* history: redirect responses that were followed

vars == <<follow, stream, pc, responses, authHistory, history, outcome, leg, followed>>

Kinds == {"ok", "redirect", "badredirect", "challenge"}
IsRedirect(kind) == kind \in {"redirect", "badredirect"}

Response == [kind : Kinds, open : BOOLEAN, history : Seq(Nat), next : BOOLEAN]

cur == Len(responses)      \* the response in hand

TypeOK ==
    /\ follow \in BOOLEAN /\ stream \in BOOLEAN
    /\ pc \in {"loop", "single", "hooks", "location", "follow", "flow",
               "challenged", "final", "done"}
    /\ responses \in Seq(Response)
    /\ authHistory \in Seq(1 .. Len(responses))
    /\ history \in Seq(1 .. Len(responses))
    /\ outcome \in {"none", "returned", "raised", "too_many_redirects"}
    /\ leg \in 1 .. MaxRedirects + 2
    /\ followed \in Seq(1 .. Len(responses))

Init ==
    /\ follow \in BOOLEAN /\ stream \in BOOLEAN
    /\ pc = "loop" /\ responses = <<>>
    /\ authHistory = <<>> /\ history = <<>>
    /\ outcome = "none" /\ leg = 1 /\ followed = <<>>

-----------------------------------------------------------------------------
\* An exception on its way out with no handler in its way.
RaiseOnly ==
    /\ pc' = "done" /\ outcome' = "raised"
    /\ UNCHANGED <<follow, stream, responses, authHistory, history, leg, followed>>

\* response.close(); raise
CloseAndRaise ==
    /\ responses' = [responses EXCEPT ![cur].open = FALSE]
    /\ pc' = "done" /\ outcome' = "raised"
    /\ UNCHANGED <<follow, stream, authHistory, history, leg, followed>>

\* Mutant: the limit is tested against the whole history only once per leg.
CheckFirstOnly ==
    /\ pc = "loop"
    /\ IF Len(authHistory) > MaxRedirects
         THEN pc' = "done" /\ outcome' = "too_many_redirects"
         ELSE pc' = "single" /\ UNCHANGED outcome
    /\ UNCHANGED <<follow, stream, responses, authHistory, history, leg, followed>>

\* Mutant: at the limit the loop is continued instead of left.
CheckContinues ==
    /\ pc = "loop"
    /\ pc' = IF Len(history) > MaxRedirects THEN "loop" ELSE "single"
    /\ UNCHANGED <<follow, stream, responses, authHistory, history, outcome, leg, followed>>

\* The top of the redirect loop.
CheckLimit ==
    /\ pc = "loop"
    /\ IF Len(history) > MaxRedirects
         THEN pc' = "done" /\ outcome' = "too_many_redirects"
         ELSE pc' = "single" /\ UNCHANGED outcome
    /\ UNCHANGED <<follow, stream, responses, authHistory, history, leg, followed>>

\* A request hook or the transport raises: there is no response to close.
RequestFails ==
    /\ pc = "single"
    /\ RaiseOnly

\* The transport returns a response.
Respond(kind) ==
    /\ pc = "single"
    /\ responses' = Append(responses, [kind |-> kind, open |-> TRUE, history |-> <<>>, next |-> FALSE])
    /\ pc' = "hooks"
    /\ UNCHANGED <<follow, stream, authHistory, history, outcome, leg, followed>>

HookFails ==
    /\ pc = "hooks"
    /\ CloseAndRaise

\* Hooks ran, one of which may have read the body: the history is attached,
\* and a redirect is looked at.
HooksPass ==
    /\ pc = "hooks"
    /\ \E stillOpen \in BOOLEAN :
          responses' = [responses EXCEPT ![cur].history = history, ![cur].open = stillOpen]
    /\ pc' = IF IsRedirect(responses[cur].kind) THEN "location" ELSE "flow"
    /\ UNCHANGED <<follow, stream, authHistory, history, outcome, leg, followed>>

\* _build_redirect_request cannot parse the location.
LocationFails ==
    /\ pc = "location" /\ responses[cur].kind = "badredirect"
    /\ CloseAndRaise

\* The redirect is either followed or offered as next_request.
Location ==
    /\ pc = "location" /\ responses[cur].kind = "redirect"
    /\ history' = Append(history, cur)
    /\ IF follow
         THEN pc' = "follow" /\ UNCHANGED responses
         ELSE pc' = "flow" /\ responses' = [responses EXCEPT ![cur].next = TRUE]
    /\ UNCHANGED <<follow, stream, authHistory, outcome, leg, followed>>

\* Mutant: the redirect's body is left unread.
FollowUnread ==
    /\ pc = "follow"
    /\ followed' = Append(followed, cur)
    /\ pc' = "loop"
    /\ UNCHANGED <<follow, stream, responses, authHistory, history, outcome, leg>>

\* response.read() of a redirect: at its end the response is closed.
Follow ==
    /\ pc = "follow"
    /\ responses' = [responses EXCEPT ![cur].open = FALSE]
    /\ followed' = Append(followed, cur)
    /\ pc' = "loop"
    /\ UNCHANGED <<follow, stream, authHistory, history, outcome, leg>>

FollowFails ==
    /\ pc = "follow"
    /\ CloseAndRaise

-----------------------------------------------------------------------------
(* The authentication flow gets the response                                *)

\* The flow raises, or fails while it reads the response's body.
FlowFails ==
    /\ pc = "flow"
    /\ CloseAndRaise

\* The flow is done: the response goes to the caller.  A flow that requires
\* the body has read the response, and so closed it.
FlowStops ==
    /\ pc = "flow"
    /\ responses' \in {responses, [responses EXCEPT ![cur].open = FALSE]}
    /\ pc' = "final"
    /\ UNCHANGED <<follow, stream, authHistory, history, outcome, leg, followed>>

\* The flow wants another request; the response's history is set once more.
FlowContinues ==
    /\ pc = "flow" /\ responses[cur].kind = "challenge"
    /\ \E stillOpen \in {FALSE, responses[cur].open} :
          responses' = [responses EXCEPT ![cur].history = authHistory, ![cur].open = stillOpen]
    /\ pc' = "challenged"
    /\ UNCHANGED <<follow, stream, authHistory, history, outcome, leg, followed>>

\* The challenge is read to its end, and joins the history.
NextLeg ==
    /\ pc = "challenged"
    /\ responses' = [responses EXCEPT ![cur].open = FALSE]
    /\ authHistory' = Append(authHistory, cur)
    /\ history' = authHistory'
    /\ leg' = leg + 1
    /\ pc' = "loop"
    /\ UNCHANGED <<follow, stream, outcome, followed>>

NextLegFails ==
    /\ pc = "challenged"
    /\ CloseAndRaise

-----------------------------------------------------------------------------
(* The end of send()                                                        *)

Return ==
    /\ pc = "final"
    /\ pc' = "done" /\ outcome' = "returned"
    /\ responses' = IF stream THEN responses ELSE [responses EXCEPT ![cur].open = FALSE]
    /\ UNCHANGED <<follow, stream, authHistory, history, leg, followed>>

\* Reading the body for the caller fails.
ReadFails ==
    /\ pc = "final" /\ ~stream
    /\ CloseAndRaise

Next ==
    \/ CheckLimit \/ RequestFails \/ HookFails \/ HooksPass \/ LocationFails \/ Location
    \/ Follow \/ FollowFails \/ FlowFails \/ FlowStops \/ FlowContinues
    \/ NextLeg \/ NextLegFails \/ Return \/ ReadFails
    \/ \E kind \in Kinds : Respond(kind)

Spec == Init /\ [][Next]_vars

\* The call runs on; servers answer or fail, bodies end or fail.
FairSpec == Spec /\ WF_vars(Next)

-----------------------------------------------------------------------------
\* A call that raises leaves no response open, whichever step failed; one that
\* returns leaves at most the response it returned open, and only if streaming.
NothingLeftOpen ==
    pc = "done" =>
        \A i \in 1 .. cur : responses[i].open => outcome = "returned" /\ stream /\ i = cur

\* Only one response of a call is ever open, the one in hand: a call never
\* needs a second connection permit while it owns one, or max_connections = 1
\* would make it wait for itself.
OneOpenAtATime == \A i \in 1 .. cur : responses[i].open => i = cur

\* The history of the returned response never exceeds max_redirects, shows
\* earlier, closed responses in the order in which they came, and misses
\* neither an answered challenge nor a redirect that came after the last one.
HistorySound ==
    outcome = "returned" =>
        LET h == responses[cur].history
            inHistory == {h[i] : i \in DOMAIN h} IN
        /\ Len(h) <= MaxRedirects
        /\ \A i \in DOMAIN h : h[i] < cur /\ ~responses[h[i]].open
        /\ \A i, j \in DOMAIN h : i < j => h[i] < h[j]
        /\ Cardinality({i \in inHistory : responses[i].kind = "challenge"}) = leg - 1
        /\ \A i \in DOMAIN followed :
            (\A c \in inHistory : responses[c].kind = "challenge" => c < followed[i])
                => followed[i] \in inHistory

\* No server and no flow can keep a call busy for ever: the limit on the
\* history bounds redirects and challenges together.
SendTerminates == <>(pc = "done")

\* Why it ends, without fairness.  Within a leg every request but the first adds
\* a redirect to the history, and the places of one request follow each other.
Rank == [place \in {"loop", "single", "hooks", "location", "follow", "flow",
                     "challenged", "final", "done"} |->
            CASE place = "follow" -> 8   [] place = "loop" -> 7
              [] place = "single" -> 6   [] place = "hooks" -> 5
              [] place = "location" -> 4 [] place = "flow" -> 3
              [] place = "challenged" -> 2 [] place = "final" -> 1
              [] place = "done" -> 0]

\* Every step of a call goes forward: to a later leg, else to a longer history,
\* else to a later place, so that no part of the loops is passed twice with
\* nothing gained.
Forward ==
    \/ leg' > leg
    \/ leg' = leg /\ Len(history') > Len(history)
    \/ leg' = leg /\ Len(history') = Len(history) /\ Rank[pc'] < Rank[pc]

AlwaysForward == [][Forward]_vars

\* Legs and history are bounded: with Forward, a call takes at most
\* 9 * (MaxRedirects + 2)^2 steps, whatever the servers and the flow do.
CallIsBounded == leg <= MaxRedirects + 2 /\ Len(history) <= MaxRedirects + 1

-----------------------------------------------------------------------------
\* What the client documentation says: "The `history` property of the response
\* can be used to inspect any followed redirects" (docs/quickstart.md:447).
AllFollowedInHistory ==
    outcome = "returned" =>
        LET h == responses[cur].history IN
        \A i \in DOMAIN followed : \E j \in DOMAIN h : h[j] = followed[i]

-----------------------------------------------------------------------------
\* The places at which the call has a response in hand.
InHand == {"hooks", "location", "follow", "flow", "challenged", "final"}

\* Which response may be open, where.
OpenSound ==
    /\ pc \in InHand => cur > 0
    /\ outcome = "returned" => cur > 0 /\ pc = "done"
    /\ OneOpenAtATime
    /\ pc \in {"loop", "single"} => \A i \in 1 .. cur : ~responses[i].open
    /\ NothingLeftOpen

\* `history` is `authHistory`, the challenges, and the redirects since then, in
\* order of arrival; the response in hand is in it only as an unfollowed or as
\* the next followed redirect.
HistoriesSound ==
    /\ Len(authHistory) = leg - 1 /\ Len(authHistory) <= Len(history)
    /\ \A i \in 1 .. Len(authHistory) : history[i] = authHistory[i]
    /\ \A i \in 1 .. Len(history) :
          responses[history[i]].kind = IF i < leg THEN "challenge" ELSE "redirect"
    /\ \A i, j \in 1 .. Len(history) : i < j => history[i] < history[j]
    /\ pc \in {"hooks", "location"} => \A i \in 1 .. Len(history) : history[i] < cur
    /\ pc \in InHand => \A i \in 1 .. Len(authHistory) : history[i] < cur
    /\ pc = "challenged" => responses[cur].kind = "challenge"

\* The limit is tested before every request, so a challenge can exceed it by one.
LimitSound ==
    /\ pc \in {"single", "hooks", "location"} => Len(history) <= MaxRedirects
    /\ pc \notin {"loop", "done"} => leg <= MaxRedirects + 1

\* A followed redirect is in `history`, or a later challenge was answered.
FollowedRemembered ==
    \A i \in 1 .. Len(followed) :
        \/ \E j \in 1 .. Len(history) : history[j] = followed[i]
        \/ \E j \in 1 .. Len(authHistory) : followed[i] < authHistory[j]

FollowedSound ==
    /\ FollowedRemembered
    /\ \A i \in 1 .. Len(followed) : responses[followed[i]].kind = "redirect"
    /\ pc \in InHand => \A i \in 1 .. Len(followed) : followed[i] < cur
    /\ pc = "follow" => responses[cur].kind = "redirect"
                        /\ Len(history) > 0 /\ history[Len(history)] = cur

\* The history of the response in hand is `history` before itself.
AttachedSound ==
    pc \in {"location", "flow", "final"} \/ outcome = "returned" =>
        LET h == responses[cur].history IN
        /\ Len(h) <= MaxRedirects /\ Len(authHistory) <= Len(h) /\ Len(h) <= Len(history)
        /\ \A i \in 1 .. Len(h) : h[i] = history[i] /\ h[i] < cur
        /\ \A i \in Len(h) + 1 .. Len(history) : history[i] = cur
        /\ pc = "location" => Len(h) = Len(history)
        /\ \A i \in 1 .. Len(followed) : followed[i] < cur

CallInv ==
    TypeOK /\ OpenSound /\ HistoriesSound /\ LimitSound /\ FollowedSound /\ AttachedSound
===============================================================================
