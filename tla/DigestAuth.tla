------------------------------- MODULE DigestAuth -------------------------------
(***************************************************************************)
(* One DigestAuth (httpxp/_auth.py) shared by the requests of a client:    *)
(* the last challenge and the nonce count survive a flow and are used by   *)
(* the next one.  The flows of tasks switch only where they yield a        *)
(* request; those of threads also between the steps in between.  A header  *)
(* is its nonce and nc; servers issue no nonce twice.  Between two yields  *)
(* the client follows redirects (httpxp/_client.py): a redirect to the     *)
(* same origin repeats the header, any other drops it.                     *)
(***************************************************************************)
EXTENDS Naturals

CONSTANTS Flows,       \* requests that use this DigestAuth
          Nonces,      \* bound: challenges the servers issue
          Unusable,    \* those with an unknown algorithm or qop
          MaxHops,     \* bound: redirects that repeat one header
          Threaded     \* the client is shared by threads

DigestAssumption ==
    /\ Nonces \in Nat /\ Unusable \subseteq 1 .. Nonces
    /\ MaxHops \in Nat /\ Threaded \in BOOLEAN

NoChallenge == 0

VARIABLES
    lastChallenge,   \* _last_challenge: its nonce
    nonceCount,      \* _nonce_count
    issued,          \* nonces issued so far: 1 .. issued
    flow,            \* where each flow is
    challenge,       \* the challenge of the header its request carries, if any
    nc,              \* nc_value of that header
    answered,        \* flows that have been challenged
    hops,            \* redirects that repeated that header
    used             \* history: the headers of all requests given to the transport

vars == <<lastChallenge, nonceCount, issued, flow, challenge, nc, answered, hops, used>>

\* Whose header it is: the flow's first (answer = FALSE) or its answer to the
\* challenge; as handed out (hop = 0) or in a redirect of that request.
Headers == [nonce : 1 .. issued, nc : Nat, flow : Flows, answer : BOOLEAN, hop : 0 .. MaxHops]

Switching == {"start", "sent", "done"}

TypeOK ==
    /\ lastChallenge \in 0 .. issued /\ issued \in 0 .. Nonces
    /\ nonceCount \in Nat \ {0}
    /\ flow \in [Flows -> Switching \union {"challenged", "reset", "build", "built"}]
    /\ challenge \in [Flows -> 0 .. issued]
    /\ nc \in [Flows -> Nat]
    /\ answered \subseteq Flows
    /\ hops \in [Flows -> 0 .. MaxHops]
    /\ used \subseteq Headers

Init ==
    /\ lastChallenge = NoChallenge /\ nonceCount = 1 /\ issued = 0
    /\ flow = [f \in Flows |-> "start"]
    /\ challenge = [f \in Flows |-> NoChallenge]
    /\ nc = [f \in Flows |-> 0]
    /\ answered = {} /\ used = {}
    /\ hops = [f \in Flows |-> 0]

Goto(f, place) == flow' = [flow EXCEPT ![f] = place]

\* A task runs alone until it yields.
Runs(f) == Threaded \/ \A g \in Flows \ {f} : flow[g] \in Switching

-----------------------------------------------------------------------------
(* auth_flow                                                                *)

\* The first request goes without a header, or reuses the last challenge.
Start(f) ==
    /\ flow[f] = "start" /\ Runs(f)
    /\ IF lastChallenge = NoChallenge
         THEN Goto(f, "sent") /\ UNCHANGED challenge
         ELSE Goto(f, "build") /\ challenge' = [challenge EXCEPT ![f] = lastChallenge]
    /\ UNCHANGED <<lastChallenge, nonceCount, issued, nc, answered, hops, used>>

\* Not a 401, or without a digest challenge, or a malformed one, or the flow
\* is closed: nothing more is sent.
End(f) ==
    /\ flow[f] = "sent" /\ Runs(f)
    /\ Goto(f, "done")
    /\ UNCHANGED <<lastChallenge, nonceCount, issued, challenge, nc, answered, hops, used>>

\* 401 with a challenge, which is remembered.
Challenged(f) ==
    /\ flow[f] = "sent" /\ Runs(f)
    /\ f \notin answered
    /\ issued < Nonces
    /\ issued' = issued + 1
    /\ lastChallenge' = issued'
    /\ answered' = answered \union {f}
    /\ Goto(f, "challenged")
    /\ UNCHANGED <<nonceCount, challenge, nc, hops, used>>

\* Mutant: the count goes on.
ResetForgotten(f) ==
    /\ flow[f] = "challenged" /\ Runs(f)
    /\ Goto(f, "reset")
    /\ UNCHANGED <<lastChallenge, nonceCount, issued, challenge, nc, answered, hops, used>>

Reset(f) ==
    /\ flow[f] = "challenged" /\ Runs(f)
    /\ nonceCount' = 1
    /\ Goto(f, "reset")
    /\ UNCHANGED <<lastChallenge, issued, challenge, nc, answered, hops, used>>

\* The challenge to answer is read back from the shared field.
Answer(f) ==
    /\ flow[f] = "reset" /\ Runs(f)
    /\ challenge' = [challenge EXCEPT ![f] = lastChallenge]
    /\ Goto(f, "build")
    /\ UNCHANGED <<lastChallenge, nonceCount, issued, nc, answered, hops, used>>

-----------------------------------------------------------------------------
(* _build_auth_header                                                       *)

\* nc_value, and the cnonce, which calls into the operating system.
ReadCount(f) ==
    /\ flow[f] = "build" /\ Runs(f)
    /\ nc' = [nc EXCEPT ![f] = nonceCount]
    /\ Goto(f, "built")
    /\ UNCHANGED <<lastChallenge, nonceCount, issued, challenge, answered, hops, used>>

Carried(f, hop) ==
    [nonce |-> challenge[f], nc |-> nc[f], flow |-> f, answer |-> f \in answered, hop |-> hop]

\* The count is incremented, the rest of the header computed, the request sent.
Send(f) ==
    /\ flow[f] = "built" /\ Runs(f)
    /\ challenge[f] \notin Unusable
    /\ nonceCount' = nonceCount + 1
    /\ hops' = [hops EXCEPT ![f] = 0]
    /\ used' = used \union {Carried(f, 0)}
    /\ Goto(f, "sent")
    /\ UNCHANGED <<lastChallenge, issued, challenge, nc, answered>>

\* Unknown algorithm: before the count is read.  Unknown qop: after it was
\* incremented.  The challenge stays, for the next flow to fail on.
Raise(f) ==
    /\ flow[f] \in {"build", "built"} /\ Runs(f)
    /\ challenge[f] \in Unusable
    /\ nonceCount' = IF flow[f] = "built" THEN nonceCount + 1 ELSE nonceCount
    /\ Goto(f, "done")
    /\ UNCHANGED <<lastChallenge, issued, challenge, nc, answered, hops, used>>

-----------------------------------------------------------------------------
(* _send_handling_redirects, which the flow does not see.  A redirect of a  *)
(* request without the header is no step of this module.                    *)

\* Same origin, or the same host from http to https: the header is copied.
Redirected(f) ==
    /\ flow[f] = "sent" /\ Runs(f)
    /\ challenge[f] # NoChallenge
    /\ hops[f] < MaxHops
    /\ hops' = [hops EXCEPT ![f] = @ + 1]
    /\ used' = used \union {Carried(f, hops'[f])}
    /\ UNCHANGED <<lastChallenge, nonceCount, issued, flow, challenge, nc, answered>>

\* Any other origin: it is dropped, and a redirect back does not restore it.
Stripped(f) ==
    /\ flow[f] = "sent" /\ Runs(f)
    /\ challenge[f] # NoChallenge
    /\ challenge' = [challenge EXCEPT ![f] = NoChallenge]
    /\ UNCHANGED <<lastChallenge, nonceCount, issued, flow, nc, answered, hops, used>>

Next ==
    \E f \in Flows :
        \/ Start(f) \/ End(f) \/ Challenged(f) \/ Reset(f) \/ Answer(f)
        \/ ReadCount(f) \/ Send(f) \/ Raise(f) \/ Redirected(f) \/ Stripped(f)

Spec == Init /\ [][Next]_vars

-----------------------------------------------------------------------------
\* A server that counts takes a repeated nc for a replay.  Two requests carry
\* the same nonce and nc only if one is a redirect of the other, however the
\* flows overlap and whoever is challenged in between: the auth hands out each
\* nonce and nc once.
OnlyRedirectsRepeat ==
    \A a, b \in used :
        a.nonce = b.nonce /\ a.nc = b.nc => a.flow = b.flow /\ a.answer = b.answer

Counts(nonce) == {header.nc : header \in {h \in used : h.nonce = nonce}}

\* Nor does the server miss one: between two steps of the flows, the requests
\* that used the remembered nonce are exactly those the count says.
NoGap ==
    lastChallenge \notin Unusable /\ (\A f \in Flows : flow[f] \in Switching)
        => Counts(lastChallenge) = 1 .. nonceCount - 1

-----------------------------------------------------------------------------
\* One flow runs at a time, on the challenge that is remembered.
OneRuns == \A f, g \in Flows : flow[f] \notin Switching /\ flow[g] \notin Switching => f = g

OnTheLast ==
    /\ lastChallenge = issued
    /\ \A f \in Flows :
          /\ flow[f] \in {"build", "built"} => challenge[f] = lastChallenge
          /\ flow[f] \notin Switching => lastChallenge # NoChallenge
          /\ flow[f] = "reset" => nonceCount = 1
          /\ flow[f] = "built" => nc[f] = nonceCount

\* The count is that of the requests with the remembered nonce; a new one has
\* been sent with none.
Counted ==
    IF \E f \in Flows : flow[f] = "challenged"
      THEN \A header \in used : header.nonce # lastChallenge
      ELSE lastChallenge \notin Unusable =>
              /\ \A k \in 1 .. nonceCount - 1 :
                    \E header \in used : header.nonce = lastChallenge /\ header.nc = k
              /\ \A header \in used :
                    header.nonce = lastChallenge => header.nc \in 1 .. nonceCount - 1

\* What a redirect may repeat was handed out to this flow.
HandedOut ==
    \A f \in Flows :
        /\ flow[f] = "start" => challenge[f] = NoChallenge
        /\ flow[f] = "sent" /\ challenge[f] # NoChallenge => Carried(f, 0) \in used

IInv == TypeOK /\ OneRuns /\ OnTheLast /\ Counted /\ HandedOut /\ OnlyRedirectsRepeat
===============================================================================
