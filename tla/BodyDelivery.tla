----------------------------- MODULE BodyDelivery -----------------------------
(***************************************************************************)
(* What the owner of a request body may rely on: the transport gets the    *)
(* chunks in the order in which the iterator hands them out, one at a time *)
(* and none before the last was sent; the body ends whole, or there is a   *)
(* reason, and an exception of the iterator is what send() raises, if it   *)
(* came before send() was over.  The call ends in a write timeout only if  *)
(* the body stood still, or if nobody looked.  No thread, flag, clock,     *)
(* timer or channel appears.                                               *)
(* Upload is shown to implement this specification.                        *)
(***************************************************************************)
EXTENDS Naturals

VARIABLES
    rest,      \* chunks the iterator has not handed out
    given,     \* slices it has
    sent,      \* slices the transport has
    fate,      \* "going", or how the body ended: "whole", "curtailed", "failed", "dropped"
    fault,     \* the iterator's exception: "empty" (none), "error" (kept) or "taken" (raised)
    verdict,   \* how send() ends, as known so far
    over,      \* send() has ended
    stood,     \* the body stood still for the write timeout before it ended
    excused    \* time passed while nobody looked how far the body was

deliveryVars == <<rest, given, sent, fate, fault, verdict, over, stood, excused>>
patience == <<stood, excused>>

DeliveryInit ==
    /\ rest \in Nat /\ given \in Nat /\ sent = 0
    /\ fate = "going" /\ fault = "empty"
    /\ verdict = "none" /\ over = FALSE
    /\ stood = FALSE /\ excused = FALSE

-----------------------------------------------------------------------------
(* The body                                                                 *)

\* The iterator is asked for the next chunk only when all it gave was sent.
Give ==
    /\ fate = "going" /\ rest > 0 /\ given = sent
    /\ rest' = rest - 1
    /\ given' \in Nat /\ given' >= given
    /\ UNCHANGED <<sent, fate, fault, verdict, over, patience>>

SendSlice ==
    /\ fate = "going" /\ sent < given
    /\ sent' = sent + 1
    /\ UNCHANGED <<rest, given, fate, fault, verdict, over, patience>>

\* Nothing is left of the body anywhere.
Complete ==
    /\ fate = "going" /\ rest = 0 /\ sent = given
    /\ fate' = "whole"
    /\ UNCHANGED <<rest, given, sent, fault, verdict, over, patience>>

\* A response makes the remainder pointless; nothing else cuts a body short
\* and lets the transport believe that it was complete.
Curtail ==
    /\ fate = "going" /\ verdict = "response"
    /\ fate' = "curtailed"
    /\ UNCHANGED <<rest, given, sent, fault, verdict, over, patience>>

\* The iterator raises, when it was asked.
Raise ==
    /\ fate = "going" /\ fault = "empty" /\ given = sent
    /\ fault' = "error"
    /\ UNCHANGED <<rest, given, sent, fate, verdict, over, patience>>

\* The transport learns of it.
Fail ==
    /\ fate = "going" /\ fault # "empty"
    /\ fate' = "failed"
    /\ UNCHANGED <<rest, given, sent, fault, verdict, over, patience>>

\* The transport lets the body go.
Drop ==
    /\ fate = "going"
    /\ fate' = "dropped"
    /\ UNCHANGED <<rest, given, sent, fault, verdict, over, patience>>

-----------------------------------------------------------------------------
(* The call                                                                 *)

\* Time passes.  Only a body that has not ended stands still.
Wait ==
    /\ stood' \in {stood, stood \/ fate = "going"}
    /\ excused' \in {excused, TRUE}
    /\ UNCHANGED <<rest, given, sent, fate, fault, verdict, over>>

\* Somebody looks, and what is past no longer counts.
Look ==
    /\ stood' \in {stood, FALSE} /\ excused' \in {excused, FALSE}
    /\ UNCHANGED <<rest, given, sent, fate, fault, verdict, over>>

\* Whatever comes first ends the call; the write timeout only when it is due.
Decide(what) ==
    /\ verdict = "none"
    /\ what = "write_timeout" => stood \/ excused
    /\ verdict' = what
    /\ UNCHANGED <<rest, given, sent, fate, fault, over, patience>>

\* send() raises the iterator's exception rather than anything else.
Report ==
    /\ ~over /\ verdict # "none"
    /\ over' = TRUE
    /\ IF fault = "error"
         THEN fault' = "taken" /\ verdict' = "iterator"
         ELSE UNCHANGED <<fault, verdict>>
    /\ UNCHANGED <<rest, given, sent, fate, patience>>

DeliveryNext ==
    \/ Give \/ SendSlice \/ Complete \/ Curtail \/ Raise \/ Fail \/ Drop \/ Report
    \/ Wait \/ Look
    \/ \E what \in {"response", "cancelled", "transport", "write_timeout"} : Decide(what)

DeliverySpec == DeliveryInit /\ [][DeliveryNext]_deliveryVars
===============================================================================
