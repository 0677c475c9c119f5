-------------------------------- MODULE Upload --------------------------------
(***************************************************************************)
(* One request body on its way out (src/src/upload.rs) and the end of      *)
(* NativeClient.send that waits for it (src/src/lib.rs).  Four parties     *)
(* meet here: the thread inside send(), the connection task that polls the *)
(* body, the blocking thread that runs the iterator's __next__, and the    *)
(* write watchdog.  A slice is at most 64 KiB of a chunk.                  *)
(***************************************************************************)
EXTENDS Naturals

CONSTANTS Items,          \* chunks the request iterator can produce
          MaxSlices,      \* slices in the largest chunk
          WriteTimeout    \* ticks of the clock the watchdog allows

ASSUME UploadAssumption ==
    Items \in Nat /\ MaxSlices \in Nat \ {0} /\ WriteTimeout \in Nat \ {0}

VARIABLES
    buffered,   \* the body is bytes, not an iterator
    left,       \* chunks still inside the iterator
    pending,    \* slices of the current chunk not yet given to the transport
    producer,   \* where the unfold closure is
    pulled,     \* what __next__ returned: a number of slices, "eof" or "raise"
    progress,   \* the watch channel: what the producer published last
    age,        \* ticks since the producer last published that it writes
    watch,      \* the watchdog's copy of progress; "off": it waits for ever
    seen,       \* the watchdog has looked at the last publication
    elapsed,    \* ticks since the arming the watchdog's timer is set by
    stop,       \* upload_stop
    slot,       \* the iterator's own exception, for send() to raise
    phase,      \* the thread inside send()
    outcome,    \* what its select picked, and then what send() returns
    taken,      \* history: slices __next__ handed out
    wire,       \* history: slices the transport received
    late,       \* history: pulls begun and slices yielded after stop was set
    broke,      \* history: the transport failed because the body did
    still,      \* history: the unfinished body stood still for the write timeout
    away        \* history: time passed while the watchdog had not looked at news

vars == <<buffered, left, pending, producer, pulled, progress, age, watch, seen, elapsed,
          stop, slot, phase, outcome, taken, wire, late, broke, still, away>>

body == <<buffered, left, pending, producer, pulled, taken, wire, late>>
channel == <<progress, seen, age>>
watcher == <<watch, elapsed, still, away>>
ending == <<stop, slot, phase, outcome, broke>>

Results == (0 .. MaxSlices) \union {MaxSlices + 1, MaxSlices + 2}
Eof == MaxSlices + 1
Raise == MaxSlices + 2

Finished == {"ended", "broken", "dropped"}

TypeOK ==
    /\ buffered \in BOOLEAN /\ stop \in BOOLEAN /\ broke \in BOOLEAN
    /\ left \in 0 .. Items /\ pending \in 0 .. MaxSlices
    /\ producer \in {"resting", "armed", "pulling", "pulled", "breaking"} \union Finished
    /\ pulled \in Results
    /\ progress \in {"waiting", "writing", "done"}
    /\ watch \in {"waiting", "writing", "off"}
    /\ seen \in BOOLEAN /\ still \in BOOLEAN /\ away \in BOOLEAN
    /\ age \in 0 .. WriteTimeout /\ elapsed \in 0 .. WriteTimeout
    /\ slot \in {"empty", "error", "taken"}
    /\ phase \in {"sending", "picked", "stopped", "returned"}
    /\ outcome \in {"none", "response", "cancelled", "transport", "write_timeout", "iterator"}
    /\ taken \in Nat /\ wire \in Nat /\ late \in Nat

Init ==
    /\ \/ buffered = FALSE /\ left = Items /\ pending = 0
       \/ buffered = TRUE /\ left = 0 /\ pending \in 1 .. MaxSlices
    /\ producer = "resting" /\ pulled = 0
    /\ progress = "waiting" /\ seen = TRUE /\ age = 0
    /\ watch = "waiting" /\ elapsed = 0 /\ still = FALSE /\ away = FALSE
    /\ stop = FALSE /\ slot = "empty"
    /\ phase = "sending" /\ outcome = "none"
    /\ taken = pending /\ wire = 0 /\ late = 0 /\ broke = FALSE

-----------------------------------------------------------------------------
(* The body stream, polled by the connection task                           *)

Late == IF stop THEN late + 1 ELSE late

Publish(state) ==
    /\ progress' = state
    /\ seen' = FALSE

\* The sender goes with the closure's state: when the stream ends or is dropped.
Closed == producer \in {"ended", "dropped"}

\* Mutant: the watchdog is not armed before the iterator is pulled.
PollUnarmed ==
    /\ producer = "resting"
    /\ IF stop \/ (buffered /\ pending = 0)
         THEN Publish("done") /\ producer' = "ended"
         ELSE UNCHANGED <<progress, seen>> /\ producer' = "armed"
    /\ UNCHANGED <<buffered, left, pending, pulled, age, taken, wire, late, watcher, ending>>

\* Mutant: a poll does not look at the stop flag.
PollUnstoppable ==
    /\ producer = "resting"
    /\ IF buffered /\ pending = 0
         THEN Publish("done") /\ producer' = "ended" /\ UNCHANGED age
         ELSE Publish("writing") /\ producer' = "armed" /\ age' = 0
    /\ UNCHANGED <<buffered, left, pending, pulled, taken, wire, late, watcher, ending>>

\* The transport asks for the next slice.
Poll ==
    /\ producer = "resting"
    /\ IF stop \/ (buffered /\ pending = 0)
         THEN Publish("done") /\ producer' = "ended" /\ UNCHANGED age
         ELSE Publish("writing") /\ producer' = "armed" /\ age' = 0
    /\ UNCHANGED <<buffered, left, pending, pulled, taken, wire, late, watcher, ending>>

\* A slice of the current chunk is ready.
Yield ==
    /\ producer = "armed" /\ pending > 0
    /\ pending' = pending - 1
    /\ wire' = wire + 1
    /\ late' = Late
    /\ producer' = "resting"
    /\ UNCHANGED <<buffered, left, pulled, taken, channel, watcher, ending>>

\* The current chunk is used up: __next__ is called on a blocking thread.
StartPull ==
    /\ producer = "armed" /\ pending = 0 /\ ~buffered
    /\ producer' = "pulling"
    /\ late' = Late
    /\ UNCHANGED <<buffered, left, pending, pulled, taken, wire, channel, watcher, ending>>

\* __next__ returns a chunk, possibly empty, ends, or raises.
PullReturns ==
    /\ producer = "pulling"
    /\ producer' = "pulled"
    /\ \/ /\ left > 0 /\ left' = left - 1
          /\ pulled' \in 0 .. MaxSlices
          /\ taken' = taken + pulled'
       \/ /\ left = 0 /\ pulled' = Eof
          /\ UNCHANGED <<left, taken>>
       \/ /\ pulled' = Raise
          /\ UNCHANGED <<left, taken>>
    /\ UNCHANGED <<buffered, pending, wire, late, channel, watcher, ending>>

\* Mutant: the iterator's exception is not kept for send().
ReceiveErrorUnkept ==
    /\ producer = "pulled"
    /\ \/ /\ stop \/ pulled = Eof
          /\ producer' = "ended" /\ Publish("done")
          /\ UNCHANGED pending
       \/ /\ ~stop /\ pulled \in 0 .. MaxSlices
          /\ producer' = "armed" /\ pending' = pulled
          /\ UNCHANGED <<progress, seen>>
       \/ /\ ~stop /\ pulled = Raise
          /\ producer' = "breaking"
          /\ UNCHANGED <<pending, progress, seen>>
    /\ UNCHANGED <<buffered, left, pulled, taken, wire, late, age, watcher, ending>>

\* The blocking thread's result comes back.  A stop set meanwhile discards it;
\* an empty chunk goes round the loop again without arming the watchdog anew.
Receive ==
    /\ producer = "pulled"
    /\ \/ /\ stop \/ pulled = Eof
          /\ producer' = "ended" /\ Publish("done")
          /\ UNCHANGED <<pending, slot>>
       \/ /\ ~stop /\ pulled \in 0 .. MaxSlices
          /\ producer' = "armed" /\ pending' = pulled
          /\ UNCHANGED <<progress, seen, slot>>
       \/ /\ ~stop /\ pulled = Raise
          /\ producer' = "breaking" /\ slot' = "error"
          /\ UNCHANGED <<pending, progress, seen>>
    /\ UNCHANGED <<buffered, left, pulled, taken, wire, late, age, watcher,
                   stop, phase, outcome, broke>>

\* After the exception is stored the stream itself fails.  (A panic of the
\* blocking thread, the other way to fail, is left out.)
Break ==
    /\ producer = "breaking"
    /\ producer' = "broken" /\ Publish("done")
    /\ UNCHANGED <<buffered, left, pending, pulled, taken, wire, late, age, watcher, ending>>

\* The transport lets the body go: it has sent as many bytes as it announced,
\* its connection failed, or the exchange is over.  Nothing is published, the
\* channel just closes; a __next__ still running is left to itself.
DropBody ==
    /\ producer \notin Finished
    /\ producer' = "dropped"
    /\ UNCHANGED <<buffered, left, pending, pulled, taken, wire, late, channel, watcher, ending>>

-----------------------------------------------------------------------------
(* The select at the end of send(); it polls the watchdog too               *)

Pick(what) ==
    /\ phase = "sending"
    /\ phase' = "picked"
    /\ outcome' = what

Cancelled ==
    /\ Pick("cancelled")
    /\ UNCHANGED <<body, channel, watcher, stop, slot, broke>>

\* Headers may come before the body has been sent, or even asked for.
Headers ==
    /\ Pick("response")
    /\ UNCHANGED <<body, channel, watcher, stop, slot, broke>>

\* The network fails, or the transport reports the body stream's error.
TransportFails ==
    /\ Pick("transport")
    /\ broke' = (producer = "broken")
    /\ UNCHANGED <<body, channel, watcher, stop, slot>>

-----------------------------------------------------------------------------
(* The watchdog.  It waits, with a copy of the progress, for the next       *)
(* publication and, while the copy says "writing", for its timer: whichever *)
(* it finds first when send()'s thread gives it a turn, and either of them  *)
(* when it finds both.                                                      *)

Watching == phase = "sending" /\ watch # "off"

\* The watchdog has something to look at.
News == ~seen \/ Closed

\* The clock, for as long as a timer can still run out.
Tick ==
    /\ phase = "sending"
    /\ \/ progress = "writing" /\ age < WriteTimeout
       \/ watch = "writing" /\ elapsed < WriteTimeout
    /\ age' = IF age < WriteTimeout THEN age + 1 ELSE age
    /\ elapsed' = IF elapsed < WriteTimeout THEN elapsed + 1 ELSE elapsed
    /\ still' = (still \/ (progress = "writing" /\ age' = WriteTimeout /\ producer \notin Finished))
    /\ away' = (away \/ (Watching /\ News))
    /\ UNCHANGED <<body, progress, seen, watch, ending>>

\* Mutant: a timer once started is not set anew.
ObserveOnce ==
    /\ Watching /\ ~seen
    /\ seen' = TRUE
    /\ watch' = IF progress = "done" THEN "off" ELSE progress
    /\ elapsed' = IF watch = "writing" THEN elapsed ELSE age
    /\ still' = (still /\ age = WriteTimeout)
    /\ away' = (away /\ Closed)
    /\ UNCHANGED <<body, progress, age, ending>>

\* changed() and then borrow_and_update().  A publication not looked at yet is
\* found even when the channel has closed since.  From here on only the arming
\* it now knows of can justify a timeout, and only news that are left excuse one.
Observe ==
    /\ Watching /\ ~seen
    /\ seen' = TRUE
    /\ watch' = IF progress = "done" THEN "off" ELSE progress
    /\ elapsed' = age
    /\ still' = (still /\ age = WriteTimeout)
    /\ away' = (away /\ Closed)
    /\ UNCHANGED <<body, progress, age, ending>>

\* changed() fails: the channel is closed and there is nothing new in it.
SeeClosed ==
    /\ Watching /\ seen /\ Closed
    /\ watch' = "off"
    /\ UNCHANGED <<body, channel, elapsed, still, away, ending>>

\* The timer of the copied arming has run out, whatever was published since.
Watchdog ==
    /\ watch = "writing" /\ elapsed = WriteTimeout
    /\ Pick("write_timeout")
    /\ UNCHANGED <<body, channel, watcher, stop, slot, broke>>

-----------------------------------------------------------------------------
(* The end of send()                                                        *)

\* A response to a streamed body stops the upload.
StoreStop ==
    /\ phase = "picked"
    /\ phase' = "stopped"
    /\ stop' = (outcome = "response" /\ ~buffered)
    /\ UNCHANGED <<body, channel, watcher, slot, outcome, broke>>

\* An exception of the iterator replaces whatever the select returned.
TakeSlot ==
    /\ phase = "stopped"
    /\ phase' = "returned"
    /\ IF slot = "error"
         THEN slot' = "taken" /\ outcome' = "iterator"
         ELSE UNCHANGED <<slot, outcome>>
    /\ UNCHANGED <<body, channel, watcher, stop, broke>>

Next ==
    \/ Poll \/ Yield \/ StartPull \/ PullReturns \/ Receive \/ Break \/ DropBody
    \/ Cancelled \/ Headers \/ TransportFails \/ Tick \/ Observe \/ SeeClosed \/ Watchdog
    \/ StoreStop \/ TakeSlot

Spec == Init /\ [][Next]_vars

\* Time passes, the watchdog is polled at some time after it was woken and
\* send() runs on.  Neither the iterator nor the peer is assumed to do anything.
FairSpec ==
    /\ Spec
    /\ WF_vars(Tick) /\ WF_vars(Observe) /\ WF_vars(Watchdog)
    /\ WF_vars(StoreStop) /\ WF_vars(TakeSlot)

-----------------------------------------------------------------------------
\* A truncated body is never silent.  One that ends without having been stopped
\* by an early response is the whole body: the iterator was run to its end and
\* every slice was sent; until then what the transport has and what waits is
\* what the iterator handed out.  And the user's own exception is never
\* disguised as a transport error: it is in the slot before the transport can
\* see the stream fail.
NoSilentTruncation ==
    /\ producer = "ended" /\ ~stop => left = 0 /\ wire = taken
    /\ producer \in {"resting", "armed", "pulling"} => wire + pending = taken
    /\ phase = "returned" /\ outcome = "transport" => ~broke

\* After an early response has been reported at most one more pull or slice
\* happens, the one whose poll had already passed the check of the flag.
StopIsPrompt == late <= 1

\* The write timeout is about writing: WriteTimeout is raised only if, since
\* the watchdog last looked, the body stood still for the whole timeout without
\* being finished, or if send()'s thread gave the watchdog no turn before time
\* passed on.  A timer set by an arming that it knows to be over never ends the
\* request, and a slow response to an upload it knows to be over neither.
TimeoutIsDue ==
    [][phase = "sending" /\ outcome' = "write_timeout" => still \/ away]_vars

\* An iterator that never returns, or a transport that never asks again, does
\* not hang send(): the watchdog ends it.
StallEndsInTimeout ==
    /\ (producer = "pulling" /\ phase = "sending")
          ~> (producer # "pulling" \/ phase = "returned")
    /\ (producer = "resting" /\ progress # "waiting" /\ phase = "sending")
          ~> (producer # "resting" \/ phase = "returned")

-----------------------------------------------------------------------------
\* How the body ended.  One that the producer ended is whole if nothing of it is
\* left, whether or not it had also been stopped.
Fate ==
    CASE producer = "ended"   -> IF left = 0 /\ wire = taken THEN "whole" ELSE "curtailed"
      [] producer = "broken"  -> "failed"
      [] producer = "dropped" -> "dropped"
      [] OTHER -> "going"

Delivery == INSTANCE BodyDelivery
            WITH rest <- left, given <- taken, sent <- wire, fate <- Fate,
                 fault <- slot, verdict <- outcome, over <- (phase = "returned"),
                 stood <- still, excused <- away

\* The body stream, the blocking thread, the watchdog, the stop flag and the
\* error slot together deliver the body, or the reason why not.
ImplementsDelivery == Delivery!DeliverySpec

-----------------------------------------------------------------------------
\* What is counted: the transport, the current chunk and the result on its way
\* hold what the iterator handed out; an end that was not ordered is its end.
Accounting ==
    /\ buffered => left = 0
    /\ producer \in {"resting", "armed", "pulling"} => wire + pending = taken
    /\ producer \in {"pulling", "pulled"} => ~buffered /\ pending = 0
    /\ producer = "pulled" =>
          IF pulled \in {Eof, Raise} THEN wire = taken ELSE wire + pulled = taken
    /\ producer = "pulled" /\ pulled = Eof => left = 0
    /\ producer = "ended" /\ ~stop => left = 0 /\ wire = taken

\* The flag is set once, by send(), and read by each poll before it begins.
Stopping ==
    /\ stop => phase \in {"stopped", "returned"}
    /\ stop => outcome = "response" \/ slot = "taken"
    /\ ~stop \/ producer = "armed" => late = 0
    /\ late <= 1

\* The iterator's exception is in its slot from before the transport can see
\* the stream fail until send() takes it out.
Reporting ==
    /\ slot # "empty" => producer \in {"breaking", "broken", "dropped"}
    /\ producer \in {"breaking", "broken"} \/ broke => slot # "empty"
    /\ slot = "taken" => phase = "returned"
    /\ phase = "returned" /\ broke => outcome = "iterator"
    /\ phase = "sending" <=> outcome = "none"

\* While nothing is new the watchdog's copy is what the producer published
\* last.  A timer that has run out, or the one that would be set now, is that
\* of a body that stood still, or of a watchdog that had no turn.
Timing ==
    /\ progress = "writing" => producer \notin {"ended", "broken"}
    /\ watch # "off" /\ ~News =>
          watch = progress /\ (progress = "writing" => elapsed = age)
    /\ watch # "off" /\ progress = "writing" /\ age = WriteTimeout => still \/ (away /\ Closed)
    /\ watch = "writing" /\ elapsed = WriteTimeout => still \/ away

IInv == TypeOK /\ Accounting /\ Stopping /\ Reporting /\ Timing
===============================================================================
