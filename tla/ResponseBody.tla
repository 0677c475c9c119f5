------------------------------ MODULE ResponseBody ------------------------------
(***************************************************************************)
(* The body of one streamed response: the flags of Response                *)
(* (httpxp/_models.py) above the native stream (src/lib.rs).  Several      *)
(* readers use the response, some with read()/aread(), some with an        *)
(* iterator they may leave half-way, and somebody may close it meanwhile.  *)
(* A step runs from one native call to the next, so that it is atomic for  *)
(* the tasks of an AsyncClient; chunks are numbered in wire order.         *)
(***************************************************************************)
EXTENDS Naturals, Sequences

CONSTANTS Readers,       \* callers that read the body
          Length         \* chunks of the body on the wire

LengthAssumption == Length \in Nat

VARIABLES
    consumed,    \* is_stream_consumed
    closed,      \* is_closed
    cached,      \* _content exists
    content,     \* what it holds
    mode,        \* each reader's call: read() or iter_raw()
    reader,      \* where it is
    got,         \* the chunks it was given
    wire,        \* chunks taken off the wire
    alive,       \* the native stream exists
    cancelled,   \* its NativeCancellation is set
    closer,      \* an explicit close(), from elsewhere
    after        \* history: readers that asked for a chunk after that close had ended

vars == <<consumed, closed, cached, content, mode, reader, got, wire, alive, cancelled, closer, after>>

Whole == [i \in 1 .. Length |-> i]

Over == {"done", "StreamConsumed", "StreamClosed", "failed", "left"}

TypeOK ==
    /\ consumed \in BOOLEAN /\ closed \in BOOLEAN
    /\ alive \in BOOLEAN /\ cancelled \in BOOLEAN
    /\ cached \in BOOLEAN /\ content \in Seq(1 .. Length)
    /\ mode \in [Readers -> {"read", "raw"}]
    /\ reader \in [Readers -> {"new", "pulling", "between", "flushed", "closing"} \union Over]
    /\ got \in [Readers -> Seq(1 .. Length)]
    /\ wire \in 0 .. Length
    /\ closer \in {"idle", "closing", "done"}
    /\ after \subseteq Readers

Init ==
    /\ consumed = FALSE /\ closed = FALSE /\ cached = FALSE /\ content = <<>>
    /\ mode \in [Readers -> {"read", "raw"}]
    /\ reader = [r \in Readers |-> "new"]
    /\ got = [r \in Readers |-> <<>>]
    /\ wire = 0 /\ alive = TRUE /\ cancelled = FALSE
    /\ closer = "idle" /\ after = {}

At(r, place) == reader' = [reader EXCEPT ![r] = place]

\* The reader's next step is read_chunk.
Ask(r) ==
    /\ At(r, "pulling")
    /\ after' = IF closer = "done" THEN after \union {r} ELSE after

-----------------------------------------------------------------------------
(* Response.read, iter_raw and their asynchronous twins                     *)

\* Mutant: a body that is being streamed can be streamed again.
BeginAgain(r) ==
    /\ reader[r] = "new" /\ ~closed /\ ~cached
    /\ consumed' = TRUE /\ Ask(r)
    /\ UNCHANGED <<closed, cached, content, mode, got, wire, alive, cancelled, closer>>

\* The checks, then the claim on the stream.
Begin(r) ==
    /\ reader[r] = "new"
    /\ ~(mode[r] = "read" /\ cached)
    /\ \/ consumed /\ At(r, "StreamConsumed") /\ UNCHANGED <<consumed, after>>
       \/ ~consumed /\ closed /\ At(r, "StreamClosed") /\ UNCHANGED <<consumed, after>>
       \/ ~consumed /\ ~closed /\ consumed' = TRUE /\ Ask(r)
    /\ UNCHANGED <<closed, cached, content, mode, got, wire, alive, cancelled, closer>>

\* read() of a response that has been read.
ReadCached(r) ==
    /\ reader[r] = "new" /\ mode[r] = "read" /\ cached
    /\ got' = [got EXCEPT ![r] = content]
    /\ At(r, "done")
    /\ UNCHANGED <<consumed, closed, cached, content, mode, wire, alive, cancelled, closer, after>>

\* read_chunk returns a chunk; an iterator hands it out and is suspended.
PullChunk(r) ==
    /\ reader[r] = "pulling" /\ alive /\ ~cancelled /\ wire < Length
    /\ wire' = wire + 1
    /\ got' = [got EXCEPT ![r] = Append(@, wire + 1)]
    /\ \/ mode[r] = "raw" /\ At(r, "between") /\ UNCHANGED after
       \/ mode[r] = "read" /\ Ask(r)
    /\ UNCHANGED <<consumed, closed, cached, content, mode, alive, cancelled, closer>>

\* read_chunk returns None: the body ended, or the stream was dropped before.
PullNone(r) ==
    /\ reader[r] = "pulling"
    /\ ~alive \/ (~cancelled /\ wire = Length)
    /\ alive' = FALSE
    /\ At(r, "flushed")
    /\ UNCHANGED <<consumed, closed, cached, content, mode, got, wire, cancelled, closer, after>>

\* Mutant: a read error ends the iteration as the end of the body does.
PullFailsQuietly(r) ==
    /\ reader[r] = "pulling" /\ alive
    /\ alive' = FALSE
    /\ At(r, "flushed")
    /\ UNCHANGED <<consumed, closed, cached, content, mode, got, wire, cancelled, closer, after>>

\* read_chunk raises: a read error, or "request cancelled".
PullFails(r) ==
    /\ reader[r] = "pulling" /\ alive
    /\ alive' = FALSE
    /\ At(r, "failed")
    /\ UNCHANGED <<consumed, closed, cached, content, mode, got, wire, cancelled, closer, after>>

\* The caller asks a suspended iterator for more.
Resume(r) ==
    /\ reader[r] = "between"
    /\ Ask(r)
    /\ UNCHANGED <<consumed, closed, cached, content, mode, got, wire, alive, cancelled, closer>>

\* It is left instead; the asynchronous iterator cancels when it is finalised.
LeaveIterator(r) ==
    /\ reader[r] = "between"
    /\ At(r, "left")
    /\ cancelled' \in {cancelled, TRUE}
    /\ UNCHANGED <<consumed, closed, cached, content, mode, got, wire, alive, closer, after>>

\* The end of iter_raw: close() once, which also drops the native stream.
EndIteration(r) ==
    /\ reader[r] = "flushed"
    /\ closed' = TRUE
    /\ cancelled' = (cancelled \/ ~closed)
    /\ At(r, "closing")
    /\ UNCHANGED <<consumed, cached, content, mode, got, wire, alive, closer, after>>

\* Then read() keeps what it joined.
Finish(r) ==
    /\ reader[r] = "closing"
    /\ IF mode[r] = "read"
         THEN cached' = TRUE /\ content' = got[r]
         ELSE UNCHANGED <<cached, content>>
    /\ At(r, "done")
    /\ UNCHANGED <<consumed, closed, mode, got, wire, alive, cancelled, closer, after>>

-----------------------------------------------------------------------------
(* Response.close from elsewhere                                            *)

\* Mutant: only the flag is set, the native stream is left to the reader.
CloseFlagOnly ==
    /\ closer = "idle"
    /\ closer' = "done"
    /\ closed' = TRUE
    /\ UNCHANGED <<consumed, cached, content, mode, reader, got, wire, alive, cancelled, after>>

Close ==
    /\ closer = "idle"
    /\ closer' = IF closed THEN "done" ELSE "closing"
    /\ closed' = TRUE
    /\ cancelled' = (cancelled \/ ~closed)
    /\ UNCHANGED <<consumed, cached, content, mode, reader, got, wire, alive, after>>

\* NativeResponse.close gets the mutex, between two chunks or after a reader
\* has noticed the cancellation.
CloseDrops ==
    /\ closer = "closing"
    /\ alive' = FALSE /\ closer' = "done"
    /\ UNCHANGED <<consumed, closed, cached, content, mode, reader, got, wire, cancelled, after>>

Next ==
    \/ \E r \in Readers :
          \/ Begin(r) \/ ReadCached(r) \/ PullChunk(r) \/ PullNone(r) \/ PullFails(r)
          \/ Resume(r) \/ LeaveIterator(r) \/ EndIteration(r) \/ Finish(r)
    \/ Close \/ CloseDrops

Spec == Init /\ [][Next]_vars

-----------------------------------------------------------------------------
\* Readers never share the stream: at most one is at it, and what each is
\* given is the body from its start without gaps (those who come later get the
\* cache, or StreamConsumed).
OneReaderInOrder ==
    /\ \A r \in Readers : got[r] = SubSeq(Whole, 1, Len(got[r]))
    /\ \A r, q \in Readers :
          reader[r] \notin Over \union {"new"} /\ reader[q] \notin Over \union {"new"} => r = q

\* As long as nobody calls close(), a read or an iteration that ends without
\* an exception has seen the whole body, and the cache holds nothing less.
WholeUnlessClosed ==
    closer = "idle" =>
        /\ \A r \in Readers : reader[r] = "done" => got[r] = Whole
        /\ cached => content = Whole

\* Once close() has returned nothing is taken off the wire any more, not even
\* by a reader that was in the middle of the body.
DryAfterClose == [][closer = "done" => wire' = wire]_vars

\* "Attempted to read or stream content, but the stream has been closed."
\* (httpxp/_exceptions.py:334): a reader that asks for more after close() has
\* returned is told so.
AskingAfterCloseRaises == \A r \in after : reader[r] # "done"

-----------------------------------------------------------------------------
Reading == {"pulling", "between", "flushed", "closing"}

\* The first `length` chunks of the body.
IsPrefix(chunks, length) == Len(chunks) = length /\ \A i \in 1 .. length : chunks[i] = i

\* The stream is claimed once, and the claim is not given back.
Claimed ==
    /\ \A r \in Readers : reader[r] \in Reading => consumed
    /\ \A r, q \in Readers : reader[r] \in Reading /\ reader[q] \in Reading => r = q
    /\ ~consumed => wire = 0

\* Everybody has been given the body from its start, its reader all there was.
FromTheStart ==
    /\ IsPrefix(content, Len(content))
    /\ \A r \in Readers :
          /\ IsPrefix(got[r], Len(got[r]))
          /\ reader[r] = "new" => got[r] = <<>>
          /\ reader[r] \in Reading => Len(got[r]) = wire

\* Only its reader ends the stream, as long as it is not closed.
EndsAtTheEnd ==
    closer = "idle" =>
        /\ alive \/ (consumed /\ \A r \in Readers : reader[r] \notin {"pulling", "between"})
        /\ \A r \in Readers : reader[r] \in {"flushed", "closing", "done"} => Len(got[r]) = Length
        /\ cached => Len(content) = Length

CloseCancels == (closer # "idle" => closed) /\ (closed => cancelled)

IInv == TypeOK /\ Claimed /\ FromTheStart /\ EndsAtTheEnd /\ CloseCancels
===============================================================================
