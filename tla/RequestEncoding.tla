---------------------------- MODULE RequestEncoding ----------------------------
(***************************************************************************)
(* The bodies of requests and responses and the headers that announce      *)
(* them: encode_request and encode_response of httpxp/_content.py, the     *)
(* multipart encoder of _multipart.py, _prepare of _models.py.             *)
(*                                                                         *)
(* A body is what is given for it: "none", "bytes" of a length (typed if   *)
(* they are text, a form or JSON), "iterator", "file" (content=<file>), or *)
(* "multipart" with fields, each of bytes or of a file.  A file is         *)
(* "memory" (random access), "disk" (a descriptor), "pipe" (a descriptor   *)
(* that has no size and no position) or "opaque" (it can only be read).    *)
(***************************************************************************)
EXTENDS Naturals, Sequences

CONSTANTS Files,             \* file objects
          Size,              \* the bytes in each of them
          Bodies,            \* bound: the bodies given
          HeaderLength,      \* of a field's headers
          BoundaryLength,
          ChunkSize,         \* FileField.CHUNK_SIZE
          Transmissions      \* bound: how often one request is sent

Kinds == {"memory", "disk", "pipe", "opaque"}

FormField == [kind : {"bytes"}, length : Nat] \union [kind : {"file"}, file : Files]
IsBody(value) ==
    \/ value \in [kind : {"none", "iterator"}] \union [kind : {"bytes"}, length : Nat, typed : BOOLEAN]
    \/ value \in [kind : {"file"}, file : Files]
    \/ value \in [kind : {"multipart"}, fields : Seq(FormField)]

RequestEncodingAssumption ==
    /\ Size \in [Files -> Nat] /\ HeaderLength \in Nat /\ BoundaryLength \in Nat
    /\ ChunkSize \in Nat \ {0}
    /\ \A value \in Bodies : IsBody(value)

VARIABLES
    kind,          \* of each file
    position,      \* of each file
    body,          \* what the request or response was made with
    explicit,      \* Content-Length and Transfer-Encoding set by the caller
    framing,       \* the headers it has
    sending,       \* the field that is being rendered, 0 for none, and the
                   \* bytes of its file that were sent
    sent,          \* bytes of this transmission
    count,         \* transmissions
    fromStart      \* history: a file given as content was at its start

evars == <<kind, position, body, explicit, framing, sending, sent, count, fromStart>>

Unknown == [known |-> FALSE, length |-> 0]
Known(n) == [known |-> TRUE, length |-> n]

-----------------------------------------------------------------------------
(* Lengths                                                                  *)

\* Mutant: a file is as long as what is left of it.
PeekFromPosition(file) ==
    IF kind[file] = "opaque" THEN Unknown ELSE Known(Size[file] - position[file])

\* peek_filelike_length: fstat of a descriptor, else tell and seek.
PeekLength(file) ==
    CASE kind[file] \in {"memory", "disk"} -> Known(Size[file])
      [] kind[file] = "pipe" -> Known(0)
      [] kind[file] = "opaque" -> Unknown

\* The sums of the first 0, 1, ... of a sequence of numbers, and of all of them.
PartialSums(numbers) ==
    LET sums[i \in 0 .. Len(numbers)] == IF i = 0 THEN 0 ELSE sums[i - 1] + numbers[i] IN sums

Sum(numbers) == PartialSums(numbers)[Len(numbers)]

Overhead == (2 + BoundaryLength + 2) + HeaderLength + 2
Closing == 2 + BoundaryLength + 4

FieldLength(field) == IF field.kind = "bytes" THEN Known(field.length) ELSE PeekLength(field.file)

RenderedLengths(fields) == [i \in DOMAIN fields |-> Overhead + FieldLength(fields[i]).length]

\* MultipartStream.get_content_length
MultipartLength(fields) ==
    IF \A i \in DOMAIN fields : FieldLength(fields[i]).known
    THEN Known(Sum(RenderedLengths(fields)) + Closing)
    ELSE Unknown

\* encode_request, encode_response: Content-Length if the length is known, else
\* Transfer-Encoding; neither for an empty body.
Announced ==
    LET length == CASE body.kind = "bytes" -> Known(body.length)
                    [] body.kind = "file" -> PeekLength(body.file)
                    [] body.kind = "multipart" -> MultipartLength(body.fields)
                    [] OTHER -> Unknown IN
    IF body.kind = "none" \/ (body.kind = "bytes" /\ body.length = 0 /\ ~body.typed)
    THEN [contentLength |-> Unknown, chunked |-> FALSE]
    ELSE [contentLength |-> length, chunked |-> ~length.known]

\* _prepare: the caller's headers stay; a request that should have a body and
\* has none says so.
Prepared(announced, bodyExpected) ==
    LET length == IF explicit.contentLength.known THEN explicit.contentLength
                                                  ELSE announced.contentLength
        chunked == explicit.chunked \/ (announced.chunked /\ ~explicit.contentLength.known) IN
    [contentLength |-> IF bodyExpected /\ ~length.known /\ ~chunked THEN Known(0) ELSE length,
     chunked |-> chunked]

-----------------------------------------------------------------------------

Init ==
    /\ kind \in [Files -> Kinds]
    /\ \E start \in {0, 1} : position = [f \in Files |-> IF Size[f] < start THEN 0 ELSE start]
    /\ body \in Bodies
    /\ explicit \in [contentLength : {Unknown, Known(1)}, chunked : BOOLEAN]
    /\ \E bodyExpected \in BOOLEAN : framing = Prepared(Announced, bodyExpected)
    /\ sending = [field |-> 0, file |-> 0]
    /\ sent = 0 /\ count = 0 /\ fromStart = TRUE

Seekable(file) == kind[file] \in {"memory", "disk"}

\* What a read at the file's position returns.
Chunk(file) == LET left == Size[file] - position[file] IN IF left < ChunkSize THEN left ELSE ChunkSize

\* The transport begins to iterate the stream: a file given as content is read
\* from where it is.
Transmit ==
    /\ sending.field = 0 /\ count < Transmissions
    /\ count' = count + 1
    /\ fromStart' = (body.kind = "file" => position[body.file] = 0)
    /\ sent' = IF body.kind = "bytes" THEN body.length ELSE 0
    /\ sending' = [sending EXCEPT !.field = IF body.kind \in {"file", "multipart"} THEN 1 ELSE 0]
    /\ UNCHANGED <<kind, position, body, explicit, framing>>

Fields == CASE body.kind = "file" -> <<body>>
            [] body.kind = "multipart" -> body.fields
            [] OTHER -> <<>>

\* MultipartStream.iter_chunks: the delimiter and headers of a field, and its
\* data if it is bytes; of a file, from its start on if it can seek.
BeginField ==
    LET field == Fields[sending.field] IN
    /\ body.kind = "multipart" /\ sending.field \in DOMAIN Fields /\ sending.file = 0
    /\ IF field.kind = "bytes"
       THEN /\ sent' = sent + Overhead + field.length
            /\ sending' = [sending EXCEPT !.field = @ + 1]
            /\ UNCHANGED position
       ELSE /\ sent' = sent + Overhead
            /\ sending' = [sending EXCEPT !.file = 1]
            /\ position' = IF Seekable(field.file) THEN [position EXCEPT ![field.file] = 0] ELSE position
    /\ UNCHANGED <<kind, body, explicit, framing, count, fromStart>>

\* One read of the file's loop; an empty one ends it.
ReadChunk ==
    LET file == Fields[sending.field].file IN
    /\ sending.field \in DOMAIN Fields
    /\ sending.file = 1 \/ body.kind = "file"
    /\ sent' = sent + Chunk(file)
    /\ position' = [position EXCEPT ![file] = @ + Chunk(file)]
    /\ sending' = IF Chunk(file) > 0 THEN sending
                  ELSE [field |-> IF body.kind = "file" THEN 0 ELSE sending.field + 1, file |-> 0]
    /\ UNCHANGED <<kind, body, explicit, framing, count, fromStart>>

\* The closing delimiter.
EndMultipart ==
    /\ body.kind = "multipart" /\ sending.field = Len(Fields) + 1
    /\ sent' = sent + Closing
    /\ sending' = [field |-> 0, file |-> 0]
    /\ UNCHANGED <<kind, position, body, explicit, framing, count, fromStart>>

Next == Transmit \/ BeginField \/ ReadChunk \/ EndMultipart

Spec == Init /\ [][Next]_evars

-----------------------------------------------------------------------------
\* What is sent is as long as Content-Length says, if that is not the caller's
\* own, every time it is sent: a multipart file is rewound, whatever its
\* position, even when two fields share it.  A file given as content must be at
\* its start, and no pipe may be among the files (httpxp/_multipart.py,
\* get_content_length; _utils.py, peek_filelike_length).
UsesPipe ==
    CASE body.kind = "file" -> kind[body.file] = "pipe"
      [] body.kind = "multipart" ->
            \E i \in DOMAIN Fields : Fields[i].kind = "file" /\ kind[Fields[i].file] = "pipe"
      [] OTHER -> FALSE

LengthDeclared ==
    /\ count > 0 /\ sending.field = 0 /\ framing.contentLength.known
    /\ ~explicit.contentLength.known /\ ~UsesPipe /\ fromStart
    => sent = framing.contentLength.length

\* A message is framed one way, unless the caller asked for the other.
OneFraming == framing.chunked /\ framing.contentLength.known => explicit.chunked

-----------------------------------------------------------------------------
(* What holds in between, which makes them inductive.                       *)

EncodingTypeOK ==
    /\ kind \in [Files -> Kinds] /\ body \in Bodies
    /\ position \in [Files -> Nat] /\ \A file \in Files : position[file] <= Size[file]
    /\ explicit \in [contentLength : {Unknown, Known(1)}, chunked : BOOLEAN]
    /\ sending \in [field : Nat, file : {0, 1}] /\ sent \in Nat /\ count \in Nat
    /\ fromStart \in BOOLEAN

\* The headers are those of the body, whatever has been read of its files.
HeadersOfBody == \E bodyExpected \in BOOLEAN : framing = Prepared(Announced, bodyExpected)

\* Each file among the fields can be rewound, so that the length is known.
Rewindable ==
    \A i \in DOMAIN body.fields : body.fields[i].kind = "file" => Seekable(body.fields[i].file)

\* Between two fields the fields so far were sent; within one, the part of its
\* file that was read.
RenderedSoFar ==
    /\ sending.field > 0 => body.kind \in {"file", "multipart"}
    /\ sending.file = 1 =>
          /\ body.kind = "multipart" /\ sending.field \in DOMAIN body.fields
          /\ body.fields[sending.field].kind = "file"
    /\ body.kind = "file" /\ sending.field > 0 =>
          sending.field = 1 /\ (fromStart => sent = position[body.file])
    /\ body.kind = "multipart" /\ sending.field > 0 =>
          /\ sending.field <= Len(body.fields) + 1
          /\ Rewindable =>
                sent = PartialSums(RenderedLengths(body.fields))[sending.field - 1]
                       + IF sending.file = 0 THEN 0
                         ELSE Overhead + position[body.fields[sending.field].file]

\* A transmission that is over sent all of the body.
RenderedInFull ==
    sending.field = 0 /\ count > 0 =>
        /\ body.kind \in {"none", "iterator"} => sent = 0
        /\ body.kind = "bytes" => sent = body.length
        /\ body.kind = "file" /\ fromStart => sent = Size[body.file]
        /\ body.kind = "multipart" /\ Rewindable =>
              sent = Sum(RenderedLengths(body.fields)) + Closing

EncodingInv == EncodingTypeOK /\ HeadersOfBody /\ RenderedSoFar /\ RenderedInFull
===============================================================================
