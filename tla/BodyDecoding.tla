------------------------------ MODULE BodyDecoding ------------------------------
(***************************************************************************)
(* What happens to a body on its way from the wire to iter_bytes,          *)
(* iter_text and iter_lines of Response (httpxp/_models.py): the content   *)
(* decoders, chunkers, text and line decoder of httpxp/_decoders.py, each  *)
(* with state it carries from one chunk of the wire to the next.           *)
(*                                                                         *)
(* A wire is a sequence of symbols: "a" a character of one byte, "h" and   *)
(* "t" the two bytes of the character "e", "r" and "n" CR and LF, "z" and  *)
(* "g" the two header bytes each of a zlib and of a gzip stream.           *)
(***************************************************************************)
EXTENDS Naturals, Sequences, SequencesExt

CONSTANTS Encodings,     \* bound: Content-Encodings, as sequences of "deflate",
                         \* "raw" (deflate without its header) and "gzip"
          ChunkSizes,    \* chunk_size of the iterators; 0 stands for None
          MaxChunk,      \* bound: symbols of one chunk of the wire
          MaxLength      \* bound: symbols of the decoded body

\* A raw deflate stream, which no server should send, comes alone.
BodyDecodingAssumption ==
    /\ \A codings \in Encodings : codings \in Seq({"deflate", "gzip"}) \/ codings = <<"raw">>
    /\ ChunkSizes \subseteq Nat /\ MaxChunk \in Nat /\ MaxLength \in Nat

VARIABLES
    encoding,      \* the Content-Encoding header
    size,          \* chunk_size
    decoders,      \* MultiDecoder.children: what each has seen
    bytes,         \* ByteChunker: its buffer, and the chunks it returned
    lead,          \* TextDecoder: "h" has come and not yet what follows it
    text,          \* TextChunker
    lines,         \* LineDecoder: buffer, trailing_cr, and the lines it returned
    content,       \* history: the decoded body so far
    decoding       \* "fresh", "running", "done", "failed", or "short": the first
                   \* chunk was too short to tell a raw deflate stream

dvars == <<encoding, size, decoders, bytes, lead, text, lines, content, decoding>>

Symbols == {"a", "h", "t", "r", "n"}
Newlines == {"r", "n"}

-----------------------------------------------------------------------------
(* Content decoders                                                         *)

Header(coding) == IF coding = "gzip" THEN "g" ELSE "z"

\* _get_content_decoder: the last coding is undone first.
NewDecoders(codings) ==
    Reverse([i \in DOMAIN codings |->
        [coding |-> codings[i], first |-> TRUE, header |-> 2, failed |-> FALSE]])

\* decode() of one decoder: the library checks a header when it has both bytes.
\* A deflate stream that has none is begun again without, if that is found out
\* in its first chunk.
Decompress(decoder, data) ==
    LET taken == IF Len(data) < decoder.header THEN Len(data) ELSE decoder.header
        complete == decoder.header > 0 /\ taken = decoder.header
        bad == decoder.coding = "raw" IN
    [decoder |-> [coding |-> decoder.coding, first |-> FALSE,
                  header |-> IF complete /\ bad THEN 0 ELSE decoder.header - taken,
                  failed |-> decoder.failed \/ (complete /\ bad /\ ~decoder.first)],
     data |-> IF complete /\ bad THEN data ELSE SubSeq(data, taken + 1, Len(data))]

AddDecoder(acc, child) ==
    LET step == Decompress(child, acc.data) IN
    [decoders |-> Append(acc.decoders, step.decoder), data |-> step.data]

\* MultiDecoder.decode; an IdentityDecoder is no decoder at all.
DecodeAll(children, data) ==
    LET run[i \in 0 .. Len(children)] ==
            IF i = 0 THEN [decoders |-> <<>>, data |-> data] ELSE AddDecoder(run[i - 1], children[i])
    IN  run[Len(children)]

-----------------------------------------------------------------------------
(* ByteChunker and TextChunker                                              *)

NewChunker == [buffer |-> <<>>, chunks |-> <<>>]

Chunk(chunker, data) ==
    LET value == chunker.buffer \o data
        full == Len(value) \div size IN
    IF size = 0 THEN [chunker EXCEPT !.chunks = IF data = <<>> THEN @ ELSE Append(@, data)]
    ELSE [buffer |-> SubSeq(value, full * size + 1, Len(value)),
          chunks |-> chunker.chunks \o [i \in 1 .. full |-> SubSeq(value, (i - 1) * size + 1, i * size)]]

FlushChunker(chunker) ==
    [buffer |-> <<>>,
     chunks |-> IF chunker.buffer = <<>> THEN chunker.chunks
                                         ELSE Append(chunker.chunks, chunker.buffer)]

-----------------------------------------------------------------------------
(* TextDecoder: an incremental decoder that replaces what it cannot decode   *)

DecodeByte(acc, byte) ==
    LET bad == IF acc.lead THEN <<"?">> ELSE <<>> IN
    CASE byte = "t" -> [lead |-> FALSE, text |-> Append(acc.text, IF acc.lead THEN "e" ELSE "?")]
      [] byte = "h" -> [lead |-> TRUE, text |-> acc.text \o bad]
      [] OTHER -> [lead |-> FALSE, text |-> Append(acc.text \o bad, byte)]

DecodeText(pending, data) ==
    LET run[i \in 0 .. Len(data)] ==
            IF i = 0 THEN [lead |-> pending, text |-> <<>>] ELSE DecodeByte(run[i - 1], data[i])
    IN  run[Len(data)]

FlushText(pending) == IF pending THEN <<"?">> ELSE <<>>

-----------------------------------------------------------------------------
(* LineDecoder                                                              *)

\* str.splitlines
SplitChar(acc, char) ==
    CASE char = "n" /\ acc.cr -> [lines |-> acc.lines, line |-> acc.line, cr |-> FALSE]
      [] char \in Newlines /\ ~(char = "n" /\ acc.cr) ->
            [lines |-> Append(acc.lines, acc.line), line |-> <<>>, cr |-> char = "r"]
      [] OTHER -> [lines |-> acc.lines, line |-> Append(acc.line, char), cr |-> FALSE]

Split(string) ==
    LET run[i \in 0 .. Len(string)] ==
            IF i = 0 THEN [lines |-> <<>>, line |-> <<>>, cr |-> FALSE]
            ELSE SplitChar(run[i - 1], string[i])
    IN  run[Len(string)]

SplitLines(string) ==
    LET split == Split(string) IN
    IF split.line = <<>> THEN split.lines ELSE Append(split.lines, split.line)

NewLines == [buffer |-> <<>>, cr |-> FALSE, out |-> <<>>]

\* Mutant: a CR at the end of the text ends its line at once.
DecodeLinesEager(state, string) ==
    LET split == SplitLines(string)
        joined == <<state.buffer \o split[1]>> \o Tail(split) IN
    IF string = <<>> THEN state
    ELSE IF Last(string) \in Newlines
         THEN [buffer |-> <<>>, cr |-> FALSE, out |-> state.out \o joined]
         ELSE [buffer |-> Last(joined), cr |-> FALSE, out |-> state.out \o Front(joined)]

\* A CR at the end is pushed into the next text; what follows the last newline
\* is buffered.
DecodeLines(state, string) ==
    LET pushed == (IF state.cr THEN <<"r">> ELSE <<>>) \o string
        cr == pushed # <<>> /\ Last(pushed) = "r"
        rest == IF cr THEN Front(pushed) ELSE pushed
        split == SplitLines(rest)
        joined == <<state.buffer \o split[1]>> \o Tail(split) IN
    CASE rest = <<>> -> [buffer |-> state.buffer, cr |-> cr, out |-> state.out]
      [] rest # <<>> /\ Last(rest) \in Newlines ->
            [buffer |-> <<>>, cr |-> cr, out |-> state.out \o joined]
      [] rest # <<>> /\ Last(rest) \notin Newlines ->
            [buffer |-> Last(joined), cr |-> cr, out |-> state.out \o Front(joined)]

FlushLines(state) ==
    [buffer |-> <<>>, cr |-> FALSE,
     out |-> IF state.buffer = <<>> /\ ~state.cr THEN state.out ELSE Append(state.out, state.buffer)]

-----------------------------------------------------------------------------
(* The iterators                                                            *)

Init ==
    /\ encoding \in Encodings /\ size \in ChunkSizes
    /\ decoders = NewDecoders(encoding)
    /\ bytes = NewChunker /\ lead = FALSE /\ text = NewChunker /\ lines = NewLines
    /\ content = <<>> /\ decoding = "fresh"

\* One decoded chunk: iter_bytes(chunk_size) splits it, iter_text(chunk_size)
\* and iter_lines() decode it as it is.
Decoded(data) ==
    LET step == DecodeText(lead, data) IN
    /\ bytes' = Chunk(bytes, data)
    /\ lead' = step.lead
    /\ text' = Chunk(text, step.text)
    /\ lines' = IF step.text = <<>> THEN lines ELSE DecodeLines(lines, step.text)
    /\ content' = content \o data

\* The headers of the streams, outermost first, of which some may have come.
HeaderOf(decoder) ==
    IF decoder.coding = "raw" THEN <<>>
    ELSE [i \in 1 .. decoder.header |-> Header(decoder.coding)]

HeadersOf(children) ==
    LET run[i \in 0 .. Len(children)] ==
            IF i = 0 THEN <<>> ELSE run[i - 1] \o HeaderOf(children[i])
    IN  run[Len(children)]

Headers == HeadersOf(decoders)

\* A chunk comes off the wire: what is left of the headers, then the body.
Receive ==
    \E count \in 0 .. MaxChunk, data \in SeqOf(Symbols, MaxChunk) :
        LET raw == SubSeq(Headers, 1, count) \o data
            step == DecodeAll(decoders, raw)
            failed == \E i \in DOMAIN step.decoders : step.decoders[i].failed IN
        /\ decoding \in {"fresh", "running", "short"}
        /\ count <= Len(Headers) /\ (data # <<>> => count = Len(Headers))
        /\ Len(raw) \in 1 .. MaxChunk
        /\ Len(content) + Len(data) <= MaxLength
        /\ decoders' = step.decoders
        /\ decoding' = CASE failed -> "failed"
                         [] decoding = "fresh" /\ encoding = <<"raw">> /\ Len(raw) < 2 -> "short"
                         [] OTHER -> IF decoding = "short" THEN "short" ELSE "running"
        /\ IF failed THEN UNCHANGED <<bytes, lead, text, lines, content>> ELSE Decoded(step.data)
        /\ UNCHANGED <<encoding, size>>

\* The end of the body: every stage is flushed into the next.
Flush ==
    LET left == FlushText(lead)
        all == IF left = <<>> THEN lines ELSE DecodeLines(lines, left) IN
    /\ decoding \in {"fresh", "running"}
    /\ decoding' = "done"
    /\ bytes' = FlushChunker(bytes)
    /\ text' = FlushChunker(Chunk(text, left))
    /\ lead' = FALSE
    /\ lines' = FlushLines(all)
    /\ UNCHANGED <<encoding, size, decoders, content>>

Next == Receive \/ Flush

Spec == Init /\ [][Next]_dvars

-----------------------------------------------------------------------------
\* How the body was cut into chunks does not show: iter_bytes and iter_text
\* give chunks of the size that was asked for, the last one excepted, that make
\* up the whole; the text is that of the body decoded at once; the lines are
\* what splitlines makes of that text (httpxp/_decoders.py, LineDecoder); and
\* decoding fails for no chunking, but for a raw deflate stream whose first
\* chunk has no two bytes.
Sized(chunks) ==
    size # 0 => \A i \in DOMAIN chunks :
                    Len(chunks[i]) \in 1 .. size /\ (i < Len(chunks) => Len(chunks[i]) = size)

ChunkingTransparent ==
    LET whole == DecodeText(FALSE, content)
        string == whole.text \o FlushText(whole.lead) IN
    /\ decoding = "done" =>
          /\ FlattenSeq(bytes.chunks) = content /\ Sized(bytes.chunks)
          /\ FlattenSeq(text.chunks) = string /\ Sized(text.chunks)
          /\ lines.out = SplitLines(string)
    /\ decoding # "failed" \/ encoding = <<"raw">>
===============================================================================
