----------------------------- MODULE URLReferences -----------------------------
(***************************************************************************)
(* URLs: urlparse of httpxp/_urlparse.py, copy_with of URL (_urls.py), and  *)
(* the merging of a request's URL with the client's base_url (_client.py). *)
(*                                                                         *)
(* A text is a sequence of tokens: the delimiters ":", "/", "?", "#", "@",  *)
(* the segments "." and "..", the words "http" and "x", the first also in  *)
(* capitals, the number "80", a space, and the escapes of characters.      *)
(* Hosts are names: no IP addresses, no IDNA.                              *)
(***************************************************************************)
EXTENDS Naturals, Sequences, SequencesExt, TLC

CONSTANTS Texts,       \* bound: the texts that are parsed
          Bases,       \* bound: texts of base_url
          CopyArgs     \* bound: keyword arguments of copy_with

VARIABLES
    base,              \* the client's base_url
    url,               \* a URL, parsed and perhaps copied
    merged             \* _merge_url(url), once a request is built for it

uvars == <<base, url, merged>>

None == <<"None">>     \* Python's None

-----------------------------------------------------------------------------
(* Percent-encoding                                                         *)

Escape == (" " :> "%20") @@ ("@" :> "%40") @@ ("/" :> "%2F") @@ ("?" :> "%3F") @@ ("#" :> "%23")

\* Mutant: escapes are escaped again.
QuoteAgain(text, unsafe) ==
    FlattenSeq([i \in DOMAIN text |->
        IF text[i] \in unsafe THEN <<Escape[text[i]]>>
        ELSE IF \E c \in DOMAIN Escape : Escape[c] = text[i] THEN <<"%25", text[i]>> ELSE <<text[i]>>])

\* quote: what is escaped already stays.
Quote(text, unsafe) ==
    [i \in DOMAIN text |-> IF text[i] \in unsafe THEN Escape[text[i]] ELSE text[i]]

QuoteOptional(text, unsafe) == IF text = None THEN None ELSE Quote(text, unsafe)

HostUnsafe == DOMAIN Escape
UserinfoUnsafe == DOMAIN Escape
PathUnsafe == {" ", "?", "#"}
QueryUnsafe == {" ", "#"}
FragmentUnsafe == {" "}

-----------------------------------------------------------------------------
(* Taking a text apart: URL_REGEX and AUTHORITY_REGEX                       *)

Letters == {"http", "HTTP", "x"}
SchemeTokens == Letters \union {"80", ".", ".."}

First(text, tokens) == SelectInSeq(text, LAMBDA t : t \in tokens)

Before(text, i) == IF i = 0 THEN text ELSE SubSeq(text, 1, i - 1)
After(text, i) == SubSeq(text, i + 1, Len(text))

\* str.partition: the text before and, if there is one, after a delimiter.
Partition(text, delimiter) ==
    LET i == First(text, {delimiter}) IN
    <<Before(text, i), IF i = 0 THEN None ELSE After(text, i)>>

Reference(text) ==
    LET hash == Partition(text, "#")
        mark == Partition(hash[1], "?")
        colon == SelectInSeq(mark[1], LAMBDA t : t \notin SchemeTokens)
        scheme == /\ colon # 0 /\ mark[1][colon] = ":"
                  /\ colon = 1 \/ mark[1][1] \in Letters
        rest == IF scheme THEN After(mark[1], colon) ELSE mark[1]
        slashes == IsPrefix(<<"/", "/">>, rest)
        slash == First(After(rest, 2), {"/"})
        authority == Before(After(rest, 2), slash) IN
    [scheme |-> IF scheme THEN Before(mark[1], colon) ELSE <<>>,
     authority |-> IF slashes THEN authority ELSE <<>>,
     path |-> IF slashes THEN After(rest, 2 + Len(authority)) ELSE rest,
     query |-> mark[2],
     fragment |-> hash[2]]

SplitAuthority(authority) ==
    LET at == SelectLastInSeq(authority, LAMBDA t : t = "@")
        rest == After(authority, at)
        host == Partition(rest, ":") IN
    [userinfo |-> IF at = 0 THEN <<>> ELSE Before(authority, at),
     host |-> host[1],
     port |-> host[2]]

-----------------------------------------------------------------------------
(* Normalising the parts                                                    *)

Lower(text) == [i \in DOMAIN text |-> IF text[i] = "HTTP" THEN "http" ELSE text[i]]

DefaultPort(scheme) == IF scheme = <<"http">> THEN <<"80">> ELSE None

\* int(port) passes over the spaces around a number.  (There is no token for the
\* sign or the underscores that it accepts, too.)
Number(port) ==
    LET first == SelectInSeq(port, LAMBDA t : t # " ")
        last == SelectLastInSeq(port, LAMBDA t : t # " ") IN
    IF first = 0 THEN <<>> ELSE SubSeq(port, first, last)

ValidPort(port) ==
    port \in {None, <<>>} \/ (Number(port) # <<>> /\ ToSet(Number(port)) = {"80"})

\* The scheme is the one that was written, not the one in lower case.
NormalizePort(port, scheme) ==
    IF port \in {None, <<>>} \/ Number(port) = DefaultPort(scheme) THEN None ELSE Number(port)

ValidPath(path, hasScheme, hasAuthority) ==
    /\ hasAuthority => path = <<>> \/ path[1] = "/"
    /\ ~hasScheme /\ ~hasAuthority =>
          /\ ~IsPrefix(<<"/", "/">>, path)
          /\ ~IsPrefix(<<":">>, path)

\* path.split("/")
Components(path) ==
    FoldLeft(LAMBDA parts, t : IF t = "/" THEN Append(parts, <<>>)
                               ELSE Front(parts) \o <<Append(Last(parts), t)>>,
             <<<<>>>>, path)

DropDots(output, component) ==
    CASE component = <<".">> -> output
      [] component = <<"..">> -> IF output \in {<<>>, <<<<>>>>} THEN output ELSE Front(output)
      [] OTHER -> Append(output, component)

NormalizePath(path) ==
    LET output == FoldLeft(DropDots, <<>>, Components(path)) IN
    FlattenSeq([i \in DOMAIN output |-> IF i = 1 THEN output[1] ELSE <<"/">> \o output[i]])

Invalid == [valid |-> FALSE]

\* The second half of urlparse: parts is a function from names of parts to
\* what was parsed or given for them.
Assemble(parts) ==
    LET all == parts @@ SplitAuthority(parts.authority)
        scheme == Lower(all.scheme)
        userinfo == Quote(all.userinfo, UserinfoUnsafe)
        host == Quote(Lower(all.host), HostUnsafe)
        port == NormalizePort(all.port, all.scheme)
        hasScheme == scheme # <<>>
        hasAuthority == userinfo # <<>> \/ host # <<>> \/ port # None
        path == IF hasScheme \/ hasAuthority THEN NormalizePath(all.path) ELSE all.path IN
    IF ~ValidPort(all.port) \/ ~ValidPath(all.path, hasScheme, hasAuthority) THEN Invalid
    ELSE [valid |-> TRUE, scheme |-> scheme, userinfo |-> userinfo, host |-> host, port |-> port,
          path |-> Quote(path, PathUnsafe), query |-> QuoteOptional(all.query, QueryUnsafe),
          fragment |-> QuoteOptional(all.fragment, FragmentUnsafe)]

Authority(u) ==
    (IF u.userinfo = <<>> THEN <<>> ELSE Append(u.userinfo, "@")) \o u.host
    \o (IF u.port = None THEN <<>> ELSE <<":">> \o u.port)

\* str(url)
Str(u) ==
    (IF u.scheme = <<>> THEN <<>> ELSE Append(u.scheme, ":"))
    \o (IF Authority(u) = <<>> THEN <<>> ELSE <<"/", "/">> \o Authority(u)) \o u.path
    \o (IF u.query = None THEN <<>> ELSE <<"?">> \o u.query)
    \o (IF u.fragment = None THEN <<>> ELSE <<"#">> \o u.fragment)

URL(text) == Assemble(Reference(text))

\* url.copy_with(**args), raw_path and netloc already split: what is not given
\* is taken over, the authority as a whole.
CopyWith(u, args) ==
    Assemble(args @@ [scheme |-> u.scheme, authority |-> Authority(u), path |-> u.path,
                      query |-> u.query, fragment |-> u.fragment])

-----------------------------------------------------------------------------
(* The client's base_url                                                    *)

RawPath(u) ==
    (IF u.path = <<>> THEN <<"/">> ELSE u.path)
    \o (IF u.query = None THEN <<>> ELSE <<"?">> \o u.query)

WithRawPath(u, raw) == LET split == Partition(raw, "?") IN
                       CopyWith(u, [path |-> split[1], query |-> split[2]])

EnforceTrailingSlash(u) ==
    IF Last(RawPath(u)) = "/" THEN u ELSE WithRawPath(u, Append(RawPath(u), "/"))

IsRelative(u) == u.scheme = <<>> \/ u.host = <<>>

LeftStrip(raw) == LET i == SelectInSeq(raw, LAMBDA t : t # "/") IN
                  IF i = 0 THEN <<>> ELSE SubSeq(raw, i, Len(raw))

MergeURL(start, u) ==
    IF IsRelative(u) THEN WithRawPath(start, RawPath(start) \o LeftStrip(RawPath(u))) ELSE u

-----------------------------------------------------------------------------

Init ==
    /\ base \in {EnforceTrailingSlash(URL(text)) : text \in Bases}
    /\ \E text \in Texts : url = URL(text)
    /\ url.valid
    /\ merged = Invalid

Copy ==
    /\ ~merged.valid
    /\ \E args \in CopyArgs : url' = CopyWith(url, args)
    /\ url'.valid
    /\ UNCHANGED <<base, merged>>

Request ==
    /\ ~merged.valid
    /\ merged' = MergeURL(base, url)
    /\ UNCHANGED <<base, url>>

Next == Copy \/ Request

Spec == Init /\ [][Next]_uvars

-----------------------------------------------------------------------------
\* A URL is the URL of its own text, however it came about: parsing what str()
\* gives returns it, so that equality, hashing and redirects see one URL
\* (httpxp/_urls.py, URL.__eq__).  Three kinds of URL are not written the way
\* they are read: a path that begins with "//" or, without a scheme, has a colon
\* in its first segment, where there is no authority; and a default port that
\* was kept (see DefaultPortIsNone).
Ambiguous(u) ==
    \/ Authority(u) = <<>> /\ IsPrefix(<<"/", "/">>, u.path)
    \/ Authority(u) = <<>> /\ u.scheme = <<>> /\ First(u.path, {":"}) # 0
       /\ First(Before(u.path, First(u.path, {":"})), {"/"}) = 0
    \/ u.port # None /\ u.port = DefaultPort(u.scheme)

ReparseStable == Ambiguous(url) \/ URL(Str(url)) = url

\* A relative URL is requested from the client's base_url, whatever it holds
\* (httpxp/_client.py, _merge_url).
MergeStaysHome ==
    merged.valid /\ IsRelative(url) =>
        merged.scheme = base.scheme /\ Authority(merged) = Authority(base)

\* URL.port: "Default ports for "http", "https", "ws", "wss", and "ftp" schemes
\* are always treated as `None`" (httpxp/_urls.py:223).
DefaultPortIsNone == url.port = None \/ url.port # DefaultPort(url.scheme)
===============================================================================
