-------------------------------- MODULE MCValues --------------------------------
(***************************************************************************)
(* What a client computes around a request: how a body is decoded, the     *)
(* headers and parameters taken from the client, URLs, the transport that  *)
(* is chosen, the framing of a body, and the native options.  They share   *)
(* no state, so one of them moves in each behaviour, and the others are at *)
(* <<>>.                                                                   *)
(***************************************************************************)
EXTENDS Naturals, Sequences, TLC

CONSTANTS Parts,
          Encodings, ChunkSizes, MaxChunk, MaxLength,
          HeaderNames, HeaderValues, DefaultHeaders, ProfileHeaders, NoProfile, UserHeaders, UserParams,
          Texts, Bases, CopyArgs,
          SchemeLength, LabelLength, EnvProxies, NoProxies, UserMounts, Requests,
          Files, Size, Bodies, HeaderLength, BoundaryLength, ChunkSize, Transmissions,
          Arguments, ClientMappings, RequestMappings, Mappings, NestedKeys, Emulations,
          ProxyLists

VARIABLES
    part,
    encoding, size, decoders, bytes, lead, text, lines, content, decoding,
    profile, defaults, explicit, headers, wanted, params, request,
    base, url, merged,
    environment, arguments, mounts, target, chosen,
    kind, position, body, given, framing, sending, sent, count, fromStart,
    python, privacy, native, private

Decoding == INSTANCE BodyDecoding
Config == INSTANCE ClientConfig
Urls == INSTANCE URLReferences
Routes == INSTANCE Mounts WITH request <- target
Encoding == INSTANCE RequestEncoding WITH explicit <- given
Options == INSTANCE NativeOptions

ASSUME ValuesAssumption ==
    /\ Decoding!BodyDecodingAssumption /\ Config!ClientConfigAssumption
    /\ Encoding!RequestEncodingAssumption /\ Options!NativeOptionsAssumption

-----------------------------------------------------------------------------
(* Decoding: all chunkings of short bodies                                  *)

MCEncodings == {<<>>, <<"deflate">>, <<"raw">>, <<"gzip", "deflate">>}

(* Settings: a header of two lines, one that a profile has as well, one that *)
(* is what a default is, and two profiles that share one header              *)

H(name, value) == [name |-> name, value |-> <<value>>]
Q(dict) == [given |-> TRUE, dict |-> dict]

MCDefaultHeaders == <<H("accept", "d"), H("agent", "d")>>
MCProfileHeaders == [A |-> <<H("agent", "a"), H("accept", "a")>>,
                     B |-> <<H("agent", "b"), H("lang", "b")>>]
MCUserHeaders == {<<>>, <<H("own", "u1"), H("own", "u2")>>, <<H("agent", "u1")>>,
                  <<H("accept", "d")>>}
MCUserParams == {Q(<<>>), Q([p |-> <<1>>]), Q([q |-> <<2, 3>>, p |-> <<2>>])}

(* URLs: the texts of up to three tokens after four beginnings; ".." and "." *)
(* do not stand beside each other, which would be another word               *)

Delimiters == {":", "/", "?", "#", "@"}
Beginnings == {<<>>, <<"http", ":">>, <<"/", "/", "x">>, <<"HTTP", ":", "/", "/", "x">>}
Apart(t) == \A i \in 1 .. Len(t) - 1 : ~(t[i] \in {".", ".."} /\ t[i + 1] \in {".", ".."})

MCTexts == {beginning \o rest : beginning \in Beginnings,
                rest \in {t \in Decoding!SeqOf(Delimiters \union {"x", "..", "80", " "}, 3) : Apart(t)}}
           \union {<<"x", ":", "/", "x", "/", "..", "/", "/", "x">>, <<"/", ".", "/", "%20">>}
MCBases == {<<"http", ":", "/", "/", "x", "/", "x", "?", "x">>, <<>>}
MCCopyArgs == {[scheme |-> <<"HTTP">>], [scheme |-> <<>>], [host |-> <<"x", "@">>],
               [host |-> <<>>, port |-> <<"None">>], [port |-> <<"80">>],
               [userinfo |-> <<"x", " ", "/">>], [path |-> <<"x", ":", "x">>],
               [path |-> <<"/", "x", "/", "..", "/", "/">>],
               [path |-> <<"/">>, query |-> <<>>], [fragment |-> <<"#">>],
               [fragment |-> <<"None">>]}

(* Transports: bb.com and a.bb.com, named in every way                       *)

BB == <<"bb", "com">>
ABB == <<"a", "bb", "com">>
P(scheme, how, host, port) == [scheme |-> scheme, kind |-> how, host |-> host, port |-> port]
MCSchemeLength == [http |-> 4, https |-> 5, all |-> 0]
MCLabelLength == [a |-> 1, bb |-> 2, com |-> 3]
Patterns == {P(s, k, BB, 0) : s \in {"all", "http"}, k \in {"exact", "domain", "subdomains"}}
            \union {P("all", "any", <<>>, 0), P("http", "any", <<>>, 0), P("all", "any", <<>>, 80),
                    P("https", "exact", BB, 80), P("all", "exact", ABB, 0)}
MCUserMounts == {<<>>} \union {<<[pattern |-> p, transport |-> "m1"], [pattern |-> q, transport |-> "m2"]>> :
                                   p \in Patterns, q \in Patterns}
Entries == {[kind |-> "name", host |-> BB], [kind |-> "dotted", host |-> BB],
            [kind |-> "address", host |-> ABB], [kind |-> "star"],
            [kind |-> "url", pattern |-> P("http", "any", <<>>, 0)]}
MCNoProxies == {<<>>} \union {<<e>> : e \in Entries}
               \union {<<[kind |-> "name", host |-> BB], e>> : e \in Entries}
MCEnvProxies == {{"http"}, {"all", "https"}}
MCRequests == [scheme : {"http", "https"}, host : {BB, ABB, <<"com">>}, port : {0, 80}]

(* Framing: an empty file and one of more than a chunk, alone and in pairs   *)

MCSize == "f" :> 3 @@ "g" :> 0
F(file) == [kind |-> "file", file |-> file]
FormFields == {[kind |-> "bytes", length |-> 0], [kind |-> "bytes", length |-> 1], F("f"), F("g")}
MCBodies ==
    {[kind |-> "none"], [kind |-> "iterator"], F("f")}
    \union {[kind |-> "bytes", length |-> n, typed |-> t] : n \in {0, 2}, t \in BOOLEAN}
    \union {[kind |-> "multipart", fields |-> <<a, b>>] : a \in FormFields, b \in FormFields}

(* Options: each kind, keys that share a setting, unknown and bad ones       *)

O(key, value) == [key |-> key, value |-> value]
Distinct(mapping) == \A i, j \in DOMAIN mapping : i # j => mapping[i].key # mapping[j].key
MCNestedKeys == [tls_options |-> {"min_tls_version"}, http1_options |-> {"writev", "h1_writev"},
                 http2_options |-> {"enable_push"}]
MCMappings == [tls |-> <<O("min_tls_version", "1")>>, two |-> <<O("writev", "a"), O("h1_writev", "b")>>,
               unknown |-> <<O("nokey", "1")>>]
MCEmulations ==
    [chrome |-> [profile |-> "chrome", flags |-> FALSE, http2 |-> TRUE, parts |-> <<>>],
     mixed |-> [profile |-> "chrome", flags |-> TRUE, http2 |-> FALSE,
                parts |-> <<O("tls_options", "tls"), O("headers", "x"), O("orig_headers", "y")>>],
     bare |-> [profile |-> "none", flags |-> TRUE, http2 |-> TRUE, parts |-> <<>>]]
MCProxyLists == [two |-> <<"p1", "p2">>]
Ordered == {O("emulation", "chrome"), O("tls_options", "tls"), O("http2_only", "True"),
            O("http1_only", "True"), O("proxy", "p3"), O("no_proxy", "True"), O("proxies", "two")}
Others == {O("emulation", "mixed"), O("emulation", "bare"), O("http1_options", "two"),
           O("tls_options", "unknown"), O("http1_only", "False"), O("tls_cert_store_pem", "p"),
           O("tls_cert_store", "q"), O("orig_headers", "o"), O("group", "x"),
           O("connect_timeout", "bad")}
MCClientMappings == {m \in Decoding!SeqOf(Ordered, 3) \union Decoding!SeqOf(Ordered \union Others, 2) : Distinct(m)}
MCRequestMappings ==
    {m \in Decoding!SeqOf({O("emulation", "mixed"), O("emulation", "bad"), O("orig_headers", "o"),
                  O("read_timeout", "r"), O("proxy", "p3"), O("tls_options", "tls")}, 2) : Distinct(m)}
MCArguments ==
    {[verify |-> TRUE, http1 |-> only[1], http2 |-> only[2], given |-> args] :
         only \in {<<TRUE, FALSE>>, <<FALSE, TRUE>>}, args \in {{}, {"proxy", "uds", "connect"}}}
    \union {[verify |-> FALSE, http1 |-> FALSE, http2 |-> FALSE, given |-> {}],
            [verify |-> FALSE, http1 |-> TRUE, http2 |-> TRUE, given |-> {"socket_options"}]}

-----------------------------------------------------------------------------

Init ==
    /\ part \in Parts
    /\ IF part = "decoding" THEN Decoding!Init
       ELSE /\ encoding = <<>> /\ size = <<>> /\ decoders = <<>> /\ bytes = <<>> /\ lead = <<>>
            /\ text = <<>> /\ lines = <<>> /\ content = <<>> /\ decoding = <<>>
    /\ IF part = "config" THEN Config!Init
       ELSE /\ profile = <<>> /\ defaults = <<>> /\ explicit = <<>> /\ headers = <<>>
            /\ wanted = <<>> /\ params = <<>> /\ request = <<>>
    /\ IF part = "urls" THEN Urls!Init
       ELSE base = <<>> /\ url = <<>> /\ merged = <<>>
    /\ IF part = "routes" THEN Routes!Init
       ELSE environment = <<>> /\ arguments = <<>> /\ mounts = <<>> /\ target = <<>> /\ chosen = <<>>
    /\ IF part = "encoding" THEN Encoding!Init
       ELSE /\ kind = <<>> /\ position = <<>> /\ body = <<>> /\ given = <<>> /\ framing = <<>>
            /\ sending = <<>> /\ sent = <<>> /\ count = <<>> /\ fromStart = <<>>
    /\ IF part = "options" THEN Options!Init
       ELSE python = <<>> /\ privacy = <<>> /\ native = <<>> /\ private = <<>>

dvars == <<encoding, size, decoders, bytes, lead, text, lines, content, decoding>>
cvars == <<profile, defaults, explicit, headers, wanted, params, request>>
uvars == <<base, url, merged>>
rvars == <<environment, arguments, mounts, target, chosen>>
evars == <<kind, position, body, given, framing, sending, sent, count, fromStart>>
ovars == <<python, privacy, native, private>>

Next ==
    /\ UNCHANGED part
    /\ \/ /\ part = "decoding" /\ Decoding!Next
          /\ UNCHANGED <<cvars, uvars, rvars, evars, ovars>>
       \/ /\ part = "config" /\ Config!Next
          /\ UNCHANGED <<dvars, uvars, rvars, evars, ovars>>
       \/ /\ part = "urls" /\ Urls!Next
          /\ UNCHANGED <<dvars, cvars, rvars, evars, ovars>>
       \/ /\ part = "routes" /\ Routes!Next
          /\ UNCHANGED <<dvars, cvars, uvars, evars, ovars>>
       \/ /\ part = "encoding" /\ Encoding!Next
          /\ UNCHANGED <<dvars, cvars, uvars, rvars, ovars>>
       \/ /\ part = "options" /\ Options!Next
          /\ UNCHANGED <<dvars, cvars, uvars, rvars, evars>>

Spec == Init /\ [][Next]_<<part, dvars, cvars, uvars, rvars, evars, ovars>>

-----------------------------------------------------------------------------
\* See the modules: the cutting of a body into chunks does not show;
ChunkingTransparent == part = "decoding" => Decoding!ChunkingTransparent

\* a request has the headers and parameters of whom they should come from;
SettingsSourced == part = "config" => Config!SettingsSourced

\* a URL is that of its own text, and a relative one goes to base_url;
UrlsSound == part = "urls" => Urls!ReparseStable /\ Urls!MergeStaysHome

\* NO_PROXY is honoured, and the most specific mount is taken;
MountChosen == part = "routes" => Routes!NoProxyHonoured /\ Routes!MostSpecificMount

\* a body is as long as its headers say, and framed in one way;
FramingSound == part = "encoding" => Encoding!LengthDeclared /\ Encoding!OneFraming

\* native options are applied in their order, over what Python derives.
OptionsInOrder == part = "options" => Options!OptionsInOrder

\* "Default ports for "http", ... schemes are always treated as `None`"
\* (httpxp/_urls.py:223).
DefaultPortIsNone == part = "urls" => Urls!DefaultPortIsNone
===============================================================================
