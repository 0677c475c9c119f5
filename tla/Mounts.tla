--------------------------------- MODULE Mounts ---------------------------------
(***************************************************************************)
(* Which transport a request is sent through: the proxies of the           *)
(* environment and the mounts of a Client (httpxp/_client.py), and the     *)
(* patterns they are keyed by (URLPattern, get_environment_proxies of      *)
(* httpxp/_utils.py).                                                      *)
(*                                                                         *)
(* A host is a sequence of labels.  A pattern is what is written: a scheme *)
(* or "all", a host of kind "any" ("" or "*"), "exact", "subdomains"       *)
(* ("*.host") or "domain" ("*host"), and a port, 0 if there is none.       *)
(***************************************************************************)
EXTENDS Integers, Sequences, SequencesExt, TLC

CONSTANTS SchemeLength,    \* the characters of each scheme, 0 those of "all"
          LabelLength,     \* the characters of each label
          EnvProxies,      \* bound: sets of the schemes for which the environment has a proxy
          NoProxies,       \* bound: values of NO_PROXY, as sequences of entries
          UserMounts,      \* bound: mounts given, as sequences of [pattern, transport]
          Requests         \* bound: the URLs requested, as [scheme, host, port]

VARIABLES
    environment,    \* [proxies, noProxy]
    arguments,      \* of Client(): [proxy, trustEnv, transport, mounts]
    mounts,         \* _mounts, in order
    request,        \* the URL that is requested,
    chosen          \* and _transport_for_url of it

mvars == <<environment, arguments, mounts, request, chosen>>

DefaultPort == ("http" :> 80) @@ ("https" :> 443)

\* URL.port, as urlparse normalises it.
Port(scheme, port) ==
    IF scheme \in DOMAIN DefaultPort /\ port = DefaultPort[scheme] THEN 0 ELSE port

-----------------------------------------------------------------------------
(* URLPattern                                                               *)

Pattern(scheme, kind, host, port) == [scheme |-> scheme, kind |-> kind, host |-> host, port |-> port]

All == Pattern("all", "any", <<>>, 0)

Matches(pattern, url) ==
    LET port == Port(pattern.scheme, pattern.port) IN
    /\ pattern.scheme \in {"all", url.scheme}
    /\ CASE pattern.kind = "any" -> TRUE
         [] pattern.kind = "exact" -> url.host = pattern.host
         [] pattern.kind = "domain" -> IsSuffix(pattern.host, url.host)
         [] pattern.kind = "subdomains" -> IsStrictSuffix(pattern.host, url.host)
    /\ port # 0 => port = Port(url.scheme, url.port)

\* len(self.host), its dots and stars included.
HostLength(pattern) ==
    LET stars == CASE pattern.kind = "domain" -> 1 [] pattern.kind = "subdomains" -> 2 [] OTHER -> 0
        labels == FoldLeft(LAMBDA n, label : n + LabelLength[label] + 1, 0, pattern.host) IN
    IF pattern.kind = "any" THEN 0 ELSE stars + labels - 1

\* Mutant: the length of the host is left out.
PriorityWithoutHost(pattern) ==
    <<IF Port(pattern.scheme, pattern.port) = 0 THEN 1 ELSE 0, 0, -SchemeLength[pattern.scheme]>>

Priority(pattern) ==
    <<IF Port(pattern.scheme, pattern.port) = 0 THEN 1 ELSE 0, -HostLength(pattern),
      -SchemeLength[pattern.scheme]>>

\* __lt__ of the patterns, which compares the tuples.
Earlier(p, q) ==
    \E i \in 1 .. 3 : /\ Priority(p)[i] < Priority(q)[i]
                      /\ \A j \in 1 .. i - 1 : Priority(p)[j] = Priority(q)[j]

-----------------------------------------------------------------------------
(* The mounts of a client                                                   *)

Mount(pattern, transport) == [pattern |-> pattern, transport |-> transport]

\* A dict's update: a pattern that is there keeps its place.
Put(dict, mount) ==
    LET i == SelectInSeq(dict, LAMBDA m : m.pattern = mount.pattern) IN
    IF i = 0 THEN Append(dict, mount) ELSE [dict EXCEPT ![i] = mount]

\* get_environment_proxies: an entry of NO_PROXY is a pattern without a proxy.
EnvironmentMounts(env) ==
    LET proxied == SelectSeq(<<"http", "https", "all">>, LAMBDA s : s \in env.proxies)
        entry(e) == CASE e.kind = "url" -> e.pattern
                      [] e.kind = "address" -> Pattern("all", "exact", e.host, 0)
                      [] e.kind = "name" -> Pattern("all", "domain", e.host, 0)
                      [] e.kind = "dotted" -> Pattern("all", "subdomains", e.host, 0) IN
    IF \E i \in DOMAIN env.noProxy : env.noProxy[i].kind = "star" THEN <<>>
    ELSE FoldLeft(LAMBDA dict, e : Put(dict, Mount(entry(e), "default")),
                  [i \in DOMAIN proxied |-> Mount(Pattern(proxied[i], "any", <<>>, 0), "proxy")],
                  env.noProxy)

\* _get_proxy_map
ProxyMap(args, env) ==
    IF args.proxy THEN <<Mount(All, "proxy")>>
    ELSE IF args.trustEnv /\ ~args.transport THEN EnvironmentMounts(env) ELSE <<>>

\* sorted() is stable.
Sorted(dict) ==
    FoldLeft(LAMBDA sorted, m :
                LET i == SelectInSeq(sorted, LAMBDA o : Earlier(m.pattern, o.pattern)) IN
                IF i = 0 THEN Append(sorted, m) ELSE InsertAt(sorted, i, m),
             <<>>, dict)

ClientMounts(args, env) == Sorted(FoldLeft(Put, ProxyMap(args, env), args.mounts))

TransportFor(url) ==
    LET i == SelectInSeq(mounts, LAMBDA m : Matches(m.pattern, url)) IN
    IF i = 0 THEN "default" ELSE mounts[i].transport

-----------------------------------------------------------------------------

NoRequest == [scheme |-> "", host |-> <<>>, port |-> 0]

Init ==
    /\ environment \in [proxies : EnvProxies, noProxy : NoProxies]
    /\ arguments \in [proxy : BOOLEAN, trustEnv : BOOLEAN, transport : BOOLEAN,
                      mounts : UserMounts]
    /\ mounts = ClientMounts(arguments, environment)
    /\ request = NoRequest /\ chosen = "default"

Send ==
    /\ request = NoRequest
    /\ request' \in Requests
    /\ chosen' = TransportFor(request')
    /\ UNCHANGED <<environment, arguments, mounts>>

Next == Send

Spec == Init /\ [][Next]_mvars

-----------------------------------------------------------------------------
\* A host that NO_PROXY names is not proxied by the environment, a name with the
\* subdomains and one with a dot without the host itself (httpxp/_utils.py,
\* get_environment_proxies).
Exempt(host) ==
    \E i \in DOMAIN environment.noProxy :
        LET e == environment.noProxy[i] IN
        CASE e.kind = "star" -> TRUE
          [] e.kind = "address" -> host = e.host
          [] e.kind = "name" -> IsSuffix(e.host, host)
          [] e.kind = "dotted" -> IsStrictSuffix(e.host, host)
          [] e.kind = "url" -> FALSE

NoProxyHonoured ==
    arguments.mounts = <<>> /\ ~arguments.proxy /\ Exempt(request.host) => chosen = "default"

\* No request goes through a mount while a more specific one matches: one whose
\* pattern matches some of the same URLs and no other (docs/advanced/transports.md:338,
\* URLPattern.priority).  A wildcard is the exception where its text is no
\* shorter than the host it stands against.
Narrower(p, q) ==
    LET urls(r) == {u \in Requests : Matches(r, u)} IN
    urls(p) \subseteq urls(q) /\ urls(p) # urls(q)

MostSpecificMount ==
    request # NoRequest =>
        \A i, j \in DOMAIN mounts :
            i < j /\ Matches(mounts[i].pattern, request) /\ Matches(mounts[j].pattern, request)
            /\ Narrower(mounts[j].pattern, mounts[i].pattern)
            => /\ mounts[i].pattern.kind \in {"domain", "subdomains"}
               /\ HostLength(mounts[i].pattern) >= HostLength(mounts[j].pattern)
===============================================================================
