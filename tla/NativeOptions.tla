------------------------------ MODULE NativeOptions ------------------------------
(***************************************************************************)
(* From the arguments of a Client and its privacy_options to the settings  *)
(* of the native client, and from extensions["private"] to those of one    *)
(* request: _options and _request_options of httpxp/_transports/default.py *)
(* and src/options.rs, which applies a mapping option by option.           *)
(*                                                                         *)
(* An option is a key and a value.  A value is a name: "bad" is one that   *)
(* its conversion rejects, "python" one that a Python argument gives; the  *)
(* value of a nested mapping, an emulation or a list of proxies is looked  *)
(* up under its name.  A setting is a function from fields to values.      *)
(***************************************************************************)
EXTENDS Naturals, Sequences, Functions

CONSTANTS Arguments,        \* bound: [verify, http1, http2, given], given a set of arguments
          ClientMappings,   \* bound: privacy_options, as sequences of options
          RequestMappings,  \* bound: extensions["private"]
          Mappings,         \* bound: nested mappings by name, as sequences of options
          NestedKeys,       \* the keys each kind of nested mapping accepts
          Emulations,       \* bound: [profile, flags, http2, parts] by name
          ProxyLists        \* bound: values of "proxies" by name, as sequences

VARIABLES
    python,      \* the arguments of the client
    privacy,     \* its privacy_options
    native,      \* the native client
    private      \* the request that is sent, last: its options, and its native settings

ovars == <<python, privacy, native, private>>

Option(key, value) == [key |-> key, value |-> value]

Keys(mapping) == {mapping[i].key : i \in DOMAIN mapping}

\* A Python dict: each key once.  What is looked up under its name is there.
IsDict(mapping) ==
    /\ mapping \in Seq({Option(mapping[i].key, mapping[i].value) : i \in DOMAIN mapping})
    /\ \A i, j \in DOMAIN mapping : mapping[i].key = mapping[j].key => i = j
    /\ \A i \in DOMAIN mapping :
          /\ mapping[i].key = "emulation" => mapping[i].value \in DOMAIN Emulations \union {"bad"}
          /\ mapping[i].key = "proxies" => mapping[i].value \in DOMAIN ProxyLists \union {"bad"}

NativeOptionsAssumption ==
    /\ \A mapping \in ClientMappings \union RequestMappings : IsDict(mapping)
    /\ \A name \in DOMAIN Emulations : IsDict(Emulations[name].parts)
    /\ \A name \in DOMAIN ProxyLists : ProxyLists[name] \in Seq(Range(ProxyLists[name]))

ValueOf(mapping, key) == mapping[CHOOSE i \in DOMAIN mapping : mapping[i].key = key].value

\* dict.update: a key that is there keeps its place.
Put(mapping, option) ==
    IF option.key \in Keys(mapping)
    THEN [i \in DOMAIN mapping |-> IF mapping[i].key = option.key THEN option ELSE mapping[i]]
    ELSE Append(mapping, option)

Update(mapping, new) ==
    LET run[i \in 0 .. Len(new)] == IF i = 0 THEN mapping ELSE Put(run[i - 1], new[i])
    IN  run[Len(new)]

\* Settings, with some of them written.
With(settings, new) ==
    [s \in DOMAIN settings \union DOMAIN new |-> IF s \in DOMAIN new THEN new[s] ELSE settings[s]]

Only(name, value) == [n \in {name} |-> value]

-----------------------------------------------------------------------------
(* Python: _options, _request_options                                       *)

\* http1 or http2 must be enabled, and socket_options are refused.
Acceptable(args) == (args.http1 \/ args.http2) /\ "socket_options" \notin args.given

Derived(args) ==
    LET when(condition, key, value) == IF condition THEN <<Option(key, value)>> ELSE <<>>
        has(argument) == argument \in args.given IN
    <<Option("tls_cert_verification", "python"), Option("tls_verify_hostname", "python"),
      Option("pool_idle_timeout", "python")>>
    \o when(args.verify, "tls_cert_store", "python")
    \o when(has("cert"), "tls_identity", "python")
    \o when(has("max_keepalive_connections"), "pool_max_idle_per_host", "python")
    \o when(has("max_connections"), "pool_max_size", "python")
    \o when(~args.http2, "http1_only", "True")
    \o when(args.http2 /\ ~args.http1, "http2_only", "True")
    \o when(has("local_address"), "local_address", "python")
    \o when(has("uds"), "uds", "python")
    \o when(has("proxy"), "proxy", "python")

\* Client: a connect timeout is a native option unless there is one.
WithConnectTimeout(args, mapping) ==
    IF "connect" \in args.given /\ "connect_timeout" \notin Keys(mapping)
    THEN Append(mapping, Option("connect_timeout", "python")) ELSE mapping

ClientDict(args, mapping) == Update(Derived(args), WithConnectTimeout(args, mapping))

RequestDict(readTimeout, mapping) ==
    Update(IF readTimeout THEN <<Option("read_timeout", "python")>> ELSE <<>>, mapping)

-----------------------------------------------------------------------------
(* options.rs: nested mappings and emulation                                *)

Failed == [ok |-> FALSE, settings |-> <<>>, proxies |-> <<>>]
Fresh == [ok |-> TRUE, settings |-> <<>>, proxies |-> <<>>]

\* Some keys of http1() and http2() are two names of one field.
Field(key) ==
    CASE key = "http09_responses" -> "h09_responses"
      [] key = "writev" -> "h1_writev"
      [] key = "max_headers" -> "h1_max_headers"
      [] key = "read_buf_exact_size" -> "h1_read_buf_exact_size"
      [] key = "max_buf_size" -> "h1_max_buf_size"
      [] key = "initial_connection_window_size" -> "initial_conn_window_size"
      [] key = "max_send_buf_size" -> "max_send_buffer_size"
      [] OTHER -> key

\* tls(), http1() and http2() begin with the defaults: what is not given is not
\* taken from a profile.
NestedRejected(kind, mapping) ==
    \E i \in DOMAIN mapping : mapping[i].key \notin NestedKeys[kind] \/ mapping[i].value = "bad"

Nested(mapping) ==
    LET run[i \in 0 .. Len(mapping)] ==
            IF i = 0 THEN <<>>
            ELSE With(run[i - 1], Only(Field(mapping[i].key), mapping[i].value))
    IN  run[Len(mapping)]

Protocols == {"tls_options", "http1_options", "http2_options"}

\* The setting an option writes.
Setting(key) ==
    CASE key = "tls_cert_store_pem" -> "tls_cert_store"
      [] key = "local_addresses" -> "local_address"
      [] key \in {"http1_only", "http2_only"} -> "version"
      [] OTHER -> key

\* What it writes there; two keys of one setting write it differently.
Written(o) == IF o.key \in Protocols THEN Nested(Mappings[o.value])
              ELSE Only(o.key, o.value)

Write(result, o) ==
    IF o.value = "bad" \/ (o.key \in Protocols /\ NestedRejected(o.key, Mappings[o.value]))
    THEN Failed
    ELSE [ok |-> result.ok, settings |-> With(result.settings, Only(Setting(o.key), Written(o))),
          proxies |-> result.proxies]

\* emulation(): a profile, with the nested mappings that replace parts of it.
ProfileSettings(e) ==
    IF e.profile = "none" THEN <<>>
    ELSE [s \in {"tls_options", "http1_options", "orig_headers"}
                \union (IF e.http2 THEN {"http2_options"} ELSE {}) |-> Only("profile", e.profile)]

ReplacePart(result, o) ==
    IF ~result.ok \/ o.key \notin Protocols \union {"orig_headers", "headers"} THEN Failed
    ELSE IF o.key = "headers" THEN (IF o.value = "bad" THEN Failed ELSE result)
    ELSE Write(result, o)

ReplaceParts(start, parts) ==
    LET run[i \in 0 .. Len(parts)] == IF i = 0 THEN start ELSE ReplacePart(run[i - 1], parts[i])
    IN  run[Len(parts)]

Emulation(name) ==
    LET e == Emulations[name] IN
    IF name = "bad" \/ (e.profile = "none" /\ e.flags) THEN Failed
    ELSE ReplaceParts([ok |-> TRUE, settings |-> ProfileSettings(e), proxies |-> <<>>], e.parts)

ApplyEmulation(result, name) ==
    IF Emulation(name).ok
    THEN [ok |-> result.ok, settings |-> With(result.settings, Emulation(name).settings),
          proxies |-> result.proxies]
    ELSE Failed

-----------------------------------------------------------------------------
(* options.rs: client_options, request_options                              *)

ClientKeys ==
    {"tls_cert_verification", "tls_verify_hostname", "tls_sni", "tls_info", "tcp_nodelay",
     "tcp_reuse_address", "https_only", "referer", "cookie_store", "connection_verbose",
     "timeout", "read_timeout", "connect_timeout", "pool_idle_timeout", "tcp_keepalive",
     "tcp_keepalive_interval", "tcp_user_timeout", "tcp_linger", "tcp_happy_eyeballs_timeout",
     "pool_max_idle_per_host", "pool_max_size", "tcp_keepalive_retries", "tcp_send_buffer_size",
     "tcp_recv_buffer_size", "http1_only", "http2_only", "tls_min_version", "tls_max_version",
     "tls_options", "http1_options", "http2_options", "emulation", "tls_cert_store",
     "tls_cert_store_pem", "tls_identity", "dns_resolver", "resolve", "proxies", "no_proxy",
     "tls_keylog", "tls_session_cache", "orig_headers", "local_address", "local_addresses",
     "interface", "proxy", "uds"}

RequestKeys ==
    {"default_headers", "timeout", "read_timeout", "version", "emulation", "orig_headers",
     "local_address", "local_addresses", "interface", "proxy", "uds", "group"}

\* One option; the proxies are rules of which the first that matches is used.
ProxyRules(rules, o) ==
    CASE o.key = "proxies" -> rules \o ProxyLists[o.value]
      [] o.key = "no_proxy" -> IF o.value = "True" THEN <<>> ELSE rules
      [] OTHER -> Append(rules, o.value)

ProxyKeys == {"proxy", "proxies", "no_proxy", "uds"}

ApplyOption(result, o) ==
    CASE o.value = "bad" -> Failed
      [] o.value # "bad" /\ o.key \in ProxyKeys ->
            [ok |-> result.ok, settings |-> result.settings, proxies |-> ProxyRules(result.proxies, o)]
      [] o.value # "bad" /\ o.key \in {"http1_only", "http2_only"} ->
            IF o.value = "True" THEN Write(result, o) ELSE result
      [] OTHER -> Write(result, o)

\* The loops of both functions: options of these keys, with an emulation
\* applied in its place or passed over.
ApplyNext(result, o, keys, inPlace) ==
    IF ~result.ok \/ o.key \notin keys THEN Failed
    ELSE IF o.key # "emulation" THEN ApplyOption(result, o)
    ELSE IF inPlace THEN ApplyEmulation(result, o.value) ELSE result

Apply(start, mapping, keys, inPlace) ==
    LET run[i \in 0 .. Len(mapping)] ==
            IF i = 0 THEN start ELSE ApplyNext(run[i - 1], mapping[i], keys, inPlace)
    IN  run[Len(mapping)]

\* Mutant: the client's emulation is applied in its place.
ClientOptionsInPlace(mapping) == Apply(Fresh, mapping, ClientKeys, TRUE)

\* The client's emulation is applied before everything else.
EmulatedFirst(mapping) ==
    IF "emulation" \in Keys(mapping) THEN ApplyEmulation(Fresh, ValueOf(mapping, "emulation")) ELSE Fresh

ClientOptions(mapping) == Apply(EmulatedFirst(mapping), mapping, ClientKeys, FALSE)

RequestOptions(mapping) == Apply(Fresh, mapping, RequestKeys, TRUE)

-----------------------------------------------------------------------------
(* A client and a request                                                   *)

NoClient == [made |-> FALSE, ok |-> FALSE]
NoRequest == [sent |-> FALSE]

OrderKeys == {"emulation", "orig_headers"}

Init ==
    /\ python \in Arguments /\ privacy \in ClientMappings
    /\ native = NoClient /\ private = NoRequest

\* Client(...) with its HTTPTransport and NativeClient::new: an option that is
\* unknown or bad, and there is no client.
MakeClient ==
    LET dict == ClientDict(python, privacy)
        result == IF Acceptable(python) THEN ClientOptions(dict) ELSE Failed IN
    /\ ~native.made
    /\ native' = [made |-> TRUE, ok |-> result.ok, settings |-> result.settings,
                  proxies |-> result.proxies, ordered |-> Keys(dict) \intersect OrderKeys # {}]
    /\ UNCHANGED <<python, privacy, private>>

\* NativeClient::send: the order of the headers is that of the Python request
\* unless the client or the request says otherwise.
Send ==
    \E readTimeout \in BOOLEAN, mapping \in RequestMappings :
        LET dict == RequestDict(readTimeout, mapping)
            result == RequestOptions(dict)
            order == IF native.ordered \/ Keys(dict) \intersect OrderKeys # {} THEN <<>>
                     ELSE Only("orig_headers", Only("orig_headers", "python")) IN
        /\ native.made /\ native.ok /\ ~private.sent
        /\ private' = [sent |-> TRUE, mapping |-> mapping, ok |-> result.ok,
                       settings |-> With(result.settings, order), proxies |-> result.proxies]
        /\ UNCHANGED <<python, privacy, native>>

Next == MakeClient \/ Send

Spec == Init /\ [][Next]_ovars

-----------------------------------------------------------------------------
\* Native options override what the Python arguments give, and the last one of
\* the mapping wins; an emulation's settings hold where no option of its scope
\* writes, wherever it stands in a client's mapping; no rule for proxies is lost
\* but to a no_proxy after it (docs/advanced/privacy-options.md:23-31,
\* docs/advanced/wreq.md:9-10, 58-62).  The exceptions are keys a Python argument gives
\* too: they keep that argument's place, before all others.
Valid(option, keys) ==
    /\ option.key \in keys /\ option.value # "bad"
    /\ option.key \in Protocols => ~NestedRejected(option.key, Mappings[option.value])
    /\ option.key = "emulation" => Emulation(option.value).ok

Writes(option, setting) ==
    /\ option.key \notin ProxyKeys \union {"emulation"} /\ Setting(option.key) = setting
    /\ option.key \in {"http1_only", "http2_only"} => option.value = "True"

Rules(option) ==
    CASE option.key \in {"proxy", "uds"} -> {option.value}
      [] option.key = "proxies" -> Range(ProxyLists[option.value])
      [] OTHER -> {}

MadeInOrder(client, args, mapping) ==
    LET derived == Keys(Derived(args))
        emulated == IF "emulation" \in Keys(mapping)
                    THEN Emulation(ValueOf(mapping, "emulation")).settings ELSE <<>> IN
    /\ client.ok <=> Acceptable(args) /\ \A i \in DOMAIN mapping : Valid(mapping[i], ClientKeys)
    /\ client.ok => \A i \in DOMAIN mapping :
          /\ \A s \in DOMAIN client.settings : Writes(mapping[i], s) =>
                \E j \in DOMAIN mapping :
                    /\ Writes(mapping[j], s) /\ client.settings[s] = Written(mapping[j])
                    /\ j >= i \/ mapping[i].key \in derived
          /\ mapping[i].key \in derived
             \/ (\E j \in i .. Len(mapping) : mapping[j] = Option("no_proxy", "True"))
             \/ Rules(mapping[i]) \subseteq Range(client.proxies)
    /\ client.ok => \A s \in DOMAIN emulated :
          client.settings[s] = emulated[s] \/ \E i \in DOMAIN mapping : Writes(mapping[i], s)

ClientInOrder == native.made => MadeInOrder(native, python, privacy)

\* In a request the place of its emulation counts.
Gives(option, setting) ==
    Writes(option, setting)
    \/ (option.key = "emulation" /\ setting \in DOMAIN Emulation(option.value).settings)

Given(option, setting) ==
    IF option.key = "emulation" THEN Emulation(option.value).settings[setting] ELSE Written(option)

SentInOrder(result, mapping) ==
    /\ result.ok <=> \A i \in DOMAIN mapping : Valid(mapping[i], RequestKeys)
    /\ result.ok => \A s \in DOMAIN result.settings :
          IF \E i \in DOMAIN mapping : Gives(mapping[i], s)
          THEN \E i \in DOMAIN mapping :
                  /\ Gives(mapping[i], s) /\ result.settings[s] = Given(mapping[i], s)
                  /\ \A j \in i + 1 .. Len(mapping) : ~Gives(mapping[j], s)
          ELSE s \in {"read_timeout", "orig_headers"}

RequestInOrder == private.sent => SentInOrder(private, private.mapping)

OptionsInOrder == ClientInOrder /\ RequestInOrder
===============================================================================
