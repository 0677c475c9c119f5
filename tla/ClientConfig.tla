------------------------------ MODULE ClientConfig ------------------------------
(***************************************************************************)
(* What a request takes from its client: default headers, emulation        *)
(* profiles and query parameters (BaseClient of httpxp/_client.py, Headers *)
(* of _models.py, QueryParams of _urls.py).                                *)
(*                                                                         *)
(* A header is a name, in lower case, and the sequence of the values that  *)
(* ", " joins in it.  Query parameters are a function from names to the    *)
(* sequence of their values; NoParams stands for None.                     *)
(***************************************************************************)
EXTENDS Naturals, Sequences, SequencesExt

CONSTANTS HeaderNames,        \* what headers are made of
          HeaderValues,
          DefaultHeaders,     \* what every client sends
          ProfileHeaders,     \* emulation_headers: of each profile
          NoProfile,          \* no emulation
          UserHeaders,        \* bound: header collections a caller passes
          UserParams          \* bound: query parameters a caller passes

Profiles == {NoProfile} \union DOMAIN ProfileHeaders

Headers == Seq([name : HeaderNames, value : Seq(HeaderValues)])

ClientConfigAssumption ==
    /\ NoProfile \notin DOMAIN ProfileHeaders
    /\ DefaultHeaders \in Headers
    /\ \A p \in DOMAIN ProfileHeaders : ProfileHeaders[p] \in Headers
    /\ \A given \in UserHeaders : given \in Headers

VARIABLES
    profile,          \* _privacy_options["emulation"]
    defaults,         \* _default_headers
    explicit,         \* _explicit_header_names
    headers,          \* _headers
    wanted,           \* history: what the caller last did with each name
    params,           \* _params
    request           \* the request that is built, last: what was asked, and what it has

config == <<profile, defaults, explicit, headers, wanted, params>>
cvars == <<config, request>>

-----------------------------------------------------------------------------
(* Headers                                                                  *)

Header(name, value) == [name |-> name, value |-> value]

NamesOf(list) == {list[i].name : i \in DOMAIN list}

\* Headers.get_list
GetList(list, name) ==
    LET run[i \in 0 .. Len(list)] ==
            IF i = 0 THEN <<>>
            ELSE run[i - 1] \o (IF list[i].name = name THEN <<list[i].value>> ELSE <<>>)
    IN  run[Len(list)]

\* headers[name]: the values joined with commas.
Joined(list, name) == FlattenSeq(GetList(list, name))

Without(list, names) ==
    LET run[i \in 0 .. Len(list)] ==
            IF i = 0 THEN <<>>
            ELSE run[i - 1] \o (IF list[i].name \in names THEN <<>> ELSE <<list[i]>>)
    IN  run[Len(list)]

UpdateHeaders(list, new) == Without(list, NamesOf(new)) \o new

\* Headers.__setitem__: in the place of the first of that name.
SetHeader(list, name, value) ==
    LET first == CHOOSE i \in DOMAIN list : /\ list[i].name = name
                                            /\ \A j \in 1 .. i - 1 : list[j].name # name IN
    IF name \notin NamesOf(list) THEN Append(list, Header(name, value))
    ELSE SubSeq(list, 1, first - 1) \o <<Header(name, value)>>
         \o Without(SubSeq(list, first + 1, Len(list)), {name})

\* The headers of some lines are set to what they are in another collection.
SetAll(start, lines, source) ==
    LET run[i \in 0 .. Len(lines)] ==
            IF i = 0 THEN start
            ELSE SetHeader(run[i - 1], lines[i].name, Joined(source, lines[i].name))
    IN  run[Len(lines)]

-----------------------------------------------------------------------------
(* QueryParams                                                              *)

NoParams == [given |-> FALSE, dict |-> <<>>]

Params(dict) == [given |-> TRUE, dict |-> dict]

\* q.merge(other): whole lists of values are replaced.
MergeDicts(dict, other) ==
    [name \in DOMAIN dict \union DOMAIN other |->
        IF name \in DOMAIN other THEN other[name] ELSE dict[name]]

-----------------------------------------------------------------------------
(* The client                                                               *)

Nothing == [built |-> FALSE]

Untouched == [by |-> "nobody", value |-> <<>>]

Wanted(list, old) ==
    [n \in HeaderNames |-> IF n \in NamesOf(list) THEN [by |-> "caller", value |-> Joined(list, n)]
                                               ELSE old[n]]

ClientDefaults(emulated) ==
    IF emulated = NoProfile THEN DefaultHeaders
    ELSE UpdateHeaders(DefaultHeaders, ProfileHeaders[emulated])

Init ==
    \E given \in UserHeaders :
        /\ profile \in Profiles
        /\ defaults = ClientDefaults(profile)
        /\ explicit = NamesOf(given)
        /\ headers = UpdateHeaders(defaults, given)
        /\ wanted = Wanted(given, [n \in HeaderNames |-> Untouched])
        /\ params \in UserParams
        /\ request = Nothing

\* client.headers = given
SetHeaders ==
    /\ request = Nothing
    /\ \E given \in UserHeaders :
        /\ defaults' = ClientDefaults(profile)
        /\ explicit' = NamesOf(given)
        /\ headers' = UpdateHeaders(defaults', given)
        /\ wanted' = Wanted(given, [n \in HeaderNames |-> Untouched])
    /\ UNCHANGED <<profile, params, request>>

\* client.headers.update(given), client.headers[name] = value, del client.headers[name]
EditHeaders ==
    /\ request = Nothing
    /\ \/ \E given \in UserHeaders :
             /\ headers' = UpdateHeaders(headers, given)
             /\ wanted' = Wanted(given, wanted)
       \/ \E given \in UserHeaders : \E i \in DOMAIN given :
             /\ headers' = SetHeader(headers, given[i].name, given[i].value)
             /\ wanted' = Wanted(<<given[i]>>, wanted)
       \/ \E name \in NamesOf(headers) :
             /\ headers' = Without(headers, {name})
             /\ wanted' = [wanted EXCEPT ![name] = [by |-> "deleted", value |-> <<>>]]
    /\ UNCHANGED <<profile, defaults, explicit, params, request>>

\* client.params = given
SetParams ==
    /\ request = Nothing
    /\ params' \in UserParams
    /\ UNCHANGED <<profile, defaults, explicit, headers, wanted, request>>

-----------------------------------------------------------------------------
(* build_request                                                            *)

\* Mutant: the headers of the client's own profile stay.
InheritedHeadersMixed == defaults

\* The defaults a request with a profile of its own starts from.
InheritedHeaders ==
    IF profile = NoProfile THEN defaults ELSE Without(defaults, NamesOf(ProfileHeaders[profile]))

\* What the caller changed on the client is put in again over the profile.
RequestHeaders(emulated, given) ==
    LET same == {name \in NamesOf(headers) \ explicit :
                    GetList(headers, name) = GetList(defaults, name)}
        start == UpdateHeaders(InheritedHeaders, ProfileHeaders[emulated]) IN
    IF emulated = NoProfile THEN UpdateHeaders(headers, given)
    ELSE UpdateHeaders(SetAll(start, Without(headers, same), headers), given)

\* _merge_queryparams
RequestParams(own) ==
    IF DOMAIN own.dict = {} /\ DOMAIN params.dict = {} THEN own
    ELSE Params(MergeDicts(params.dict, own.dict))

\* The URL keeps its query only if there are no parameters at all.
Build ==
    \E emulated \in Profiles, given \in UserHeaders, own \in UserParams \union {NoParams} :
        /\ request = Nothing
        /\ request' = [built |-> TRUE, emulated |-> emulated, given |-> given, own |-> own,
                       headers |-> RequestHeaders(emulated, given),
                       params |-> RequestParams(own)]
        /\ UNCHANGED config

Next == SetHeaders \/ EditHeaders \/ SetParams \/ Build

Spec == Init /\ [][Next]_cvars

-----------------------------------------------------------------------------
\* Whatever was done to the client before, a request is sent with the headers
\* it was given; else with what the caller put into the client, if that is not
\* the client's default itself; else with those of its own profile; and a header
\* of the client's profile is not mixed into another one
\* (httpxp/_client.py, headers.setter and build_request).  A default header that
\* was deleted from the client stays away, unless the request has a profile.
HeaderSourced(name) ==
    LET sent == Joined(request.headers, name)
        own == wanted[name]
        has(p) == p # NoProfile /\ name \in NamesOf(ProfileHeaders[p]) IN
    CASE name \in NamesOf(request.given) -> sent = Joined(request.given, name)
      [] name \notin NamesOf(request.given) /\ own.by = "caller" ->
            \/ sent = own.value
            \/ request.emulated # NoProfile /\ own.value = Joined(defaults, name)
      [] name \notin NamesOf(request.given) /\ own.by = "deleted" ->
            request.emulated # NoProfile \/ sent = <<>>
      [] OTHER ->
            IF has(request.emulated) THEN sent = Joined(ProfileHeaders[request.emulated], name)
            ELSE IF has(profile)
                 THEN sent = (IF request.emulated = NoProfile THEN Joined(ProfileHeaders[profile], name)
                                                             ELSE <<>>)
                 ELSE sent = Joined(DefaultHeaders, name)

ParamSourced(name) ==
    LET sent == request.params.dict IN
    /\ name \in DOMAIN request.own.dict => sent[name] = request.own.dict[name]
    /\ name \notin DOMAIN request.own.dict => sent[name] = params.dict[name]

SettingsSourced ==
    request.built =>
        /\ \A name \in HeaderNames : HeaderSourced(name)
        /\ \A name \in DOMAIN request.own.dict \union DOMAIN params.dict : ParamSourced(name)

\* For the proof: under each name the client holds what the caller last put
\* there, or nothing, or what it holds by default.
CallersKept ==
    \A name \in HeaderNames :
        LET own == wanted[name] IN
        /\ own.by \in {"nobody", "caller", "deleted"}
        /\ own.by = "caller" => name \in NamesOf(headers) /\ own.value = Joined(headers, name)
        /\ own.by = "deleted" => name \notin NamesOf(headers)
        /\ own.by = "nobody" => /\ name \notin explicit
                                /\ GetList(headers, name) = GetList(defaults, name)

BuiltFromClient ==
    request.built =>
        \E emulated \in Profiles, given \in UserHeaders, own \in UserParams \union {NoParams} :
            request = [built |-> TRUE, emulated |-> emulated, given |-> given, own |-> own,
                       headers |-> RequestHeaders(emulated, given),
                       params |-> RequestParams(own)]

ConfigInv ==
    /\ profile \in Profiles
    /\ defaults = ClientDefaults(profile)
    /\ DOMAIN wanted = HeaderNames
    /\ CallersKept
    /\ BuiltFromClient
===============================================================================
