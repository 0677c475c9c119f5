# TLA+ specifications of httpxp

httpxp is a Python HTTP client with the interface of httpx.  Its network side is
a Rust extension (`src/*.rs`: a tokio runtime, wreq and hyper), which the
synchronous client calls from the user's threads and the asynchronous client
from anyio worker threads.  This directory specifies the part of it that tests
hardly reach: who may use a connection, who stops whom, what is released on
which path, and in which order; and what the client computes around a request
where state, order or repetition make that hard to get right.

Paths below are those of the repository; `PROJECT.json` writes them with a
leading `src/` (so `src/src/lib.rs` is the repository's `src/lib.rs`).
`PROJECT.json` also maps every definition to the lines it stands for.

- [1 Inventory](#1-inventory)
- [2 Modules](#2-modules)
- [3 Runs](#3-runs-what-they-check-and-their-bounds)
- [4 Fairness](#4-fairness)
- [5 Proofs](#5-proofs)
- [6 Where code and documentation disagree](#6-where-code-and-documentation-disagree)
- [7 Not modelled](#7-not-modelled)
- [8 Plan](#8-plan)

## 1 Inventory

| component (source) | state it keeps | operations | what is hard |
|---|---|---|---|
| native connection gate (`src/lib.rs`, `src/cancel.rs`) | `client` slot, semaphore of `max_connections` permits; per response a stream, a permit and a `NativeCancellation` | `send`, `read_chunk`, `cancel`, `close` of a response, `close` of the client, garbage collection | one permit, many exits; a reader that owns the stream mutex while the peer is silent; a pool timer that races the grant; closing the client under waiting calls |
| request upload (`src/upload.rs`, end of `send`) | iterator, unsent bytes, a `watch` channel of progress, the stop flag, the error slot | poll of the body, `__next__` on a blocking thread, watchdog, the `select!` of `send` | an early response while `__next__` runs; the iterator's own exception against the transport's; a timer that runs while the upload goes on or ends |
| send pipeline (`_client.py`) | the two `history` lists, the response in hand | auth loop, redirect loop, hooks, reading of intermediate bodies | a failure after a response was obtained, at any line; one call that needs a second connection while it holds one |
| async client on worker threads (`_transports/default.py`) | anyio's thread limiter and the native permits: two pools | send, read, close, task cancellation, closing of the client | tasks hold one resource while they wait for the other |
| `AsyncHTTPTransport.handle_async_request` | retry counter, portal, body iterator, one cancellation for all attempts | start, retry, deliver, cancel, clean up | task cancellation at each await; a blocking thread inside the portal |
| response body (`_models.py`) | `is_stream_consumed`, `is_closed`, `_content`, native stream | `read`, `iter_raw`, leaving an iterator, `close` | several readers; a close between two chunks |
| client life cycle (`_client.py`) | `ClientState`, transports | `send`, `close`, `with` | tested and set in two steps by several threads |
| WebSocket (`src/websocket.rs`, `_websocket.py`) | two halves behind two mutexes, cancellation, permit | `connect`, `connect_async`, `send`, `receive`, `close`, `aclose` | a closer that needs mutexes others hold on I/O; an opening that fails or is cancelled at any point |
| digest authentication (`_auth.py`) | last challenge, nonce count | `auth_flow`, `_build_auth_header` | one object shared by overlapping flows; redirects that the flow does not see |
| redirect requests, body replay (`_client.py`, `_content.py`) | the source of the body, shared by all requests of a call | `_build_redirect_request`, resending in the auth flow | what a later request carries: credentials, `Host`, framing, and what is left of the body |
| ASGI and WSGI transports (`_transports/asgi.py`, `wsgi.py`) | flags and lists of one call | `receive`, `send`, `start_response`, the body's iterator | callbacks of several tasks, in any order; code of the application that runs only when its result is iterated |
| decoders, chunkers, line decoder (`_decoders.py`) | text or bytes kept back, bytes of a header | `decode`, `flush` | boundaries between chunks |
| client settings (`_client.py`, `Headers`, `QueryParams`) | headers, the defaults and the explicit names as they once were, the profile, parameters | the setters, edits in place, `build_request` | telling the user's headers, the defaults and two profiles apart |
| URLs (`_urlparse.py`, `_urls.py`) | a parsed URL | `urlparse`, `copy_with`, `str`, `_merge_url` | the text of a URL must be read back as that URL |
| mounts and proxies (`_client.py`, `_utils.py`) | a sorted table of patterns | environment, `proxy`, `mounts`, `_transport_for_url` | several patterns match, the first decides |
| bodies (`_content.py`, `_multipart.py`, `Request`, `Response`) | positions of files, framing headers | encoding, rendering | lengths announced now, bytes rendered later and again |
| native options (`_transports/default.py`, `src/options.rs`) | settings of the native client and of a request | derivation from arguments, merging, applying one by one | three origins, one setting; order |
| cookies, DNS callback, API, CLI | none, or none that survives a call | thin wrappers, formatting | text |

How they interact: `Client.send` (send pipeline) picks a transport (life cycle),
whose `handle_request` calls `NativeClient.send` (gate) with a body (upload) and
wraps the `NativeResponse` into a `Response` (response body), which in the end
calls `NativeResponse.close` (gate).  The asynchronous client puts a worker
thread between each of these calls and a `BlockingPortal` between the body and
the user's asynchronous iterator.  A WebSocket takes a permit of the same gate.
Shared state crosses these borders in three forms only: the **permit**, which
moves from `send` into the response; the **cancellation**, which anybody may set
and every waiting native call watches; and **flags** on Python objects without a
lock.  The properties follow this division: conservation and release of
permits, return of whatever was cancelled, and consistency of the flags.

What makes each of them correct:

- gate: permits are neither lost nor duplicated; never more live exchanges than
  permits; no permit idle while a call waits; closing and cancelling get through
  although the peer is silent; first come, first served.
- upload: a body that was not stopped is complete; the user's exception
  surfaces; a stop takes effect at once; a stall times out, and nothing else does
  as long as the watchdog gets its turns.
- pipeline: no response is left open on any path; never two open at once; the
  history is a true record; the call ends.
- worker threads: the two pools cannot block each other; nothing is held between
  requests.
- transport: clean-up order; a returned response is usable; a cancelled call
  comes back and its permit too.
- body: readers do not share the stream; the end of a read means the end of the
  body; nothing is read after close.
- life cycle: no request reaches the network after a close.
- WebSocket: the permit goes last; nothing follows the Close frame; close
  returns; a `connect` that raised keeps no permit.
- digest: no `nc` handed out twice for a nonce, and none left out.
- redirect requests: credentials stay with their origin; a body is sent whole, or
  not at all, and announced as it is sent.
- ASGI, WSGI: the application gets the body once and in order; the response is
  what the application sent, with the status it meant.
- decoding: the cuts between chunks do not show.
- settings, mounts, options: every value comes from whom it should, whatever was
  done before and in whatever order.
- URLs: printing and parsing are inverse; a relative URL stays under `base_url`.
- bodies: as long as announced, each time they are sent; framed in one way.

## 2 Modules

| module | models | composed with |
|---|---|---|
| `ConnectionGate` | abstract specification of `max_connections`: callers enter, leave or hand over a place; shut for ever | instantiated by `NativePool` and `AsyncPool` |
| `NativePool` | `NativeClient`, `NativeResponse`, `NativeCancellation` | implements `ConnectionGate` |
| `NativePoolProofs` | theorems about `NativePool` | extends `NativePool` |
| `BodyDelivery` | abstract specification of sending a body: whole, or with a reason why not | instantiated by `Upload` |
| `Upload` | one request body, its watchdog and the end of `send` | implements `BodyDelivery`; details the step "sending" of `NativePool` |
| `UploadProofs` | theorems about `Upload` | extends `Upload` |
| `ClientSend` | one call of `Client.send` | each "single" step is one transport call |
| `ClientRequests`, `MCClientRequests` | what each request of that call carries | extends `ClientSend`, every action of which it takes up |
| `ClientRequestsProofs` | theorems about `ClientSend` and `ClientRequests` | extends `ClientRequests` |
| `AsyncPool`, `MCAsyncPool` | all tasks of an `AsyncClient` on worker threads | contains the gate, reduced to holders and a queue; implements `ConnectionGate` |
| `AsyncPoolProofs` | theorems about `AsyncPool` | extends `AsyncPool` |
| `AsyncTransport` | one `handle_async_request` | its worker is one `send` of `NativePool` with the body of `Upload` |
| `AsyncTransportProofs` | theorems about `AsyncTransport` | extends `AsyncTransport` |
| `ResponseBody` | one streamed `Response` under several readers | its native stream is one response of `NativePool` |
| `ClientLifecycle` | `ClientState` under threads | |
| `WebSocketConn` | one WebSocket, from `connect()` to its close | its permit is one of `NativePool` |
| `WebSocketConnProofs` | theorems about `WebSocketConn` | extends `WebSocketConn` |
| `DigestAuth` | one `DigestAuth` shared by flows | |
| `ASGITransport`, `WSGITransport` | one call of an in-process application | take the place of `AsyncTransport` under a client |
| `MCSharedObjects` | `ResponseBody`, `ClientLifecycle`, `DigestAuth`, `ASGITransport` or `WSGITransport` | one of them moves in a behaviour: they share no state |
| `SharedObjectsProofs` | theorems about these five | extends `MCSharedObjects` |
| `BodyDecoding` | decoders, chunkers, text and line decoder | behind the chunks of `ResponseBody` |
| `ClientConfig` | headers, profiles and parameters of a client, `build_request` | makes the first request of `ClientRequests` |
| `URLReferences` | `urlparse`, `copy_with`, `base_url` | |
| `Mounts` | proxies, `NO_PROXY`, mounts, the transport chosen | chooses the transport of a "single" step |
| `RequestEncoding` | bodies, their lengths and headers, multipart rendering | the body that `Upload` sends |
| `NativeOptions` | native options of a client and a request | configures `NativePool`'s client |
| `MCValues` | the last six | one of them moves in a behaviour, the others are at `<<>>` |
| `ValuesProofs` | theorems about `MCValues` | extends `MCValues` |

In every module an action is the code between two points at which another
thread, task or party can act: an await, a lock, a channel, a return to the
interpreter.  What lies between two such points is one action, with the error
paths as further disjuncts.  Definitions marked *Mutant* are broken versions of
the action below them; the runs use them to show that each property would notice.

**NativePool.** `call[c]` is the control state of one `send` and then of the
response it made: *cloned* (the client was cloned out of its slot), *waiting*
(parked in `acquire_owned`), *assigned* (tokio has put a permit into the waiter
but it has not been polled), *granted*, *sending*, *open*, *released*,
*unwinding* (an error return: the exchange is gone, the permit is the next local
to be dropped).  The semaphore is external and modelled from its documented use:
FIFO queue, hand-over to the head on release, `close` empties the queue.  The
biased `select!` of `send` is `Acquire` on its first poll and
`Granted`/`Refused`/`PoolTimeout` later; an *assigned* waiter may still time out,
since its timer can have fired first.  `reader` and `closer` are the threads
inside `read_chunk` and `close`, which share the stream mutex (`LockFree`);
`CloseSignal` sets the cancellation before it asks for the mutex.  `Freed` is
the drop of a `NativeResponse`, field by field.  `Again` lets a thread call once
more, so that behaviours do not end.

**Upload.** `producer` is the `unfold` closure: *resting* between polls, *armed*
after it told the watchdog that it writes, *pulling* in `spawn_blocking`,
*breaking* between putting the exception into the slot and reporting the error.
`progress` and `age` are the watch channel and how long ago it said "writing";
one `Tick` is a fraction of the write timeout.  The watchdog is polled inside
`send`'s `select!` and has a copy of the progress, `watch`, with a timer of its
own, `elapsed`.  Its inner `select!` is not biased: when both the timer has run out
and something new was published (`~seen`), or the channel has closed, `Watchdog`,
`Observe` and `SeeClosed` are enabled together.  So the code can report
`WriteTimeout` although the body has just ended or moved on, if the thread of
`send` got no turn from the news to the deadline; `away` remembers that time
passed like that, `still` that the body itself stood still for the timeout, both
since the watchdog last looked.  `phase`/`outcome` are the `select!` of `send`
and what it does afterwards: `StoreStop`, then `TakeSlot`.  A chunk is a number
of 64 KiB slices; empty chunks exist.  Seen as a `BodyDelivery`, none of the
threads, flags, timers and channels is left: `Fate` says how the body ended as seen
by the transport, the slot is the `fault`, `still` and `away` are the two reasons
for a write timeout (`stood`, `excused`), and `send` is over with its verdict.

**ClientSend.** `pc` names places in `_send_handling_auth` (*flow*,
*challenged*), `_send_handling_redirects` (*loop*, *hooks*, *location*,
*follow*), `_send_single_request` (*single*) and `send` (*final*).  Each place
where an exception can leave the code is an action, with the `response.close()`
its handler makes.  `authHistory` and `history` are the two Python lists of the
same name; the code appends to the first and rebinds the second.  For the
asynchronous client read "raises" as "raises or is cancelled".  The lines of
`_send_single_request` after the transport has returned (an assertion about the
stream, `extract_cookies`, the log) are outside any handler that closes; they are
taken not to raise, since what they could raise would be a bug of their own.

**AsyncPool.** `task[t]` says what the task awaits: *queued*, *wantRead*,
*wantClose* stand in the limiter's queue, *pooling*, *exchange*, *reading*,
*closing* occupy a thread.  A cancelled task leaves at once, its thread becomes
a *stray* that no longer counts against the limiter but still owns what it owns
until it notices.  `aclose()` of a response is shielded, which holds against the
cancellation of anyio scopes; a native `task.cancel()` of asyncio that hits it in
the limiter's queue is left out, as it leaves the permit to the drop of the
response.  `setup`, chosen once, is the size of both pools and whether
there is a pool timeout; so the gate that the tasks implement is an instance with
a parameter, `Gate(n)`, for the number of connections that was chosen.

**AsyncTransport.** Five parties around one call: the task, its worker thread,
the blocking thread inside `portal.call`, the portal's task inside the user's
iterator, and the portal itself (*open*, *stopped*, *exited*).  `ConnectFails`
can only happen before the body was asked for, which is why a retry may reuse
the body.  `StreamClosed` is the `finally` clause.

**ResponseBody.** `consumed`, `closed`, `cached` are the attributes
`is_stream_consumed`, `is_closed` and `_content` of `Response`.  Steps run from
one native call to the next.  A reader either reads everything or iterates and
may leave half-way.

**ClientLifecycle.** Check and assignment of `ClientState` are two steps, since
nothing locks them; transports close one by one and may fail.  `AsyncClient` is
the same with fewer points of interruption, so its behaviours are included.

**WebSocketConn.** `opening` is where the `connect()` of the caller `opener` is:
*preparing* (everything before the native handshake), *native*, *hooks* (cookies
and response hooks), *open*, *failing* (a hook raised, `connect()` closes the
socket), *raised*.  The native handshake is a call like any other: it waits for
the permit, shakes hands and is *established*; a cancelled task leaves it behind
on its thread (`ConnectCancelled`), and a socket nobody waits for is dropped with
its permit (`Discard`).  Afterwards `call[c]` is each caller's native call and `txOwner`, `rxOwner` the two mutexes it needs;
`close` takes `tx`, sends the frame under a two second timer, then takes `rx`
while it still owns `tx`, and drops the permit last.  `aclose` sets the
cancellation before it asks for a thread.

**ClientRequests.** `request` is the request about to be sent, `flowRequest` the
one the authentication flow holds, `wire` what was answered last.  `Transmit`
joins the response of `ClientSend` with what is read from the body's source:
`position` is shared by every request of the call, since redirected requests and
resent ones share one stream.  `Redirected` is `_build_redirect_request` (target,
method, headers, stream); `Answered` and `Resend` are the two sides of a flow's
`yield`, which sends the flow's own request again and not the one that was
redirected last.  A kind of body says what its source does when it is read a
second time: a list begins again, a generator raises `StreamConsumed`, a file or
a one-shot iterator goes on where it is.

**DigestAuth.** `Threaded = FALSE` are the flows of tasks, which switch only
where the generator yields; `Threaded = TRUE` those of threads.  Between two yields
`_send_handling_redirects` follows redirects without asking the flow: a redirect to
the same origin, or its upgrade to https, copies the `Authorization` header with
its nonce and `nc` (`Redirected`), any other drops it for good (`Stripped`).
`used` is the history of all these headers, each with the flow, the yield and the
redirect it went out with; a request counts as sent when the transport gets it.

**ASGITransport.** Tasks of the application are inside `receive` (*pulling* the
body's iterator, *waiting* for the response) or outside; `send` does not await
and is one action.  `ReceiveFails` is a generator entered a second time, and one
that raises.  `Returned` and `Raised` are what follows the application in
`handle_async_request`, its assertions included.

**WSGITransport.** The application may be a generator, so `StartResponse` may come
while it is called, while `_skip_leading_empty_chunks` looks for its first part,
and later, when it is too late.

**BodyDecoding.** Symbols stand for what the stages tell apart: the two bytes of
one character, CR, LF, bytes of a compressed stream's header.  `Receive` passes
one chunk of the wire through every stage; `Flush` is the end, where each stage
is flushed into the next.  A deflate decoder has its second attempt, without the
header, in the chunk in which the first fails.

**ClientConfig.** `headers`, `defaults`, `explicit` are the attributes
`_headers`, `_default_headers` and `_explicit_header_names`; the setter renews
all three, an edit in place only the first.  `Build` is `build_request`, with the
profile of the request if it has one.

**URLReferences.** A text is a sequence of tokens.  `Reference` and
`SplitAuthority` are the two regular expressions; `Assemble` is the rest of
`urlparse`, also reached from `copy_with`.  A behaviour parses, copies any number
of times, and is requested under a `base_url`.

**Mounts.** Environment and arguments are chosen, `ClientMounts` builds and sorts
the table as `Client.__init__` does, `Send` looks a URL up in it.

**RequestEncoding.** `Init` is the construction, lengths and headers included;
`Transmit`, `BeginField`, `ReadChunk` and `EndMultipart` render the body, as often
as it is sent, from files whose position is whatever it was left at.

**NativeOptions.** `ClientDict` and `RequestDict` are the Python side,
`ClientOptions` and `RequestOptions` the loops of `options.rs`.  An option is a key
and a value, a value a name; two keys may write one setting.

## 3 Runs: what they check and their bounds

| run | bounds | shows |
|---|---|---|
| `pool` | 3 calls, each of them again and again; 1 permit | `LiveWithinLimit`, `NoIdlePermit`; `ImplementsGate`; closing a response frees its permit under a stalled read (`CloseFreesPermit`); a cancelled `send` comes back from every phase (`CancelledSendReturns`); nobody starves (`NoStarvation`) |
| `upload` | 3 chunks of 0 to 2 slices, timeout of 2 ticks; iterator or bytes | `NoSilentTruncation`, `StopIsPrompt`, `ImplementsDelivery` (which includes `TimeoutIsDue`), `StallEndsInTimeout` |
| `send` | `max_redirects` = 2, bodies of 2 parts, 2 hosts, 2 ports; any mixture of redirects, challenges and failures | `NothingLeftOpen`, `OneOpenAtATime`, `HistorySound`, `SendTerminates`; `CredentialsStayHome`, `BodyOrError` |
| `async_pool` | 3 tasks, again and again; 2 threads and 2 permits without pool timeout, 2 and 1 with it; 1 chunk | `NothingHeldBetweenRequests`, `NoCircularWait`, `EveryCallEnds`, `ClientCloses` |
| `async_transport` | 2 retries | `StreamAtRest`, `CleanResponse`, `FailureEnds`, `PermitReturns` |
| `websocket` | 3 callers, synchronous and asynchronous; one of them opens | `PermitLast`, `NothingAfterClose`, `CloseReturns` |
| `shared_objects` | body: 3 readers, 3 chunks; client: 3 threads, 2 transports; digest: 3 flows of tasks, 3 nonces, one of them unusable, 2 redirects of each header; ASGI: 2 tasks, 2 parts; WSGI: 3 steps | `OneReaderInOrder`, `WholeUnlessClosed`, `DryAfterClose`; `NoLateRequest`; `NonceCountExact` (`OnlyRedirectsRepeat` and `NoGap`); `RequestInOrder`; `ResponseIsTheApps` |
| `values` | decoding: 4 stacks of codings, chunks of up to 2 symbols, bodies of up to 4, chunk sizes 1, 2 and none; settings: 2 profiles, 4 collections of headers; URLs: 3 tokens after each of 4 beginnings; mounts: every pair of 11 patterns; bodies: every pair of 4 fields, 2 transmissions, files of 0 and 3 bytes read by 2; options: mappings of up to 3 | `ChunkingTransparent`, `SettingsSourced`, `UrlsSound`, `MountChosen`, `FramingSound`, `OptionsInOrder` |
| `send_history`, `response_body_closed`, `client_resurrected`, `default_port` | `ClientSend` with `max_redirects` = 2; `ResponseBody` and `ClientLifecycle` as in `shared_objects`; the URLs of `values` | statements of the repository that do not hold (section 6) |

The constants of `values` and `send` are definitions of `MCValues` and
`MCClientRequests`; `MCClientRequests!MCInit` leaves out pairs of a kind of body
and a kind of headers that do not interact.

Why these bounds are enough.  *Calls, tasks, callers, readers*: the interesting
cases need one party that holds, one that waits and one that interferes (closes,
cancels or overtakes), hence three.  *Permits*: with one permit and three calls
there is a holder and a queue of two, so that a waiter in the middle or at the
end can leave; the safety part is proved for every number (section 5).  *Threads
and permits of the async client*: `NoCircularWait` holds with three tasks for
2 + 2 and is tight: with as many tasks as threads and permits together (four for
2 + 2, or three for 2 + 1) the circle exists, and then only the pool timeout
breaks it, which is the second setup.  *Slices*: two make a chunk that is used up
in several polls.  *Redirects*: two allow a redirect before and after a
challenge and the limit to be reached either way.  *Retries*: two give a first, a
middle and a last attempt.  *Nonces*: three challenges let a flow be
overtaken by a challenge to another one; three flows leave one to reuse the last
challenge without being challenged, and two redirects repeat a header before and
after somebody else has counted on.  *Ticks*: with two, a tick can pass after the
watchdog looked and before the timer has run out.  *Hosts*: one elsewhere, and the first with its
default port written, absent, or that of the other scheme, so that a chain can
leave and come back, and upgrade to https.  *Symbols*: chunks of two are the
shortest that cut anywhere and those of one cut everywhere; four make two
characters, or two CR LF.  *Tokens*: four beginnings followed by three give every
delimiter in every part of a URL, beside a dot segment or another delimiter;
copies then combine them further.  *Files*: one byte more than a read, and none;
in two fields the same file occurs twice.  *Options*: three make an order in which
the middle one decides.

Deadlock checking is off where the system really stops: a call that has ended
(`send`, `upload`, `async_transport`), a `connect()` that raised (`websocket`), a body that has been read, a client, flow
or application that is done (`shared_objects` and the violation runs), a value
that has been computed (`values`).  It is on elsewhere.

No symmetry is used: most runs check liveness, with which it is not sound.

## 4 Fairness

Fairness is assumed of what the program and its runtimes do by themselves and
never of the peer, of the user's iterator, of garbage collection or of a user
who may or may not cancel or close:

- `NativePool!Progress`: a runnable thread runs, tokio polls a future that was
  woken, a `select!` whose cancellation branch is ready takes it (the selects
  are biased towards it).  `NoStarvation` alone adds, as its premise,
  `Cooperation`: peers answer or fail and responses get closed.  It is a premise
  and not part of the specification, so that the other properties hold without.
- `Upload!FairSpec`: time passes, a watchdog that was woken, by the channel or by
  its timer, is polled at some time (not at once: see `away`), and `send` runs on
  after its select.  Neither iterator nor peer is fair; that is the point of
  `StallEndsInTimeout`.
- `MCClientRequests!MCSpec`: weak fairness of the call as a whole: each request is
  answered or fails (timeouts see to that), and bodies end.
- `AsyncPool!FairSpec`: threads are granted in order, abandoned threads notice
  the cancellation, pool timers fire.  The run uses `CooperativeSpec`, which adds
  that exchanges end and tasks go on with their responses: without that a
  response kept for ever keeps its permit for ever.
- `AsyncTransport!FairSpec`: the event loop runs; a native call that has been
  cancelled returns (which is what `CancelledSendReturns` shows), and so does an
  iterator into which a cancellation is thrown.
- `WebSocketConn!FairSpec`: cancelled calls return, the two second timer fires,
  and strong fairness for taking a mutex, because tokio's mutex serves its
  waiters in order.  `OpenFairness` adds that a cancelled handshake returns, that
  a socket nobody waits for is dropped, and that a `connect()` which fails in a
  hook goes on to close what it opened.

## 5 Proofs

Every safety invariant and action property that the passing runs check outside
`values` is proved, for every value of the constants, and of `values` the framing
of bodies, their decoding, where a request's settings come from and in which order
native options take effect; by the same argument each time: an inductive
invariant `IInv` (kept at the end of the module it is about, and checked by TLC on
the bounds of the module's run before it was proved), one lemma for `Init`, one per
group of actions, and the property from `IInv`.  An action property takes one more
step from `IInv`.  One invariant stands with its proof instead: `CutInv`, of the
decoding, speaks of all sequences over its symbols, a set that TLC cannot
enumerate.

`NativePoolProofs` proves about `NativePool`, for **every** finite set of calls
and every number of permits:

| theorem | statement |
|---|---|
| `Invariance` | `Spec => []IInv` |
| `TypeCorrect` | `Spec => []TypeOK` |
| `PermitConservation` | `Spec => []PermitsConserved` |
| `ConnectionLimit` | `Spec => []LiveWithinLimit` |
| `NoLostWakeup` | `Spec => []NoIdlePermit` |
| `DryAfterRelease` | `Spec => []ReleasedIsDry`: a response that let its permit go yields nothing |
| `ClosedStaysClosed` | `Spec => ClosedAdmitsNobody`: after `close` nobody is admitted, not even a waiter that had been assigned a permit |
| `PoolImplementsGate` | `Spec => ImplementsGate`, the refinement of `ConnectionGate` |

*Assumptions*: `CallsAssumption` (finitely many calls) and
`MaxConnectionsAssumption` (`MaxConnections \in Nat`; zero is allowed).

*Argument.*  None of the properties is inductive by itself.  That a permit given
back may be handed to the head of the queue keeps the sum only if the head is
really a waiting call, and only once in the queue (`QueueIsWaiting`).  That a
live stream implies an owned permit, which together with conservation gives the
limit, needs to know that a stream exists only in the phases *sending* and
*open*, that a reader has a stream, and that reader and closer are past dropping
it when they release (`WhoTouchesWhat`).  The inductive invariant is

    IInv == TypeOK /\ PermitsConserved /\ NoIdlePermit /\ QueueIsWaiting /\ WhoTouchesWhat

Lemmas on the cardinality of `Holders` (`HoldersGrow`, `HoldersShrink`,
`HoldersSwap`, `HoldersKeep`) and on the queue (`DropAtFacts`, `HeadFacts`) carry
the counting; `GiveBackKeeps` and `AbandonKeeps` treat the two operations of the
semaphore that many actions share; `SendKeeps`, `ResponseKeeps` and
`ClientCloseKeeps` go through the actions.  The refinement maps each action to
`Enter`, `Leave`, `HandOver`, `Shut` or a stutter.

`AsyncPoolProofs` proves about `AsyncPool`, for **every** finite set of tasks,
every positive number of threads and of permits, with and without pool timeouts:

| theorem | statement |
|---|---|
| `Invariance` | `Spec => []IInv` |
| `TypeCorrect` | `Spec => []TypeOK`, which includes both limits |
| `NothingHeld` | `Spec => []NothingHeldBetweenRequests` |
| `FewTasksNeverBlock` | `Spec => []NoCircularWait` |
| `TasksImplementGate` | `Spec => ImplementsGate`: the tasks' permits are the gate of `NativePool`, for the size that was chosen |

*Assumption*: `AsyncPoolAssumption` (finitely many tasks, none of them named
"client"; sizes of the pools are positive).  *Argument*: in a circular wait every
thread has a worker that waits for a permit, and every permit an owner that is
not a worker, so there are as many tasks as threads and permits together.  That
no worker owns a permit is `Placed`: a task that waits for a permit owns none,
unless it is a stray.  `Placed` is inductive only if a task leaves a queue
altogether when it leaves it, hence `OneTicketEach`; `PopFacts`, `PushFacts` and
`WithoutFacts` are the three things that happen to such queues.

    IInv == TypeOK /\ OneTicketEach /\ Placed

*The gate.*  A permit given back goes to the head of `pool`, which is `HandOver`
only if the head owns none yet: hence `Placed` says of whoever stands in `pool`,
stray or not, that it owns no permit.  A task may leave, and its thread keep the
permit: for the gate both are the same caller, so that this is a stutter.  The
theorem says for each `n` that a client of `n` connections implements `Gate(n)`;
TLC takes no such property, so this one has no run.

`UploadProofs` proves about `Upload`, for **every** number of chunks, size of
chunks and write timeout (`UploadAssumption`: sizes and timeout are positive):

| theorem | statement |
|---|---|
| `Invariance`, `TypeCorrect` | `Spec => []IInv`, `Spec => []TypeOK` |
| `TruncationIsLoud` | `Spec => []NoSilentTruncation` |
| `StopsPromptly` | `Spec => []StopIsPrompt` |
| `TimeoutOnlyWhenDue` | `Spec => TimeoutIsDue`: a write timeout is of a body that stood still, or of a watchdog that got no turn before time passed on |
| `UploadImplementsDelivery` | `Spec => ImplementsDelivery`, the refinement of `BodyDelivery` |

*Argument*: `IInv == TypeOK /\ Accounting /\ Stopping /\ Reporting /\ Timing`.  `Accounting`
says that the transport, the chunk in hand and the result on its way from the
blocking thread hold together what the iterator handed out; `Stopping` that the
one poll which may still act after a stop is one that was armed before it;
`Reporting` that the iterator's exception is in its slot before the transport can
see the stream fail, so that `send`, which looks into the slot last, finds it;
`Timing` that the watchdog's copy and timer are the producer's own while there is
no news, so that its timer can run out for a body that went on, or ended, only over
a tick with news.  For the refinement they say more than for the invariants: a chunk in hand is
all that was given and not sent, so that the iterator is asked for the next only
when the last was sent (`BodyDelivers`); and once the body has ended as it has,
only `send` moves, and what it ends with fits (`SendDelivers`).

`ClientRequestsProofs` proves, about `ClientSend` for **every** `MaxRedirects`
(calls of any number of legs and redirects) and about `ClientRequests` for every
set of URLs and every body length:

| theorem | statement |
|---|---|
| `CallInvariance`, `RequestInvariance` | `Spec => []CallInv`, `RequestSpec => []RequestInv` |
| `NothingStaysOpen` | `Spec => []NothingLeftOpen` |
| `OneConnectionAtATime` | `Spec => []OneOpenAtATime` |
| `HistoryIsSound` | `Spec => []HistorySound` |
| `CallGoesForward` | `Spec => AlwaysForward`: every step goes to a later leg, else to a longer history, else to a later place of the code |
| `CallBounded` | `Spec => []CallIsBounded`: legs and history are bounded |
| `RequestsImplementCall` | `RequestSpec => Spec`: every step of `ClientRequests` is one of `ClientSend` or a stutter |
| `RequestsLeaveNothing` | the three properties of `ClientSend` for `RequestSpec`, from the implementation |
| `CredentialsStay` | `RequestSpec => []CredentialsStayHome` |
| `BodiesWhole` | `RequestSpec => []BodyOrError` |

*Assumptions*: `MaxRedirectsAssumption` (a natural number), `SizeAssumption` (a
body has at least one part; the empty one is a kind of its own), `UrlsAssumption`
(homes and locations are URLs).  *Argument for the call*: at each place of the code
it is known which response may be open (`OpenSound`); `history` is the
authentication history followed by the redirects since, in order of arrival
(`HistoriesSound`), within the limit where the code tests it and one beyond where
a challenge was just appended (`LimitSound`); a followed redirect is in `history`
or before a challenge that was answered (`FollowedSound`), which is the exact form
of what section 6 says is lost; and what a response carries as its history is
`history` without itself (`AttachedSound`).  `ChallengesCounted` turns the order
of the history into the number of its challenges, by a bijection.  *That a call
ends* is liveness and model-checked, but the reason is proved: `Forward` orders
the states of a call lexicographically by leg, length of the history and place
(`Rank`), and with `CallIsBounded` a call takes at most `9 * (MaxRedirects + 2)^2`
steps, whatever servers and flow do; fairness only adds that it takes them.
*Argument for
the requests*: `StaysHome` holds of the request in hand, of the flow's own request
and of what was sent, with respect to the flow's own origin.  Redirects compose
because an origin followed by the same origin, or by its upgrade to https, is
again the same or its upgrade, and two upgrades in a row do not exist
(`OriginsCompose`).  `Framed` says the same of the headers about the body, and
`Readable` what of it can still be read.

`AsyncTransportProofs` proves about `AsyncTransport`, for **every** number of
retries (`RetriesAssumption`), `Invariance`, `TypeCorrect`, `BodyClosedAtRest`
(`Spec => []StreamAtRest`) and `ResponseIsClean` (`Spec => []CleanResponse`).
`IInv == TypeOK /\ Ordered`: the portal is open exactly while the task may be
sending (`PortalFollowsTask`), so that no thread is inside the iterator when the
task closes it, and a failure is what sets the cancellation and what leads away
from a response (`Answered`).

`SharedObjectsProofs` proves about the five objects of `MCSharedObjects`, for
**every** set of readers, threads, flows and tasks, and any number of chunks,
transports, nonces, parts and steps (`SharedAssumption`, the conjunction of the
objects' own assumptions: natural numbers, at least one transport, at least one
step; the unusable nonces are nonces):

| theorem | statement |
|---|---|
| `SharedInvariance`, `TypesCorrect` | `Spec => []SharedInv` (the `IInv` of each object), and the types |
| `BodyReadInOrder` | `Spec => []OneReaderInOrder` |
| `BodyReadWhole` | `Spec => []WholeUnlessClosed` |
| `ClosedBodyIsDry` | `Spec => DryAfterClose` |
| `NoRequestAfterClose` | `Spec => []NoLateRequest` |
| `NoncesCounted` | `Spec => [](~Threaded => NonceCountExact)`: no gap, and only a redirect of the same request repeats an `nc` |
| `AppAskedInOrder` | `Spec => []RequestInOrder` |
| `AppResponseKept` | `Spec => []ResponseIsTheApps` |

*Argument*, object by object.  A body's stream is claimed once and the claim is
never given back (`Claimed`), so that what a reader has got is as long as what
left the wire (`FromTheStart`) and only its own end ends it (`EndsAtTheEnd`).  A
thread that closes the transports has closed those it has passed, so none is open
once one thread has passed them all (`ClosingInOrder`), and a request is late only
after that (`LateMeansShut`).  Flows of tasks run one at a time between their yields
(`OneRuns`), on the challenge that is remembered (`OnTheLast`), and the count is
that of the headers built with it (`Counted`); a redirect repeats what was handed
out to its own flow (`HandedOut`), which adds no count; for threads none of this holds,
which is why the hypothesis `~Threaded` stays (section 6).  Tasks of an ASGI
application pull one at a time (`OnePulls`), `received` is the parts, the end and
then disconnections (`Messages`), and what was kept of the response is what was
sent (`Collected`).  Between the look at a WSGI application's first part and the
response the status does not change (`Ahead`), and what is delivered is a
beginning of what was produced (`InOrder`).

`WebSocketConnProofs` proves about `WebSocketConn`, for **every** set of callers,
`TypeCorrect`, `PermitIsLast` (`Spec => []PermitLast`) and `SilenceAfterClose`
(`Spec => NothingAfterClose`), from `NobodyAssumption` (the absent owner is no
caller).  `IInv == TypeOK /\ WhoOwnsWhat /\ WhileOpening`: a call at work on a half
owns its mutex and the half exists, a closer which has the sink's mutex has taken
the sink away, and the permit covers whatever half is left; as long as `connect()`
has not returned, nobody but the opener calls, and the permit is with its
handshake, wherever the task that wanted it has gone.

`ValuesProofs` proves about `MCValues`, for **every** set of files, of any size
and of any kind, and request bodies of any number of fields, sent any number of
times; for response bodies of any length, in chunks of any lengths, under any
stack of codings and for any chunk size asked for; for any library defaults,
profiles and history of changes to a client's headers and parameters; and for any
mappings of native options, emulations and lists of proxies:

| theorem | statement |
|---|---|
| `FramingIsSound` | `Spec => []FramingSound`: what is rendered is as long as the headers announce, and a body is framed in one way |
| `ChunkingDoesNotShow` | `Spec => []ChunkingTransparent`: bytes, text and lines do not show where the wire was cut, and chunks have the size that was asked for |
| `SettingsComeFromTheirSource` | `Spec => []SettingsSourced`: each header and parameter of a request is the request's own, else what its caller last put into the client, else the profile's or the library's; two profiles do not mix |
| `OptionsTakeEffectInOrder` | `Spec => []OptionsInOrder`: a client is made just if its options are valid; they hold over what Python derives, the last one of a setting counts, an emulation fills what is left, and no proxy is lost but to a later `no_proxy` |

*Assumption*: `ValuesAssumption`, the conjunction of the modules' own (lengths are
natural numbers, a read takes at least one byte, the bodies are bodies over
`Files`; codings are deflate and gzip in any order, or raw deflate alone, which is
the one that has a second attempt; headers are lines of names and values; a mapping
has each key once, and what an option looks up under a name is there).  *Argument for the framing*: `EncodingInv` relates the position of a rendering to the
headers, which were computed before: the headers are those of the body and of
nothing that was read since (`HeadersOfBody`); while the body is rendered, what was
sent is the sum of the fields passed and of what was read of this one
(`RenderedSoFar`); afterwards it is the sum of all (`RenderedInFull`).  The sum is
a recursive function, and that it exists is induction over the number of fields.
The library's induction theorems have an operator as a parameter, which the
provers cannot instantiate; but well-foundedness of a *set* of finite sets has none.
`LeastNumber` gets from it a least element for each set of numbers, `AllNumbers`
from that the induction principle for a set, and `SumsExist` and `SumsStep` from
that the equations of the sum.  *Argument for the decoding*: text decoder,
splitting of lines, stack of decoders are recursions along a sequence; `RunExists`
and `RunGoesOn` give such a recursion its equations, and `AllSequences` the
induction over them.  From these each stage composes over a cut: what it makes of
`a \o b` is what it makes of `a`, continued with `b` (`TextCut`, `SplitCut`,
`StreamsDecoded`, `ChunksTaken`).  `CutInv` says of every stage that what came so
far is in what it gave out and what it holds back: a lead byte, a shorter chunk
(`ChunksKept`), a CR that may have its LF in the next piece and the line that has
no end yet (`LinesKept`), the rest of a header (`DecodersKept`).  `LinesDecoded`,
with the held-back CR, is the case that the tests hardly reach: a piece that
starts with LF, after one that ended with CR.  `ContentFlushed` empties the stages
into one another.  *Argument for the settings*: a collection of headers is told by
the list of values it has under each name (`GetList`), and `ListUpdated`, `ListSet`,
`ListSetAll` and `ListWithout` say of each operation what it leaves there.
`ConfigInv`, checked by TLC first, says what the client holds: under each name what
the caller last put there, nothing where the caller deleted it, else the default
(`Held`); that is what an edit in place needs, which renews neither the defaults nor
the names that count as explicit.  `HeadersFollow` compares what `build_request`
makes of that with where it should come from, case by case.  *Argument for the
options*: the loops of `options.rs` and `dict.update` are recursions along a mapping
again (`ApplyEquations`, `UpdateEquations`).  `LastOptionCounts` is the induction
along one: of those that give a setting the last one gives it.  `DictUpdated` says
where an option stands after Python's update: the place of a derived one, or behind
them all in the order of the mapping.  `DerivedSettings` is the case on which the
order hangs: of the keys that Python derives no two write one setting, since
`http1_only` and `http2_only` exclude each other; a client's emulation comes before
all of them (`EmulationFirst`), and Python derives nothing an emulation gives
(`PlainIsValid`, `EmulationGives`).

*Only model-checked*:

- all liveness (`CloseFreesPermit`, `CancelledSendReturns`, `NoStarvation`,
  `StallEndsInTimeout`, `SendTerminates`, `EveryCallEnds`, `ClientCloses`,
  `FailureEnds`, `PermitReturns`, `CloseReturns`): it needs fairness and
  `ENABLED`, which the prover does not support;
- of `values`, `UrlsSound` and `MountChosen`.  `UrlsSound` parses again what was
  assembled from a parse, which takes the inverse of every stage of `urlparse` on
  texts of tokens.  `MountChosen` compares the requests that two patterns match, as
  sets: it is a statement about a set of requests that is rich enough to tell
  patterns apart, as that of the run is, and not about any set;
- that a property of section 6 does *not* hold, which a behaviour shows.

`NativePool!TypeOK` and `PermitsConserved` are proved for every instance and need
no run; the same is true of the other `TypeOK`s named above.

## 6 Where code and documentation disagree

Four runs show it; TLC prints the behaviour.

- `send_history`: `response.history` does not list all followed redirects.  A
  redirect followed *before* a challenge is dropped, since
  `_send_handling_redirects` gets the authentication history
  (`_client.py:981-985`), to which only the challenged response is appended
  (line 995).  `docs/quickstart.md:447` promises "any followed redirects".
  `HistorySound` is what does hold: the limit, the order, every answered
  challenge, and every redirect after the last of them.
- `response_body_closed`: an iterator suspended between two chunks when the
  response is closed ends as if the body were complete, because `read_chunk`
  returns `None` on a dropped stream (`src/lib.rs:109`); a `read()` in progress
  even caches the shortened body.  `_exceptions.py:334` announces
  `StreamClosed`.  `WholeUnlessClosed` is what does hold.
- `client_resurrected`: `send` tests the state and then assigns `OPENED`
  (`_client.py:939-942`); a `close` of another thread in between is overwritten,
  and `is_closed` is false although all transports are closed.  `NoLateRequest`
  shows that it is no worse than that: no later request gets through.

- `default_port`: `urlparse` hands `normalize_port` the scheme as it was written
  (`_urlparse.py:321`), so `HTTP://x:80` keeps its port and differs from
  `http://x`; `_urls.py:223` promises that default ports are always `None`.

Further statements are kept in the modules as definitions marked "Does NOT
hold"; they are not run.

- `AsyncPool!PoolWaitEnds` (`docs/advanced/timeouts.md:57-59`): the pool timeout
  starts when the native call has a worker thread; the wait for the thread has
  no timeout at all.
- `ClientLifecycle!CloseHasClosed` (`_client.py:1304`): if the first transport's
  `close` raises, the others stay open, and a second `close` does nothing.
- `WebSocketConn!ClosedReleases` (`docs/advanced/wreq.md:131-132`):
  `aclose(reason=...)` with more than 123 bytes cancels the socket, then raises
  `ValueError`, and leaves it unusable with its permit still held until another
  close or garbage collection.
- `DigestAuth!OnlyRedirectsRepeat` with `Threaded = TRUE`: two threads can read the same
  count (`_auth.py:255-271`) and send the same `nc`, although the client "can be
  shared between threads" (`_client.py:632`).

What follows was met while modelling; the properties of the value modules name
each as an exception, so that they say exactly what does hold.

- *Mounts.*  `all://*example.org` is longer than `all://example.org` and is sorted
  before it, although it matches more (`docs/advanced/transports.md:338`:
  "Matching is done from most specific URL patterns [...] to least specific ones").  A pattern's own port is
  normalised with the pattern's scheme: `http://host:80` matches every port, and
  `all://host:80` never matches `http://host:80/`, whose port is gone.  Networks
  in `NO_PROXY` (`10.0.0.0/8`) match nothing.
- *Native options.*  `dict.update` leaves a key where it was, so a native option
  that a Python argument gives too is applied in that argument's place: with
  `Client(proxy=A, privacy_options={"no_proxy": True, "proxy": B})` the native
  `no_proxy` comes last and clears B; and a native proxy under another key
  (`proxies`) comes after a Python-derived rule, which matches first and is used
  (`docs/advanced/wreq.md:9` and `:61` and `privacy-options.md:23` and `:28` speak of
  overriding and of mapping order).
- *Client settings.*  Any parameters, the client's included, replace the query of
  the URL itself.  A default header that was deleted from a client is back in a
  request with a profile of its own, and one that was set to its default value
  gives way to that profile.
- *Digest.*  A redirect on the same origin sends the header built for the first
  request again: same nonce, same `nc`, and the digest of the old path.  A server
  that counts may answer 401, which the flow, if it has not been challenged yet, takes
  for a challenge to its own first request.
- *Write timeout.*  See `Upload` in section 2: after the news that the body has
  ended the timer may still win, when the thread of `send` was late.
- *URLs.*  Without an authority, `/a/..//b` is not read back once a scheme has made
  it `//b`.
- *Decoding.*  A raw deflate stream whose first chunk has a single byte fails: the
  second attempt is for the first chunk only.
- *Bodies.*  A file object whose `read` gives something else than the bytes that
  `fstat` counts (gzip, text mode) is no kind of the model.  A pipe is announced as empty (`fstat` says 0); a file given as
  `content` is announced with its whole size wherever it stands; a caller's
  `Transfer-Encoding` does not keep the computed `Content-Length` away.
- *Replay.*  A file or a one-shot iterator is not rewound for a redirect or after a
  challenge: the second request sends what is left (`BodyOrError` excepts
  `resumed`).  The answer to a challenge goes to the flow's own origin, also when
  the challenge came from another one after a redirect.

## 7 Not modelled

- *Below wreq*: connection reuse, TLS, HTTP framing.  Third-party; the peer is a
  nondeterministic choice of response, failure and silence.
- *tokio, anyio, asyncio*: external; their semaphore, mutexes, watch channel,
  thread limiter and portal appear as far as the code depends on them.
- *Signs and underscores in a port*, which Python's `int` accepts; the spaces it
  accepts are modelled (`Number`).
- *A panic of a blocking thread*, out-of-memory, interpreter shutdown.
- *WebSocket*: what messages contain, and the client that `websocket()` makes and
  closes with its socket.  The queue for the permit is that of `NativePool`; here
  the handshake gets one or fails.
- *Cookies* (`http.cookiejar` of the standard library does the work), encodings of
  headers, hosts that are IP addresses or internationalised names, Brotli and zstd
  (libraries behind the interface of the modelled decoders), checksums.
- *DNS callback, command line, API functions, `MockTransport`, tables of codes and
  types*: no state, thin wrappers of what is modelled, or formatting.
- *Timeouts as values*: which timeout applies is modelled where it races something
  (`NativePool`, `Upload`, `AsyncPool`).  The connect timeout is an option of the
  native client and thus fixed when the client is made (`NativeOptions`).
- *`HTTPTransport.handle_request`*: the retry loop of `AsyncTransport` without
  portal, iterator task and cancellation.

## 8 What is left

All modules of section 2 are written and run; the safety properties outside
`values` are proved, and of `values` four of six.  Open are the theorems about the
other two: which pattern `Send` finds in a sorted table, and what `Merge` makes of
one URL.
