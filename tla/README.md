# Formal model of the kimchi gateway

kimchi is an HTTP gateway on Proxygen: a data plane that routes, filters and
proxies requests, and an admin server that answers health checks and reloads
the configuration. These TLA+ modules model the program in `src/`; TLC checks
them on small instances and TLAPS proves the safety properties for all
instances. Paths below are relative to the repository's `src/`.

## The system and its parts

| Part | Code | Module | Covered |
|---|---|---|---|
| Request lifecycle | `handler/gateway_handler.*`, `handler/upstream_client.*` | `GatewayRequest`, `ReverseProxy`, `GatewayRefinement` | yes, but for the rewritten URL |
| Filters | `filter/*`, `policy/jwt_policy.*` | `FilterChain`, `GatewayRequest` | yes |
| Policy engine | `policy/policy_engine.*` | `PolicyEngine` | yes |
| Handler factory | `handler/gateway_handler_factory.*` | `Routing` | yes |
| Process: startup, threads, shutdown | `main.cpp`, `server/*` | `GatewayProcess`, `GatewayStartup`, `GatewaySystem` | yes |
| Admin API | `handler/admin_handler*` | `AdminServer` | yes |
| Configuration loader | `config/*` | `ConfigModels`, `ConfigLoader` | yes |
| JWKS fetch | `policy/jwks_cache.*` | `JwksFetch` | yes |
| JSON traits for jwt-cpp | `policy/folly_jwt_traits.h` | - | no: a stateless type adaptor |
| AuthFilter | `filter/auth_filter.*` | - | no: not compiled, not used |

How they interact. `main()` loads the configuration, fetches one JWKS for each
policy with a `jwt` section (and dies if one fails), builds the admin server
and the data plane, runs each on a thread and waits for the data plane. The
data plane's factory builds its routing tables and service addresses once. For
each request it picks a router and creates a handler: an error handler, or a
`GatewayHandler` wrapped by the policy engine in HeaderFilter, the router's
JwtPolicies and RateLimitFilter. When the request is complete, `GatewayHandler`
creates an `UpstreamClient`, which connects, sends the request, relays the
response to the innermost filter and deletes itself.

## Modules

**FilterChain** has what each filter does to a request's headers, as operators.
Headers are a record of request id, trace id, Authorization and subject; a
token is a record of the facts that verification asks about. `JwtAllows` is
`JwtPolicy::onRequest` as one conjunction: each conjunct is a check of the code
and each failure is a 401. `AuthAt` says that a filter behind a JwtPolicy finds
no Authorization header.

**PolicyEngine** is `buildChain`: lookup of names (first resource wins, unknown
names are skipped), the sort (not stable, so `Sortings` is a set) and the
wrapping.

**GatewayRequest** is the state machine of a request. One action is one
callback: `OnRequest*`, `OnBody`, `OnEOM`, `OnUpgrade`, `OnErrorClientGone`,
`OnErrorIngress` and `RequestComplete` on the downstream side;
`ConnectSuccess`, `ConnectError`, `OnHeadersInterim`, `OnHeadersComplete`,
`OnUpstreamBody`, `OnUpstreamEOM`, `OnUpstreamError` and `DetachTransaction` on
the upstream side. The callbacks of a request run on one event loop, so each is
atomic; the two transactions interleave freely. `egress` is how much of a
response the client has been sent; a send that the transaction cannot take
makes it `"broken"`. `UpstreamClient::downstream_` is a plain pointer: a send
after the chain was deleted is undefined behaviour, modelled as a nondeterministic
choice between no effect and a crash and recorded in `dangling`.

**GatewayProcess** is `main()` statement by statement, the two server threads,
the reload handler and whoever edits the configuration directory.

**Routing** is the factory: its constructor (`Construct`, with any subset of
hosts resolving) and `OnRequest`. A path is a sequence of characters; what a
path means as a regular expression is a constant, `Language`. Rule `k` of router
`i` is the pair `<<i, k>>`, and a table is the list of the rules of its type in
the order of the nested loops (`Pushed`).

**Subsequences** lists a set in a given order (`Ranked`, `Pick`), which is what
a loop with an `if` around its `push_back` builds. The routing tables, the
addresses of a service and the policies of a chain are stated with it, and not
with `SelectSeq`, of which the prover knows no definition.

`HostHeader` is what `onEOM` puts into the Host header: the rewritten host, or
the first target with its port unless that is the protocol's default.

**ReverseProxy** is the abstract specification of what the gateway promises for
a request, without filters, buffers, callbacks or objects: admit or refuse it,
ask an upstream at most once and only for an admitted request that has not been
answered, and answer once, from one source. **GatewayRefinement** says which
part of `GatewayRequest`'s state that is about (`viewBar`).

**ConfigModels** has the resources and how they are read: every `fromJson` of
`loader.cpp` as a pair of operators, `XReads` (it does not throw) and `XConfig`
(what it returns), `dispatchDocument` as `Throws` and `Dispatch`, the defaults
of `models.h`, and the options that `main()` and `GatewayServer` derive from a
store. A JSON value is a record of its type and its content, so that values of
the wrong type are possible everywhere; strings are opaque. Casts to `uint16_t`
and `int32_t` wrap.

**ConfigLoader** is `loadFromDirectory`. A load goes through the entries one by
one, in any order, while `Edit` writes, breaks, adds or removes files and
`Mount` takes the directory away, brings it back or locks it. An iterator may
or may not deliver a file that appears late. `held` is a history variable: every
content that the directory had while a load was reading. `ApplyJsonDocument` is
the loader's second entry point, which nothing calls yet. **LoaderProperties**
has the properties that need more definitions; in it a snapshot of a directory
(`Snapshot`) is what reading each of its files once, in some order, amounts to.

**AdminServer** extends `ConfigLoader` with `SharedConfig`, the callbacks of
`AdminHandler` and the server's one worker: while a reload is loading, no other
callback runs (`FreeWorker`), but the directory can change at each step.

**JwksFetch** is `JwksCache::fetch` and `httpGet`, one action for each system
call, and the server at the other end, which sends its answer piece by piece
and may stall, close or reset at any time. `Ends` are the three ways in which
`recv` returns no data, which the code does not tell apart. `Call` and `Leave`
begin and end a call, so that one fetch follows another.

**GatewayStartup** composes `GatewayProcess` with `JwksFetch`: `main()` calls
`fetch` for a policy (`MainCalls`), waits while it takes its steps (`MainWaits`)
and enters what it returned (`FetchReturns`) or dies of what it threw
(`FetchThrows`), while the directory may be edited. `GatewayProcess`, in which
the whole of a fetch is one step, is its abstraction.

**GatewaySystem** composes `AdminServer` (and with it the loader) with
`GatewayProcess`: `main()`'s load and every reload take as many steps as the
code does. `GatewayProcess`, in which each is one step, is its abstraction:
`ImplementsProcess` is `GatewayProcess!Spec` under the mapping `dirBar`,
`storeBar`, `currentBar`.

**MCGatewayRequest**, **MCGatewayProcess**, **MCRouting**, **MCConfigLoader**,
**MCAdminServer**, **MCJwksFetch**, **MCGatewayStartup** and **MCGatewaySystem** give the constants
values. **GatewayRequestInv**, **GatewayRequestProofs**, **GatewayProcessProofs**,
**AdminServerProofs**, **GatewaySystemProofs**, **RoutingProofs**,
**JwksFetchProofs** and **SubsequenceLemmas** hold the proofs.

An operator whose name is that of another followed by an underscore and a word
(`Forwards_IgnoresBlocked`) is a faulty variant of it. Nothing uses it: put in
place of the right one it makes the property named in `PROJECT.json` fail,
which shows that the property depends on the code.

## What is assumed of the libraries

- Proxygen calls the chain's `onRequest`, then `onBody` any number of times,
  then `onEOM` or `onUpgrade`; `onError` may come at any time, `requestComplete`
  only without an error and when both directions are done. After `onError` for
  a timeout or a malformed request, its adaptor answers 408 or 400 itself if no
  response was started. The idle timeout runs only while the request is
  incomplete.
- On the upstream side interim (1xx) headers come through `onHeadersComplete`
  like final ones; `onError` may come even after EOM; `detachTransaction` is
  the last callback.
- A rate limit store allows, denies or throws (`StoreOutcomes`). The shipped
  `NullRateLimitStore` only allows.
- `folly::dynamic::get_ptr` throws on what is not an object, iteration on what
  is not an array, `getString` on what is not a string; `d["spec"]` throws when
  it is missing. `folly::Uri` and `std::stoi` throw `std::invalid_argument`.
- A file that exists during the whole of an iteration over its directory is
  delivered once (POSIX `readdir`); one that appears or disappears meanwhile may
  or may not be. Reading one file is one step: an edit that is half-done is an
  edit of its own, to a text that does not parse.
- `recv` on a reset connection fails and drops what was not read.
- A server with one thread runs one callback at a time.
- `HTTPServer::start` returns when the server fails to bind or is stopped.
  `HTTPServer::stop` ends a server that listens. On one that failed to start, or
  whose thread has not come to `start`, it may abort or do nothing; a server
  that is still starting may then end, or go on and listen, so that
  `admin.join()` never returns (`StopAdmin`).

## Runs

| Run | Checks | Shows |
|---|---|---|
| `request` | `TypeOK`, `BlockedNeverProxied`, `ProxiedOnlyIfVerified`, `ResponseWellFormed`, `CompleteMeansWhole`, `DanglesOnlyAfterError`, `ForwardedFaithfully`, `SinglePolicyRejectsOnlyBadTokens`, `RefinesProxy`, `ClientsFreed`, `RequestsEnd` | all hold, the last two under `Fairness` |
| `startup` | `TypeOK`, `EveryJwtPolicyAdds`, `ChainsGuarded`, `LastOfNameCached`, `FetchTypeOK`, `NoLeak`, `BodyFaithful`, `AcceptedExactly`, `ShutsDown`, `StartsUp` | all hold |
| `routing` | `MostSpecificRule`, `RightService`, `HostReadsBack`, `HostNamesKnownTarget` | all hold |
| `loader` | `NoFileLost`, `QuietLoadIsSnapshot`, `LoaderTypeOK`, `EmptySectionIsDefault`, `DataPlaneCanRun`, `LoadEnds` | all hold |
| `admin` | `TypeOK`, `LastReloadWins`, `CurrentIsComplete`, `ReloadApplies`, `EveryRequestEnds`, `EveryReloadAnswered` | all hold |
| `system` | `ListedPolicyGuards`, `ImplementsProcess` | both hold |
| `request_lifetime` | `DownstreamOutlivesClient` | fails: see 1 |
| `two_jwt_policies` | `RejectsOnlyBadTokens` | fails: see 2 |
| `same_name` | `OwnCache` | fails: see 3 |
| `host_header` | `HostNamesTarget` | fails: see 4 |
| `broken_get` | `BrokenGetThrows` | fails: see 5 |
| `reload_effect` | `ReloadTakesEffect` | fails: see 6 |

Where a run shows that the code disagrees with its documentation:

1. The README's lifetime diagram has the UpstreamClient end before the chain.
   A client that goes away first takes the chain with it, and the
   UpstreamClient goes on using it.
2. Several security policies may be put on a router. With two JWT policies
   every request is answered 401, because the first removes the header that
   the second needs. `SinglePolicyRejectsOnlyBadTokens` says that there is no
   other wrong 401, and `PassesOnlyIfListedAccept` that no request ever passes
   two.
3. Two policies of one name share a cache, the last one's, while the chain
   applies the first. `LastOfNameCached` says which JwtConfig it is in every
   case, and `DistinctNamesOwnCache` that nothing but a repeated name does it.
4. The addresses of a service are not parallel to its targets when one does
   not resolve, so Host header and address may differ. They agree whenever the
   first target resolves (`HostNamesKnownTarget`).
5. A JWKS response that breaks off, by a reset or by ten silent seconds, is
   taken for complete once its header has arrived, and only then
   (`AcceptedExactly`). `BodyFaithful` says what remains true: what is returned
   is a prefix of the body.
6. The repository's README says that a reload takes effect without a restart. A
   reload replaces `SharedConfig::current`, which nothing reads once `main()`
   has built the data plane (`Reload` leaves `plane` unchanged), so the gateway
   goes on with the configuration of startup. `doc/POLICY_SYSTEM.md` says so
   too. `ReloadApplies` and `LastReloadWins` are about `SharedConfig::current`
   alone.

The models follow the code, not the documentation, in these points too, for
which there is no run of their own:

- A rule without `pathType` is a literal prefix (`PathType`), although the
  README says that a rule's path is a regular expression, and shows one without
  `pathType`. `MostSpecificRule` leaves configurations with such a rule out
  (`AllTyped`): it does not say which of the two such a rule should be.
- A load is not a snapshot: files that change while it reads can end up in a
  mixture that the directory never held. What it does guarantee is
  `NoFileLost`, and `QuietLoadIsSnapshot` when nobody edits.
- A port above 65535 is not rejected but cut to 16 bits (`U16`).
- A fetch may throw `std::invalid_argument` (`error`), not the `runtime_error`
  that `jwks_cache.h` promises; `main()` catches both.

`RequestsEnd` names the one way in which a request does not end:
`LeftHanging`, when the upstream fails after headers were relayed. The code
then sends nothing more, and it is up to the client to give up.

`ShutsDown` likewise leaves one case out: a data plane that fails before the
admin server's thread has come to `HTTPServer::start`. What `stop` then does is
up to Proxygen, and among the outcomes that the model allows is one in which
`main()` waits for ever.

`ListedPolicyGuards` is the property from one end to the other: a Policy with a
`jwt` section and a Router that lists it lie in the directory during startup, so
once there is traffic the router's chain verifies tokens with that policy. It
depends on the loader (no file is lost because of others), on `main()` (no fetch
fails silently), on the engine (lookup by name) and on reloads leaving the data
plane alone. It needs its two files to stay put and to be well-formed: a Policy
file that does not parse is skipped, and the router is then served without it.

`LastReloadWins` depends on `opts.threads = 1` in `AdminServer`: the handler
loads outside the lock, and with two workers the slower of two reloads could
put the older configuration back (the variant `Workers_Two`).

### Bounds

- One request. Requests share no state but the process, so a second one adds
  interleavings that commute; the theorems cover any number.
- Two chunks (`MaxChunks`) for each body: enough for an empty, a single and a
  continued body, and for order and loss to be seen.
- Routes: both error handlers, a chain without policies, with one and with two
  JWT policies. Messages: no, malformed, good and four kinds of bad
  Authorization, with and without the two ids.
- Five configurations in `startup` (no policies; three policies, one without
  JWT, one name listed twice and one unknown; two of equal order; two JWT
  policies of one name; a JWT policy whose name one without JWT takes up again)
  and a directory that cannot be read, each replaceable by another at any time.
- Directories of two files and one edit in `loader`, over 14 texts: one or more
  of every kind, with sections missing, of the wrong type, and numbers out of
  range. That is a file that stays put beside one that is edited, broken, added
  or removed during the load. `IntRange` stands for 2^32, which TLC's integers
  cannot hold.
- Two admin requests, which can be two reloads, over two files and one edit in
  `admin`; one admin request over three files and one edit in `system`, where
  files are symmetric.
- Answers in `startup`: a 200 with and without a header, with up to three pieces
  of body, a body that contains an empty line, and no empty line at all, and one
  answer for each other first line, behind which the code does not look; every
  kind of URI; up to two fetches in a row; reads of up to three pieces
  (`MaxRead`).
- 226 configurations in `routing`: two routers with up to three rules of every
  type and of none over four paths and two methods, a service name that is taken twice,
  unknown or without targets, both protocols on default and other ports, a
  rewritten host, and every subset of three hosts resolving.

The request runs do not check for deadlock: a gateway whose requests are over,
or whose process has crashed, has nothing to do. The process may exit.
`Routing` without requests stops likewise, and so do loads that have returned,
admin requests that have ended.

### Fairness

`Fairness` is weak fairness of: the rest of a request arriving or timing out
(`idleTimeout`), the connect attempt ending (five seconds), the upstream
responding or being given up (the 30 second timer), and the two detach
callbacks. Nothing obliges a client to go away, and that is why `LeftHanging`
is possible. `StartupFairSpec` has weak fairness of `main()`, the steps of
`fetch` included, and of the starting of the threads. The system calls of
`fetch` return because of the socket timeouts; nothing is assumed of the server,
but that its answer is finite (one that sends byte by byte for ever would keep
`fetch` busy). `FairSpec` of `GatewayProcess`, which `reload_effect` uses, is
the same with a fetch as one step: that the reload has no effect is not for want
of a step that some thread could take. `LoaderFairSpec` is weak fairness of a load's reading
on; that it may also throw is not counted on. `FairSpec` of `AdminServer` is
weak fairness of `main()` and of each handler: the event loop runs, and the
idle timeout ends what a client leaves unfinished.

## Proofs

Every safety property that a passing run checks has a theorem, for every value
of the constants. The assumptions are `ASSUME`s that TLC evaluates:

| Assumption | Says |
|---|---|
| `RoutesAssumption` | error handlers have no filters; a `GatewayHandler` has a chain, with a HeaderFilter in it (`buildChain` always adds one) |
| `MessagesAssumption`, `NoMsgAssumption` | a message has the four headers that `FilterChain` tells apart; what a chain passes on is a message |
| `ChunksAssumption`, `MaxReadAssumption` | `MaxChunks` is a natural number; a read takes at least one piece |
| `StoresAssumption` | policies and the lists of names in a configuration have a length |
| `ConfigsAssumption` | routers, rules, paths, services and targets are vectors; a target is its host and its port |
| `LoaderAssumption` | `MaxEdits` is a natural number; the marks for a missing file and a missing resource are not themselves a text or a resource; a Router's policies are strings; numbers in Gateway and Listener documents are integers |
| `IntRangeAssumption` | `IntRange` is even and beyond every default in the code (it stands for 2^32) |
| `StartupAssumption` | there are finitely many loads, the one of startup among them |
| `UnreadableAssumption` | a directory that cannot be read is not a configuration |
| `AnswersAssumption` | an answer is made of pieces of text, with the empty line only where the header ends and in the body |

**GatewayRequestProofs** proves `Spec => []P` for `TypeOK`,
`BlockedNeverProxied`, `ProxiedOnlyIfVerified`, `ResponseWellFormed`,
`CompleteMeansWhole`, `DanglesOnlyAfterError`, `ForwardedFaithfully` and
`SinglePolicyRejectsOnlyBadTokens`, for any requests, routes, messages and
bounds. None is inductive. `IInv` adds, for each
request:

- `ChainLife`: the chain is deleted only after an error or after a complete
  response. This is what excludes a dangling pointer without an error.
- `InStep`: as long as there was no error, the client has been sent what the
  upstream has sent, stage by stage; so no send can break the response.
- `Progress`: `headersSent_` is set exactly from the first headers on, so that
  a late `onError` sends a 502 only when nothing was sent before.
- `Filtered`: what `GatewayHandler` holds was accepted by every JwtPolicy. That
  two JwtPolicies never both accept one request (`PassesVerified`) is part of
  the argument.
- `NoClient`, `HasClient`, `ClientLife`, `Idle`, `Answered`: which combinations
  of the objects' states occur.

`ForwardedFaithfully` needs `FInv` besides: `GatewayHandler` holds what the
filters made of the client's headers, the chunks that came in are in
`requestBody_` and then in `upstreamReq_`, and only that is ever sent.

`SinglePolicyRejectsOnlyBadTokens` is inductive with `IInv`, once it is stated
request by request (`Justified`). A 401 is only ever given where a request comes
in (`LaterSteps401`); there `StopJustified` follows the chain to the filter that
stopped the request: if that is a JwtPolicy and none is before it, it was shown
the Authorization header as the client sent it.

`ImplementsProxy` says that `GatewayRequest` implements `ReverseProxy`. Each of
the seven abstract steps has a lemma (`IsAdmit` to `IsCut`) that says what a
concrete step must do at its request to be that step, `Lift` deals with the other
requests, and one lemma per action shows which step or stutter it is. Besides
`IInv` the argument needs `CInv`, that a request whose connect attempt is still
running has not been answered; otherwise `connectSuccess` could ask, or
`connectError` answer, a second time.

**GatewayRequestInv** states `IInv`, the facts that all the steps share (`Frame`
covers the requests that an action does not touch, `SendAt` what a send on
`downstream_` does) and one lemma per action. Each first lists what the action
does to the state of its one request, and then derives every conjunct of the
invariant from that list alone. Most leaves name Zenon: they are first-order, and
the SMT encoding of so many functions is slow.

**SubsequenceLemmas** says what `Ranked`, `Nth` and `Pick` return: a list of the
set without repetition, in order. All induction over positions goes through
`Least`, that a set of natural numbers has a least element.

**GatewayProcessProofs** proves `TypeOK`, `EveryJwtPolicyAdds`, `ChainsGuarded`
and `LastOfNameCached`. The loop invariant (`LoopInv`) is that every JWT policy before
`next` has a cache; `Ready` carries it over to the data plane, which no reload
changes. For `ChainsGuarded` the lemmas follow `buildChain`: the resolved list,
any outcome of its sort, and the wrapping, which leaves exactly one JwtPolicy for
each JWT policy listed. Joined with what `FilterChain` says of a request that
passes, that gives `PassesOnlyIfListedAccept`, which ties the names on a router
to the tokens that get through. For `LastOfNameCached` the loop invariant
(`Latest`, in `CInv`) speaks of the policies before `next` only: a cache has the
JwtConfig of the last of its name among them. `SkipKeepsLatest` and
`EnterKeepsLatest` are its two steps. `DistinctNamesOwnCache` follows under the
hypothesis that no configuration repeats a policy's name.

**RoutingProofs** proves `MostSpecificRule`, `RightService`, `HostReadsBack` and
`HostNamesKnownTarget` for any configuration and request (`MostSpecificRule`:
any whose rules have a `pathType`). `FactoryInv` says that the tables are what the
constructor builds and that the last handler is what the tables give. The work
is in what the tables contain: `PushedLists` (a table has a route for each rule
of its type, in the order of the loops), `SortedLists` (any sort keeps them,
longest first) and `FirstMatchFinds`, from which each of the three stages of
`onRequest` is shown to find the rule that the property names. For
`HostNamesKnownTarget` it is enough that the known addresses keep the order of
the targets: nothing can come before the first.

**AdminServerProofs** has three inductive invariants. `LoaderInv`: whatever a
load may find when it opens a file is among what the directory `held` while it
was reading, and every steady document is loaded already or its entry is still
to come (`Covered`). Dispatching only adds to a store (`DispatchLoads`), which
gives `NoFileLost` for any directory, any documents and any edits. `QuietInv`:
of a directory that did not change, the load has read each file exactly once
that is not still before it (`ReadOnce`), which ends in `QuietLoadIsSnapshot`.
`AdminInv` adds the order of reloads: at most one is loading, it is the last
that began, and it has not been answered (`Order`, `Replies`); with it
`LastReloadWins`, `CurrentIsComplete` and `ReloadApplies` follow for any number
of requests. That no request reloads twice (`Distinct`) bounds `began` in
`TypeOK`. The conversions are arithmetic: `LoaderTypeOK` (ports wrap into 16
bits), `DataPlaneCanRun` (a positive `int32_t` survives the cast to `size_t`) and
`EmptySectionIsDefault` (no default is changed by its cast).

**GatewaySystemProofs** proves that `GatewaySystem` implements `GatewayProcess`
(`ImplementsProcess`) and `ListedPolicyGuards`. A step of a load is at most an
edit of the directory that `GatewayProcess` sees (`SeenAsEdit`); the rest is one
case per action. For `ListedPolicyGuards` the invariant of `GatewayProcess` is
carried over through the refinement (`SystemProcess`); `SourceInv` says that
every policy of a store was in some file while the load was reading, so that the
policy found by name is the one in the file; `Linked` that the data plane is
built from what `main()` loaded and is given nothing else.

**JwksFetchProofs** proves `FetchTypeOK`, `NoLeak`, `BodyFaithful` and
`AcceptedExactly` for any answers, any read sizes and any number of calls.
`StartupFetches` and `StartupImplementsProcess` say that `GatewayStartup`
implements both of its parts, so that these theorems and those of
`GatewayProcessProofs` hold of it. `FetchInv` relates the position in `httpGet` to the two
resources (`Resources`), bounds what was read by what was sent and that by the
answer (`Stream`), and says of a returned result that it is what follows the
first empty line (`Extracted`). That the first empty line is the one that ends
the header, wherever the response broke off, is the lemma that carries
`BodyFaithful`. `AcceptedExactly` needs the converse (`BlankArrives`, that an
empty line among what was read is never overlooked) and that an exchange which
has ended is not resumed (`Decided`).

Only model-checked: the liveness properties (`ClientsFreed`, `RequestsEnd`,
`ShutsDown`, `StartsUp`, `LoadEnds`, `EveryRequestEnds`, `EveryReloadAnswered`),
since TLAPS handles neither fairness nor `ENABLED`; and the six properties that
fail.

## Not modelled

- `filter/auth_filter.*`: not compiled and not used.
- `policy/folly_jwt_traits.h`: a stateless adaptor of types between
  `folly::dynamic` and the JWT library; verification itself is a set of facts
  about a token (`FilterChain`).
- The URL that `GatewayHandler::onEOM` builds from a rewrite and the query, and
  host, port and path of a JWKS URI: string formatting without effect on
  control.
- Wording, logging, the bodies of error responses, response trailers and
  backpressure, for which the code has empty callbacks.
- A limit on request bodies: the documents plan one, the code has none.
- TLS and HTTP/2: the code configures plain HTTP only, and Proxygen hides the
  difference from the handlers.
- A composition of requests with routing: the request path reads the tables of
  the factory and writes nothing that another request reads, so `Routes` in
  `GatewayRequest`, any handler and any filters, stands for all of its outcomes.
