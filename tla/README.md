# A TLA+ verification of go-mcp-oauth

go-mcp-oauth is a library that puts OAuth 2.1 in front of an MCP server. It
brokers the login of an MCP client to an upstream identity provider (IdP),
hands out bearers, and validates them on every request. This directory models
its stateful and concurrent parts in TLA+, checks them with TLC on small
instances, and proves the safety properties, and that the broker implements its
abstract specification, with TLAPS for every value of the parameters.

## 1. The system

| Part | State | Operations | Works with |
|--|--|--|--|
| Broker (`broker.go`, `broker_state.go`, `pkce.go`) | none: a flow's state travels in JWE artifacts | `/oauth/authorize`, `/oauth/callback`, `/oauth/token` | CIMD resolver, client assertions, IdP, Validator, JWE |
| JWE artifacts (`jwe.go`, `downstream_token.go`) | one shared `SigningSecret` | encode and decode pending-auth, auth-code, downstream-token | broker, middleware |
| CIMD resolver (`cimd.go`) | bounded FIFO cache of client documents, with negative entries | `resolve`, cache `get`/`put`/evict, `cacheTTLFromHeader`, URL and document checks | clients' metadata servers |
| Client assertions (`client_assertion.go`) | bounded FIFO cache of clients' key sets | verify, invalidate, fetch again | clients' JWKS servers |
| Validator (`validator.go`, `claims.go`) | one JWKS cache behind an RW lock | `Validate`, `ValidateUpstreamIdentityToken`, the identity policy | IdP |
| OIDC discovery (`validator.go`, `broker.go`) | one document cache behind an RW lock | `fetchOIDCDiscovery` with two candidate URLs, the lookups of the four endpoints | IdP |
| Refresh (`refresh.go`) | none | refresh of a nearly expired id_token during `/token` | IdP, Validator |
| Middleware (`middleware.go`) | none | unwrap, validate, pass on, challenge | Validator, JWE |
| Configuration (`config.go`) | fixed at `New` | `Validate`, defaults | everybody |
| Routes, base URLs, metadata (`urls.go`, `broker.go`) | none | `RegisterRoutes`, base URLs from settings or the request, metadata documents | clients |
| Scopes, CORS | none | pure functions | |

What is hard here: the broker is stateless, so every redirect can be repeated,
delayed, lost or mixed up, and single use of a code rests on the IdP; caches
are shared by concurrent requests, and locks are released around HTTP
requests, so answers are applied out of order; several clocks and lifetimes
interact (state, code, id_token, wrapped token, assertions, caches, skew); a
refresh or an exchange may fail half way; URLs are derived afresh from each
request, and must agree between requests. `PROJECT.json` lists these hazards
line by line.

What makes each part correct:

- *Broker*: a login is spent, and a token granted, only for the client and flow
  it belongs to, once, in time, for the right resource.
- *CIMD resolver*: the cache's map and order agree and stay bounded; concurrent
  failures do not displace good entries; staleness is bounded; a client's
  document speaks for that client only.
- *Client assertions*: a withdrawn key does not outlive the cache; rotation
  does not turn good assertions away; an assertion is judged by the clock of its
  verdict; every verification ends.
- *Validator*: a withdrawn key does not outlive the cache's time to live;
  rotation does not turn good tokens away; every validation ends.
- *Discovery*: a document is used no longer than its time to live; a broken one is
  not held against later requests; keys come from the document's own URI; a
  configuration that `New` accepts leaves no endpoint without a place to look.
- *Token issue and middleware*: a bearer is served as long as announced and no
  longer than allowed, and issued to nobody whom the policy keeps out; every
  `/token` request is answered, whatever it has to wait for.
- *Routes and metadata*: what is advertised is mounted, and what one request is
  told holds for the next.

## 2. Modules

| Module | Models | Code it stands for |
|--|--|--|
| `Jwe` | artifacts as a key and a claim map: key separation, whitelist, expiry | `jwe.go` |
| `BrokerFlow` | the code flow from `/authorize` to the reply of `/token`, with the IdP | `broker.go`, `broker_state.go`, `pkce.go` |
| `AuthCodeGrant` | what the broker promises: an abstract specification without artifacts, messages or time | |
| `BrokerRefinement` | the mapping from `BrokerFlow` to `AuthCodeGrant` | |
| `BrokerFlowProofs` | proofs about `BrokerFlow`, and that it implements `AuthCodeGrant` (extends `BrokerRefinement`) | |
| `CimdCache` | `cimdCache` as functions on cache values, each under the mutex | `cimd.go` |
| `CimdCacheProofs` | lemmas on the cache's methods, for the two caches built on it | |
| `CimdDocument` | the checks of client_id URLs and client documents | `cimd.go` |
| `CimdResolver` | concurrent calls of `resolve` (extends `CimdCache`, `CimdDocument`) | `cimd.go` |
| `CimdResolverProofs` | proofs about `CimdResolver` | |
| `CacheControl` | `cacheTTLFromHeader`, with the turns of its loop as steps | `cimd.go` |
| `CacheControlProofs` | proofs about `CacheControl` | |
| `ClientAssertion` | concurrent verifications over the clients' key cache (extends `CimdCache`) | `client_assertion.go` |
| `ClientAssertionProofs` | proofs about `ClientAssertion` | |
| `JwksCache` | concurrent validations over the Validator's key cache | `validator.go` |
| `JwksCacheProofs` | proofs about `JwksCache` | |
| `Claims` | reading claims, the issuer allowlist, the identity policy | `claims.go`, `validator.go` |
| `Config` | `Config.Validate`, modes, defaults | `config.go` |
| `TokenIssue` | identity check, refresh, wrapping, `expires_in`, middleware (extends `Jwe`, `Claims`) | `broker.go`, `refresh.go`, `middleware.go`, `downstream_token.go`, `validator.go` |
| `TokenIssueProofs` | proofs about `TokenIssue` | |
| `Endpoints` | routes, base URLs, metadata documents (extends `Config`) | `urls.go`, `broker.go`, `middleware.go` |
| `OidcDiscovery` | concurrent lookups of the IdP's endpoints over both caches (extends `Endpoints`) | `validator.go`, `broker.go` |
| `Deployment` | a configuration, its routes and its discovery together (extends `OidcDiscovery`) | |
| `DeploymentProofs` | proofs about `Deployment` and `OidcDiscovery` | |

Modules named `MC...` and the `.cfg` files instantiate these for TLC. The
operators keep the names of the functions they stand for; the map in
`PROJECT.json` gives the lines. Operators introduced by "Fault:" are plausible
bugs that serve to test the properties: each property fails when one of them
replaces the definition that follows it.

### How state and actions correspond to the code

**`BrokerFlow`.** The broker has no variables of its own: `minted` is the set
of JWE artifacts it has sent out, any of which may be presented at any
endpoint at any time. `handleAuthorize`, `handleCallback` and `StartToken` are
the handlers with their checks in the order of the code; a request that fails
a check of `/authorize` or `/callback` changes nothing and is not a step.
`/token` is cut where the handler waits for the IdP: `StartToken` ends with the
`PostForm` on its way (`posts`), `UpstreamExchange` is the IdP, and
`HandleUpstreamAnswer` or `TransportError` the rest of the handler, which is
`TokenIssue`'s subject and one step here. A request to `/token` that is no POST, or
whose form cannot be parsed, is not `posted`. An
exchange can reach the IdP after the handler has given up on it. The IdP is
external and is modelled as the code relies on it: it binds a code to the
`code_challenge` of the request that led to the login and takes it once. The
random upstream verifier is a number nobody has had before; S256 is injective.
The resolver's answer is any member of `Resolutions[client_id]`, so a client
document may differ between two requests. `started` and `grants` are history.
Since the broker keeps nothing, a crash or a move to another replica loses the
requests under way and no more: to the model it is a `TransportError`.

**`AuthCodeGrant`, `BrokerRefinement`.** The abstract specification has flows,
logins, logins that are used up, and tokens; a step starts a flow, logs a user in, uses a
login up, or grants its token. The mapping identifies a flow by its
upstream verifier, takes the owner of a token from the request that gets it
(client, redirect_uri, S256 of the verifier) and its subject from the IdP's answer,
so that `ImplementsGrant` compares what the endpoints did with what the
flow was for. Callbacks, messages, failures and time map to stuttering.

**`CimdResolver`, `CimdDocument`.** `Resolve` is `resolve` up to the fetch,
`FetchReturns` and `FetchFails` the rest; the client's server answers
(`ServerAnswers`) and changes its document (`Publish`) in between. A URL that
`validateCIMDClientIDURL` rejects is one step (`ResolveBadURL`), for the code
writes its negative entry without a lookup. `validated` is
`parseCIMDMetadata` applied to the document that arrived. URLs are what `url.Parse`
makes of them. A refused address counts as a
failed fetch: `fetchAndValidate` wraps the dial error with `%v`, so the
`errCIMDSSRFBlocked` case of `resolve` never applies. Time does not pass a
fetch's timeout.

**`ClientAssertion`.** A verification looks into the cache (`Verify`) or fetches
(`ServerAnswers`, `Store`, `FetchFails`); a missing key invalidates the entry
(`Invalidate`) and looks again (`Refetch`), each under the mutex on its own.
The time to live is counted from the arrival of the answer and the claims
are judged then, as in the code. An answer with a time to live of nothing is not
stored, and overtakes nobody. An assertion comes parsed, with the key that
signed it; `iat`, `nbf` and `exp` may be absent. `offeredAt` is history: when a
client last began to publish a key that an assertion asks for. `BrokerFlow` takes the
verdict as an input.

**`JwksCache`.** A validation looks into the cache (`Begin`), or fetches
(`ServerAnswers`, `Store`, `FetchFails`); a kid miss invalidates (`Invalidate`)
and looks again (`Refetch`), each under a lock of its own. `missing`,
`overtaken`, `withdrawn` and `publishedAt` (when the IdP last began to publish a key)
are history. The `jwks_uri` is constant here; what happens when it
changes is the subject of `OidcDiscovery`, where in turn a key set is known by its
URI alone.

**`OidcDiscovery`.** A lookup is one of the four uses of a discovery document: the
redirect of `/authorize`, the exchange of `/token`, the userinfo request, and
a validation, which goes on to the keys. `Begin` is the lookup up to its first HTTP
request: a setting that overrides it, the cache, or the first candidate URL.
The document is dated when it arrives, the keys when they were asked for, as
the code does. A validation reads the document under one lock and the keys under
another: once it has its URI it is `located`, and `LookForKeys` is a step of its own,
before which other validations may store other documents and other keys. `Change` lets the IdP replace or lose a document at either candidate.

**`Endpoints`.** A path is the sequence of the pieces that the code takes it apart into, with
every "/" a piece of its own, so that a missing or a trailing slash, a rest that begins without
one ("/.well-known/openid-configuration-login") and an issuer that ends in "/.well-known" are
what they are in the code. A configured URL is what `url.Parse` makes of it; an `Audience` that is no URL, such as
a client_id, is all path. `RegisterRoutes` is the set of routes; a mux panics when it gets a path for the second
time, and `mountable` says that it does not.

**`Deployment`.** `Init` takes a configuration that `Config.Validate` accepts and whose routes
can be mounted.
`AdvertisedIsMounted`, `RequestsAgree` and `ResourceRoundTrip` are
about requests to it under several hosts, behind a proxy or not. They depend on the
configuration alone, which never changes, and are evaluated where a
deployment starts.

**`TokenIssue`, `Claims`.** A `/token` handler starts with the IdP's answer to the code exchange
(`AnswerWithIDToken`, `AnswerWithAccessToken`) and is cut at each of its waits: for the keys that validate
the id_token, or the userinfo; for a refresh; for the keys that validate the refreshed id_token.
Each ends with a step that goes on (`IDTokenValidates`, `UserInfoReturns`, `RefreshReturns`,
`FreshValidates`) or one that gives up (`IdentityFails`, which answers `server_error`, and
`RefreshFails`, which issues the old id_token), and the clock may run meanwhile. `Middleware` presents a bearer that was issued, at any later
time. Tokens and userinfo answers are JSON objects with typed members, which
`claimsFromRaw` and `claimsFromUserInfo` read; a string is the sequence of the
parts that the code takes it apart into (at "@", "/" or blanks). Signature
keys are in order here (they are the subject of `JwksCache`). The two clock
readings that wrap a token and compute `expires_in` fall into one step, as they
do in the same second.

**`CacheControl`.** The state is the header, how much of it the loop has read, and
the loop's `maxAge` or what it has returned. `Turn` is one turn of the loop, with its early
returns, `End` what follows the loop.

## 3. Runs

| Run | Expected | Shows |
|--|--|--|
| `binding` | pass | `IInv`, `SpentByOwner`, `GrantBinding`, `OneGrantPerLogin`, and that the broker implements `AuthCodeGrant` (`ImplementsGrant`), with two clients, users, flows and requests |
| `lifetime` | pass | `TypeOK`, `GrantWithinLifetime`, `ResourceBinding` with one flow, a clock, all kinds of forms and IdP answers |
| `cimd` | pass | `TypeOK`, `CacheConsistent`, `BoundedStaleness`, `SpeaksForItself`, `PositiveSurvivesNegative`, `OnlyOldestEvicted`: three client_ids, good and bad documents, two places, two requests |
| `assertion` | pass | `TypeOK` (with the cache's consistency), `AcceptedKeyFresh`, `RetryCoversRotationAlone`, `SettledKeyFound`, `AcceptedWithinLifetime`, `VerificationsEnd`: two verifications, two clients, two places, a rotation |
| `jwks` | pass | `IInv`, `AcceptedKeyFresh`, `RetryCoversRotationAlone`, `ValidationsEnd`: two validations, two keys, a rotation |
| `jwks_race` | violation | `RetryCoversRotation`, see finding 1 |
| `token` | pass | `TypeOK`, `ServedWithinLifetime`, `AdvertisedLifetimeHonoured`, `IssuedIdentityAllowed`, `TokenRequestsAnswered`: both modes, with and without `RequiredScopes`, a bearer from the IdP's answer to its expiry, the IdP's clock one skew ahead, users whom the policy lets in or keeps out |
| `token_backend` | violation | `BackendNeverSeesUpstreamToken`, see finding 2 |
| `token_quick_start` | violation | `AdvertisedLifetimeHonoured`, see finding 3 |
| `deployment` | pass | `TypeOK`, `DiscoveryFresh`, `KeysOfTheDocument`, `ValidConfigSuffices`, `AdvertisedIsMounted`, `RequestsAgree`, `ResourceRoundTrip`, `LookupsEnd`: five accepted configurations, three ways to reach the server, two lookups, an IdP that moves or fails |
| `cache_control` | pass | `TypeOK`, `FirstDecisiveRules`: every header of up to four directives |
| `no_store_wins` | violation | `NoStoreWins`, see finding 4 |

To repeat one: `tlc -workers 2 -config MCBrokerBinding.cfg MCBrokerFlow`.

**Bounds.** Mixing up flows needs two of each: clients, users, PKCE verifiers,
flows, logins, requests; `binding` has them and stops the clock, for no
property it checks depends on time. `lifetime` has one flow, the two lifetimes
2 and 1, and a clock that passes their sum. In `cimd` a cache of two places
with three keys reaches a full cache, eviction and re-insertion; two requests
suffice for every race between a lookup and a put; times to live and the timeout of a
fetch are 1 and the clock runs to 3, beyond their sum, so a document may be replaced at 0
and asked for at 3, when `BoundedStaleness` no longer lets it answer. In `assertion` a cache of two places
for two clients lets an invalidation or an expiry take the first of two keys out of the order and a second
fetch put it behind the other, while the other call fetches; it is never full with a third
key to come: that is in `cimd`, on the same operators, and in the proofs. In `jwks` the
time to live and the timeout are 1, so a fetch can span the expiry of what it
brings; a third validation only repeats the roles of the second. These bounds are too
small for a key to be settled and missed, so `SettledKeyFound` is no property of that run, only a
part of its `IInv`: `assertion`, with the same retry, exercises it, and section 5 proves
both. In `token`
the lifetimes, with the IdP's clock ahead, lie below and at the threshold and above `AccessTokenTTL`, and the clock
passes the expiry also of a bearer that was refreshed after a tick of waiting; one bearer is enough there,
for handlers and bearers share nothing. No handler starts once the bearer is issued, but one that has started
is never held up by the bound. In `deployment` one change of the IdP and a clock of twice the time
to live let a cached document outlive the served one. What is
proved (section 5) does not depend on any of these bounds. `CHECK_DEADLOCK` is
off because a library that no request reaches may rest, and because the bounds
end the behaviours.

**Symmetry** is used only in runs without liveness properties.

**Fairness.** `TokenIssue` assumes that a `/token` handler that waits for keys, userinfo
or a refresh goes on at some time, with or without them, `JwksCache`, `OidcDiscovery` and `ClientAssertion` that
a validation, a lookup and a verification do (for the last two, weak fairness of the
steps that change its call, which all of them do): Go schedules
runnable goroutines, the HTTP client that `Config.httpClient` makes ends
every request after 10 seconds, and the fetch of a client's keys has a context
that ends after 3. An operator who sets `Config.HTTPClient`
without a timeout gives the first of these up. Nothing is assumed of the IdP, the
clients or their servers.

## 4. Findings

1. *The kid-miss retry races* (`validator.go:189`). KNOWN_ISSUES.md, 7, says
   that the retry covers rotation. The run `jwks_race` has a counterexample: call A
   fetches the old keys; the IdP rotates; call B misses its kid and invalidates
   the cache; A stores the old keys, dated before the rotation but still within
   the time to live; B's second lookup is answered from the cache and its good
   token is refused. Alone, the retry does what it should
   (`RetryCoversRotationAlone`, proved), and the race has a window (`SettledKeyFound`,
   proved): only a key that was published at most a fetch's timeout before the validation
   began can be refused, that is 10 seconds for the IdP's keys and 3 for a client's. This counts
   on a fetch being over, answer stored, by its timeout; scheduling delays add to it, and an
   `HTTPClient` without a timeout gives it up.
2. *Gating mode can hand out the upstream token* (`broker.go:526`). If the IdP
   answers without an id_token, the bearer is its access token, unwrapped, in
   either mode; if that is a JWT for the audience, Middleware accepts it and
   puts it into the context as the raw token. `config.go` and the repository's
   README say that backends never see the upstream token.
3. *The quick start refuses its own bearers* (`validator.go:86`). The id_token is
   checked against `ClientID` at `/token` and against `Audience` at each request.
   The README's quick start gives them different values.
4. *An oversized max-age hides no-store* (`cimd.go:346`). The early return for a
   `max-age` beyond the cap skips the directives that follow.

Seen on the way, without a run:

- `cimd.go`: entries for unacceptable client_id URLs are written but never read,
  and can evict good ones; the `errCIMDSSRFBlocked` case of `resolve` never
  applies; the `jwks_uri` of a client that says `none` is kept unchecked, but never used.
- `client_assertion.go`: the retry has the window of finding 1; it is for a missing key only,
  so an assertion without a kid, or with a reused one, fails after a rotation until the entry
  expires; `exp` and `iat` may be absent, and `jti` is not looked at. A
  `private_key_jwt` client may leave out its assertion.
- `urls.go`, `broker.go`: without `PublicAuthServerURL`, the metadata at
  `/.well-known/oauth-authorization-server/oauth` advertises
  `/oauth/oauth/authorize`, which is not mounted; a path of `Issuer` is used as the
  server's own prefix (`broker.go:137`), while `config.go:106` says it is inferred from
  the request; with a path in `Audience` and no `PublicResourceURL`, the challenge's
  `resource_metadata` is not mounted. `AdvertisedIsMounted` leaves these
  cases out (`Canonical`). A configured `AuthorizationPath` or `TokenPath` that begins with a
  well-known metadata path is accepted, and its rest is then taken for the server's
  prefix (`broker.go:111`, `broker.go:127`), so that `/authorize` and `/token` may tell the IdP
  different `redirect_uri`s: `RequestsAgree` and `ResourceRoundTrip` are about plain paths
  (`PlainPaths`). `Config.Validate` also accepts a path that is another handler's, such as an
  `AuthorizationPath` of `/oauth/token`, with which `RegisterRoutes` panics in the mux
  (`broker.go:90`); and without `PublicResourceURL` an `Audience` that is a client_id is put behind the
  host without a slash (`broker.go:144`). The comment on `suffixPrefix` says "before" the marker, the code
  returns what follows it.
- `validator.go`: with `AuthURL` and `TokenURL` but neither `Issuer` nor `JWKSURL`, which
  `Config.Validate` accepts, `/token` cannot check an id_token and `Validate` lets
  JWTs through unchecked; `email_verified` as the string
  "true" counts in a token, not in a userinfo answer; an expired wrapped token
  is reported as `invalid_token`, not as expired; with `RequiredScopes` (`config.go:93`) every bearer
  from an id_token without these scopes, which id_tokens seldom have, is refused with
  `insufficient_scope` at once (`validator.go:129`), though `/token` issued it.
- The resource-server-only example of the repository's README leaves out the
  `ClientID` and the `SigningSecret` that `Config.Validate` wants in forward mode.

## 5. Proofs

Each component has its proofs in a module of its own, except that the cache
lemmas are shared. They use the
assumptions that the components state, and no bound of any run: the numbers of
clients, requests, documents, keys, changes and ticks are arbitrary. All but
one theorem have no further hypothesis.

| Assumption | Says |
|--|--|
| `TTLAssumption`, `JwksAssumption`, `CapacityAssumption`, `DocumentAssumption` | lifetimes and timeouts are natural numbers, caches' times to live and capacities are positive |
| `ResolverAssumption` | no answer is longer kept than `MaxTTL` (`cacheTTLFromHeader` caps it); a client is not one of the markers for nil and for a failed fetch |
| `ClientAssertionAssumption` | the same cap; a key set is a list, times are numbers or absent |
| `CacheControlAssumption` | the default lies within the cap; the numbers of `max-age` are integers |
| `DiscoveryAssumption`, `DeploymentAssumption` | "down" is not a document; settings that are URLs or paths have the form that parsing gives them |
| `TokenIssueAssumption` | a Config is in one of the two modes; lifetimes are positive; an identity by itself has no `exp` (the IdP's token adds it), its email, if any, is a string |

An invariant of a run is almost never inductive: it speaks of the end of a call, and what
makes it true was decided several steps before, by other calls too. Each module
therefore has an invariant `IInv` that dates what is on its way. Those of
`BrokerFlow` and `JwksCache` are invariants of the runs `binding` and `jwks`.

**`BrokerFlowProofs`** proves `TypeOK`, `SpentByOwner`, `GrantBinding`,
`OneGrantPerLogin`, `GrantWithinLifetime` and `ResourceBinding`. A grant's identity
comes from an answer, the answer from an exchange, the exchange from an artifact,
the artifact from a flow. `IInv` says where each of them comes from:

- `FlowsDistinct`: upstream verifiers identify flows;
- `Provenance`: every artifact is the state of a flow, or a code made from one
  while the state was alive;
- `PostsRedeem`, `SpentRedeem`: every exchange, on its way or taken, belongs to a
  request that passed the checks for the flow its verifier names;
- `AnswersSpent`, `GrantsSpent`: every answer that is not a refusal, and every
  grant, stands on a spent code;
- `LoginsNumbered`, `ExchangedOnce`: two logins never have the same code, and a
  request posts one exchange, which is taken once and answered with one grant at
  most, which the refinement needs.

The IdP's PKCE check then closes the circle: a spent code's challenge names the
flow the user logged in for, and its verifier the flow of the redeeming
request, and both are the same flow.

It also proves `ImplementsGrant`. One lemma per kind of step:
`/authorize` starts a flow (its verifier is new), the user's login is a login for the
flow whose challenge the IdP was sent, the exchange uses up a login that nobody
used before, and the handler that gets the answer grants its token to the owner of that flow; a
callback, a lost message, a failure and the clock leave the mapped state alone.
The last two rest on `IInv`: the mapping reads a token's owner off the request, the abstract
step off the flow.

**`JwksCacheProofs`** proves `AcceptedKeyFresh`, `RetryCoversRotationAlone` and
`SettledKeyFound`.
`IInv` adds that nothing is dated in the future (`Dated`), that a key set,
cached or about to be, was published at its date or later (`KeysFresh`), that a
published key's absence is noticed (`MissNoticed`), and that the cache stays
invalid between an invalidation and the second lookup unless somebody else
stores (`Invalidated`). For `SettledKeyFound` it adds that a key which a fetched answer does not
show was published after that fetch began (`LaterPublished`), and that a validation which looks
again finds a cache that shows its key, if the key was settled when it began
(`SettledKeyCached`). The invariant is split into a part about the cache and one
about each call, so that a step of one call is checked against that call alone.

**`CimdCacheProofs`** has no theorem about behaviours. Its lemmas say what `get`, `put`, `insert`,
`evictLocked` and the removal of a key make of a well-formed cache (`CacheWF`:
the order lists exactly the map's keys, none twice, at most `Capacity`): it
stays well-formed, the other entries stay as they are, and only a full cache
that gets a new key loses one, its oldest. Both caches built on it use them.

**`CimdResolverProofs`** proves `TypeOK`, `CacheConsistent`, `BoundedStaleness`,
`SpeaksForItself` and the action properties `PositiveSurvivesNegative` and
`OnlyOldestEvicted`. `IInv`: the cache is well-formed; an
entry says what some document of its URL says, and that document was published
within a fetch and the entry's time to live before the entry expires; a
document that a call has fetched was published at some time since the call
asked for it.

**`ClientAssertionProofs`** proves `TypeOK`, `AcceptedKeyFresh`,
`RetryCoversRotationAlone`, `SettledKeyFound` and `AcceptedWithinLifetime`. `IInv` dates
every key of a cached or fetched set in the same way, and adds what the
retry rests on: between its invalidation and its second lookup the entry is not in
the cache, unless another call has stored its own. `SettledKeyFound` has a second invariant
on top of it, `Settled`, which says of cached and fetched key sets what `LaterPublished` and
`SettledKeyCached` say in `JwksCache`, where a set shows a key if `selectJWK` finds one in it.

**`DeploymentProofs`** proves `TypeOK`, `DiscoveryFresh`, `KeysOfTheDocument`,
`ValidConfigSuffices`, `AdvertisedIsMounted`, `RequestsAgree` and `ResourceRoundTrip`.
`IInv` says that a cached document that may be served was there at most a
timeout before its date, that the document of a lookup is fresh, and that the URL
of its keys is that document's, from the step that finds it through the step that looks for the
keys, whatever others store in between. The last three properties need no induction:
they follow from `Config.Validate` and from how paths are normalised, stripped of a
well-known prefix and put together again. `RequestsAgree` and `ResourceRoundTrip` have `PlainPaths`
as a condition: no configured `AuthorizationPath` or `TokenPath`
begins with a well-known metadata path. The code does not check this, and
without it they do not hold.

**`TokenIssueProofs`** proves `TypeOK`, `ServedWithinLifetime`, `IssuedIdentityAllowed` and
`AdvertisedLifetimeHonoured`. `IInv` says of every id_token that a handler holds when it
was issued, and of one that is validated, in a handler or an issued bearer, that it passed the
identity check and the policy; and of a bearer that its own `exp` is no later than the
id_token's and the time to live allow, and no earlier than `expires_in` promises. That
an email with a domain ends in "@" and that domain is a lemma (`DomainIsSuffix`).
`AdvertisedLifetimeHonoured` says that a bearer is served, and has as its condition that the id_token has the
`RequiredScopes`. It is proved under `AudienceIsClient` (`Audience` is empty or the
`ClientID`) and `IdPDrift <= ClockSkew`: without the first the run
`token_quick_start` has a counterexample, without the second a
fresh token is not valid yet.

**`CacheControlProofs`** proves `TypeOK` and `FirstDecisiveRules`, for headers of every length.
The loop is a state machine so that the induction over the header is that of its steps:
`IInv` says that nothing read so far decides and that `maxAge` is the number of the last
`max-age` read, or -1. `TypeOK` is what the two caches assume of their times to live (`MaxTTL`).

**How far a call can still go.** `ValidationsGoOn`, `VerificationsGoOn`, `LookupsGoOn` and
`TokenRequestsGoOn` are the
half of liveness that is a safety property. They give each call a number of steps to its end (at
most six for a validation, a verification or a lookup, three for a `/token` handler) and prove `GoesOn`: each of its
own steps takes one off at least, and no step of another call, no rotation, change or tick
adds one. What makes it true is that the retry counts as the second attempt (`SecondAttempt`),
that the second candidate is the last, and that a refreshed id_token is not refreshed again.

**Only model-checked**: liveness (`TokenRequestsAnswered`, `ValidationsEnd`,
`VerificationsEnd`, `LookupsEnd`). What remains of them, beyond `GoesOn`, is that a call that
is not at its end has a step it can take and that fairness takes it; that is about ENABLED, which the
prover does not reach. The violations of section 4 are counterexamples of TLC.

## 6. Not modelled

The address checks of CIMD (`isBlockedIP`, `ssrfSafeDial`) decide on IP addresses and
open connections: a refused address is a failed fetch. Scopes that are
renamed or filtered on their way to the IdP, CORS headers, the texts of errors and
challenges, HTML and logging carry no state, and no decision of another part
depends on them. Cryptography is ideal in `Jwe`, `pkceChallenge` and wherever a
signature is verified. `errors.go`, `doc.go`, the example and the test helper
have no behaviour of the library's own. `Config.RefreshTokenTTL` is read by no code.

## 7. Plan

Every safety invariant and action property of the passing runs is proved. What is left:

1. Shorter proofs where modules argue alike: the dating of fetched answers occurs in
   `JwksCache`, `CimdResolver`, `ClientAssertion` and `OidcDiscovery`, and an abstract
   cache that all of them implement could carry it.
2. Liveness, when the prover reaches ENABLED: `GoesOn` is the measure it needs.
