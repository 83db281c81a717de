# A formal model of APIFoundry

APIFoundry is a REST sandbox: an Express server, one Node.js process, with every
piece of state in memory. Clients practise against it: CRUD resources,
authentication in several styles, pagination, idempotent payments, rate limits,
conditional requests, uploads, simulated failures. An administrator can set the
data, or the authentication state, back to a known start at any time.

This directory holds TLA+ modules that model the stateful parts and a request's way
to them, TLC configurations that check them on small instances, and proofs checked by TLAPS.
Paths below are relative to the repository's `src/` unless they start with
`specs/`, which lies beside it.

    tlc -config MCSessions.cfg MCSessions      # one run
    tlapm SessionsProofs.tla                   # the proofs

## 1. Inventory

One process, one thread: a handler without `await` is atomic, and nearly all of
them are. What is *not* atomic is a client's conversation with the server (a
sequence of requests among other clients' requests, over a network that loses and
repeats), an upload (many chunks), the passing of time between requests, and the
two resets, which may fall between any two steps of anything.

| Component | State | Operations | What is hard | What makes it correct |
|---|---|---|---|---|
| In-memory stores (`data/keyedStore.ts`, `data/inMemoryStore.ts`) | a Map; `nextId` | create, replace, patch, remove, reset | ids after deletes and resets | an id is handed out once between resets |
| JWT sessions (`services/auth.service.ts`, `middleware/authenticate.ts`) | `sessionStore`: `revoked`, `currentRefreshJti` | login, refresh, logout, token, token-info, authenticate, reset | tokens outlive the session, expire, are replayed in any order | one redeemable refresh token per session; refused once is refused for ever; logout silences all tokens; no escalation |
| API keys (`services/apiKey.service.ts`, `middleware/apiKeyAuth.ts`) | `apiKeyStore` | issue, use, revoke, reset | revoke twice, revoke after expiry, use after reset | a key only loses standing |
| Users, customers, products, orders | four auto-numbered stores that refer to each other | POST, PUT, PATCH, DELETE, reset | no cascades, checks across stores, seeding order | e-mails unique; dangling links stay dangling; prices frozen at write time; reset gives the one known state |
| Posts, comments, reviews, categories | auto-numbered stores; mostly read-only | list, get, create post, create comment, reset | authors may be deleted; a reset gives all posts new ids | every comment in one thread; nobody inherits posts or orders; reset gives the one known state |
| Payments (`services/payment.service.ts`) | `paymentStore`, `idempotencyStore` | POST with `Idempotency-Key`, get, reset | lost answers, duplicates, two bodies racing for one key, resets | one payment per key; truthful, agreeing answers; every patient client is answered |
| Rate limiter (`services/rateLimit.service.ts`) | a counter and a window start per caller | GET, reset | window boundaries | quota per window, twice the quota over any span of a window's length, `Retry-After` is kept |
| Cache demo (`services/cache.service.ts`) | one resource, version, timestamp | conditional GET, PUT, reset | stale validators, writes in one millisecond | 304 is the truth; 200 only when needed |
| Files (`services/file.service.ts`, multer) | `fileStore`, `nextSequence` | upload (many steps), list, get, delete, reset | overlapping uploads, capacity checked at the end | capacity, listing order, no eviction, no traces of refused uploads |
| Flaky endpoint, scenarios (`services/flaky.service.ts`, `services/testScenario.service.ts`, `utils/seededRandom.ts`) | the state of one shared generator | `/flaky`, `/test?scenario=`, reset | all clients share one stream | reproducible after a reset; an index into a pool stays inside it |
| Listings and search (`services/listQuery.service.ts`, `services/search.service.ts`) | none, they read a store | parse the query, filter, sort, cut a page | rows come and go between two pages; repeated and invalid parameters | quiet walks see the listing; skips and repeats only for a reason |
| Admin resets (`services/admin.service.ts`) | all of the above | data reset, auth reset | fall anywhere | each module has its part |
| Roles, scopes, basic auth, admin token (`auth/scopes.ts`, `middleware/require*.ts`) | none, they judge a request | pass, 401, 403 | gates depend on their order and on the claims of the moment | a row changes only for a good token with the level of that resource; the registry tells the truth |
| Request pipeline (`app.ts`, `routes/*`, `middleware/errorHandler.ts`) | requests whose body is arriving | CORS, body, route, gates, handler, error answer | a body may take long; routers may hide one another; the prefix is configurable | every route is reached; redirects resolve; one answer for each error |
| Demos (status, delay, payload, content, cookies, headers), health, info, version, registry, configuration, OpenAPI | none | functions of the request | parameters at their edges | statuses and routes as listed |

Components interact by direct calls on shared stores (an order's service reads the
customer and product stores, seeders read the stores seeded before them), through
`admin.service`, which resets stores of all of them, through the one generator that
`/flaky` and the scenarios draw from, and through middlewares that put the session's
claims or the API key in front of a handler. `app.ts` puts all of it into one order. There are no callbacks between
components and no background jobs. Nothing is persisted: a restart is a reset of
everything, and is not modelled apart.

## 2. Modules

| Module | Models | Remarks |
|---|---|---|
| `Stores` | the two store classes, as operators on functions | a keyed store is a function from ids to records; an auto-numbered one is `[rows, next]`; `Sorted` is the order in which `Array.sort` leaves the rows of a listing |
| `StoresProofs` | | what the store operators return, what sorting a finite set gives, what sums and turns come to (lemmas) |
| `Sessions` | the `/auth` routes, `authenticate`, the session half of the auth reset | `issued` is every token ever handed out: any may be presented at any time, also after the reset |
| `SessionPromise` | what the `/auth` routes promise, without tokens, clock or store | `Sessions` implements it: property `KeepsPromise` |
| `SessionsProofs` | | the invariants and action properties of `Sessions`, and that it implements `SessionPromise`, proved |
| `ApiKeys` | issue, use, revoke, reset of API keys | `told`, the latest answer about each key since the reset, is a history variable |
| `CoreResources` | users, customers, products, orders: writes with all their checks, seeders, data reset | one record field per field that a check or another row depends on |
| `OrderPricing` | what the total of an order means, over the steps of `CoreResources` | `quoted`, what the catalogue asked for the items of each order when they were last given, is a history variable |
| `Catalog` | posts, comments, reviews, composed with `CoreResources`; the reset of both | extends `CoreResources`: its requests are steps of `Catalog` too, its reset is part of the larger one |
| `Payments` | `postPayment`, and the network and clients around it | a request can be taken and stay (a duplicate); answers are delayed, duplicated, lost |
| `Idempotency` | what `POST /payments` promises, without requests, network or stores | `Payments` implements it: property `KeepsIdempotency` |
| `PaymentsProofs` | | the safety properties of `Payments`, and that it implements `Idempotency`, proved |
| `RateLimit` | `checkRateLimit` on a millisecond clock | `granted`, the times at which a caller was let through, is a history variable |
| `CacheResource` | the cache resource and clients that keep copies | headers are the copy's own validator, garbage, or absent |
| `Files` | uploads by chunk, the store, the listing | `finished` is a history variable |
| `SeededFailures` | the shared stream and everything that draws from it | the stream is an arbitrary fixed sequence; `log`, `before` are history variables, and so is the `at` of their entries, the place in the stream |
| `PageWalk` | query strings, and a client that walks a listing or a search while others write | one collection with a field to filter by and one to sort by; for the search, the resource is the field that is sorted by first |
| `Credentials` | what every kind of credential promises: good from the start or never, and never again once not good | `Sessions` and `ApiKeys` implement it: `KeepsCredentials` in each |
| `Parameters` | every parser of a path parameter, roles, scopes and their levels | parsers are predicates on segments, numbers are compared with a table |
| `Controllers` | every exported handler: what it does to which store, its parser, its statuses | one record each |
| `Demos` | the tables of `/status`, `/errors`, `/test`; `errorHandler` | |
| `Routes` | every router, its gates, the order of `app.ts`, matching | `Route`, `LenientRoute` and `UnclosedRoute` are the three kinds of router in the code: strict with a 405, lenient with a 405, lenient without. Swagger UI is a route too, which takes everything at `/docs` and below |
| `Registry` | the list that `GET /routes` serves | |
| `Server` | a request from CORS to its answer, composed of the five above, with credentials, the core stores and both resets | each token has a session of its own |
| `Gatekeeper` | what the gates promise, without routes, requests or middlewares | extends `Credentials`; `Server` implements it: `KeepsGate` |
| `ShowcaseProofs` | | theorems about `RateLimit`, `SeededFailures` and `CacheResource`; it extends all three, hence `FlakySpec`, `CacheSpec` beside `Spec` |
| `ListingsProofs` | | theorems about `Files` and `PageWalk`; it extends both, hence `FilesSpec` |
| `ApiKeysProofs`, `ServerProofs`, `CatalogProofs` | | theorems about those modules; the last one also about `CoreResources` |
| `MC*` | small instances for TLC | |

Correspondence, the same in every module: a store is a variable of the store's name;
one action is one handler with every check and write it makes; a refusal (an
`HttpError` thrown) is an action of its own, or a disjunct, that leaves the stores
alone (and says so in `reply`, where the module has one); a 400/404/409 precedence in the code is the order of the
guards. `randomUUID` is the choice of an id not used before. The wall clock is a
variable that steps forward; it stands still or advances between any two requests.
A definition whose comment starts with "Mutant:" is a wrong version of the one below
it. Nothing uses it; it is there to be put in the place of the right one, to see
that the properties notice.

How the state of each module maps to the code, where the name does not say it:

- `Sessions.sessions[sid]` is the record of `sessionStore` without `sid` and
  `createdAt`. A token is a record of the claims the server reads (`jti`, `type`, `sid`,
  the triple `sub`, `role`, `scopes` as one value, `exp`) and whether its signature is
  sound. `verifyToken` fails in the order of the library: signature, expiry, type.
- `CoreResources`: prices and totals in cents; the rounding of `toFixed(2)` is left out.
- `Payments`: a body stands for all JSON texts that are equal up to the order of their
  keys, which is what `canonicalJson` hashes; `epoch` counts resets.
- `RateLimit.enabled`, `SeededFailures.flakyEnabled`: configuration, chosen once in `Init`.
- `Files`: sizes are in chunks. `uploads` is what multer's memory storage holds.
- `Server`: a request is a method, a path as segments, a proof of identity, a body and an
  origin. What happens before the body has arrived (CORS) and what happens after is one step
  each, since no middleware and no handler of these routes awaits anything else. `WayOf` is the
  path through `app.ts` up to the handler, `Answers` what the client may be told. `standing` is the
  abstraction of `sessionStore`, `apiKeyStore` and the clock that `Credentials` allows.
- `CacheResource`: the timestamp of the seed lies before the start of the server.

## 3. What the runs check

Twelve runs. The deadlock check is off in `MCServer.cfg` only, where `Server` may really
stop: in an instance in which all requests need what has expired, or all ids have been given,
nothing need be left to do.

| Run | Configuration | Checks | States (distinct) |
|---|---|---|---|
| `sessions` | `MCSessions` | rotation, no escalation, finality of refusal, single use, logout, and that `Sessions` implements `SessionPromise` | 71 thousand, up to symmetry |
| `sessions_info` | `MCSessionsInfo` | a disagreement, see section 6 | |
| `server` | `MCServer` | that `Server` implements `Gatekeeper`; the registry against the routers and the order of their gates; reachable routes; redirects | 11 thousand |
| `catalog` | `MCCatalog` | unique e-mails, dangling references, threads, orphaned posts and orders, the reset's one known state | 258 thousand |
| `core_orders` | `MCCoreOrders` | deleted ids stay gone; an order costs what its items did when they were last given | 181 thousand |
| `payments` | `MCPayments` | one payment per key; answers agree with each other and with the store; `Payments` implements `Idempotency`; every purchase is answered eventually | 10 thousand |
| `rate_limit` | `MCRateLimit` | quota per window and over the seam of two windows; `Retry-After` | 750 thousand |
| `page_walk` | `MCPageWalk` | walks over a listing or a search that changes | 809 thousand |
| `files` | `MCFiles` | capacity, order, no eviction | 130 thousand, up to symmetry |
| `cache` | `MCCacheResource` | when 304 and 200 can be trusted | 100 thousand, up to symmetry |
| `api_keys` | `MCApiKeys` | a key only loses standing; what was said of a key holds until a reset | 2 thousand, up to symmetry |
| `seeded` | `MCSeededFailures` | reproducibility | 4 million |

Each module has a `TypeOK`. Where it is proved for every instance (section 4) the run does not
check it again.

What the properties say, in the words of the system:

- **Sessions.** `OneRedeemableToken`: of all the refresh tokens clients have hoarded, one at
  most would be accepted for a session. `RefusalIsFinal`: a token refused once by
  `authenticate` or by `refresh` is refused for ever; neither a refresh, nor a
  logout, nor a reset, nor time brings one back. `RedeemedOnce`, `LogoutSilencesSession`
  (also with an access token older than the last refresh), `ClaimsFollowSession`.
- **Core resources.** `DanglingIsFinal`: deletes do not cascade, but what dangles never starts
  to denote a new row. `GoneStaysGone`: a repeated DELETE cannot hit a later row.
  `PricedWhenWritten`: the total of an order is what its items cost when a request last gave them, whatever
  happened to the products, to other orders and to its other fields since.
- **Catalog.** `ThreadsAddUp`: the threads under `/posts/:id/comments` make up all comments, though a
  reset replaces the id of every post. `NobodyInherits`: a user created after another was deleted
  does not become the author of that one's posts, nor get its orders listed. `ResetRebuildsCatalog`: whatever was
  damaged, in the core or above it.
- **Payments.** `OnePaymentPerKey`, `AnswersAgree` (two answers of success under one key name the
  same payment, in whatever order they arrive), `AnswersHold` (an answer is true until a
  reset), `KeepsIdempotency` (every purchase is charged exactly once in each life of the data,
  and whatever a client may hear, a confirmation or a refusal, was true of the life it was said in), `EveryPurchaseAnswered`.
- **Rate limiter.** `WindowQuota`, `SeamQuota` (a fixed window lets a burst of twice the limit
  through, and no more), `RetryAfterIsKept` (waiting it out is enough, and it is not a
  whole second too long).
- **Page walks.** `QuietWalkIsTheListing` (against a definition without sorting or slicing, for the last of
  repeated parameters),
  `NothingSkippedUnlessRemoved`, `NothingRepeatedUnlessInserted`; of a search as of a listing.
- **Files.** `CapacityIsKept` although the check comes long after the request began;
  `ListedNewestFirst` under overlap, deletes and resets; `OnlyDeleteRemoves`.
- **Cache.** `NotModifiedIsTrue`, with the one exception the millisecond makes (section 6);
  `FullOnlyWhenNeeded`: nobody fetches twice what it has.
- **API keys.** `StandingOnlyWorsens`: once handed out a key never regains a standing it lost. `LastWordHolds`:
  what a client was last told of a key stays true until a reset, whatever is asked and revoked in between.
- **Server.** `KeepsGate`: in whatever order tokens are issued, expire, are given up or forgotten and
  bodies arrive, a core row is written or deleted only for a token that is good in that very step and
  has the scope of that resource at that level. `AnswersFitRegistry`: a request is answered
  401 if and only if it lacks the authentication `GET /routes` lists for it, 403 if and only if it
  lacks the role or scope, and where none is listed it gets to its handler, whoever asks.
  `requireScope` and `requireRole` read `req.auth` unchecked and throw (500) if no `authenticate` stands before
  them, so the property also fails for a router that forgets it.
  `EveryRouteReached`: no router hides another, except for the prefixes named there.
  `RedirectsResolve`: a client that follows a redirect demo arrives at the demo of 200.
- **Simulated failures.** `SameRequestsSameOutcomes` across a reset.

### Bounds, and why they suffice

- `sessions`: two sessions, five token ids (login, refresh, refresh again leaves one for a
  convenience token), two claims (either may
  log in), a clock of three values with access life 1 and
  refresh life 2, so that access tokens expire before refresh tokens. Ids are
  symmetric. Every property is about two tokens of one session, or one token and one step.
- `catalog`, `core_orders`: one or two seeded rows per store and ids for one or two more:
  enough to delete a row and create the next, to link, and to collide on two e-mails.
  `catalog` has no order writes, `core_orders` one user; their services share no check.
  Three UUIDs: one post seeded, and two resets, two more posts, or one of each.
- `payments`: two purchases racing for one key with two bodies, a third that is never valid, three
  messages in flight, four payment ids, one reset. A violation takes two answers under one key,
  or an answer and a store. The network never keeps a client from sending: when it is full,
  it loses a message.
- `server`: two tokens (one may read users and delete orders, the other may write
  users) and one key; every kind of route, gate and error among the requests: in range, past
  the end, `01`, an empty and an undecodable segment, HEAD, OPTIONS, 405, 404, an unlisted
  origin, bodies that fail in each way. One slow body at a time: requests under way do not
  see each other, only the state they are judged by. Two ids per store: a row to delete and
  one to create. Prefixes: the default one, one that ends in a slash, a lone slash, the
  name of a meta endpoint with a parameter, `/api-key`, and one below `/docs`; CORS open and with a list.
- `rate_limit`: two callers, limit 2, window 3 ms, and a "second" of 2 ms, so that the window
  is no multiple of it and rounding shows; clock to 7, which is more than two windows.
- `page_walk`: pages of 2 and three ids: one page turn, a partial last page, an exact
  one; ties in both directions. Two resources to search, all, one or none of whose rows match. Each edge of the parser once: defaults, 0, 101, no number, an
  unknown sort field, a bad value before a good one and after.
- `files`: three uploads at once into a store of two, files of 0 to 2 chunks, four ids.
- `cache`: two clients, versions to 4, three milliseconds, one reset.
- `seeded`: streams of three draws from the extremes of [0, 1), rates 0, 1/2 and 1, three
  requests before and after a reset.

### Fairness

Only `payments` needs any, for `EveryPurchaseAnswered`. `WF(Resend)`: a client that waits repeats its request, which
is what the `Idempotency-Key` is for. `SF(Handle)` and `SF(HearAbout)`: a request or an
answer sent again and again is not lost every time. The server's own part is the
weak one: Node takes a request that has arrived, the handler is synchronous and ends in
exactly one response. The strength is needed for the network, which may lose a message
between any two steps. These are assumptions about clients and network, not about the
code. Everything else is safety and needs no fairness.

## 4. What is proved

`StoresProofs` proves what `Put`, `Update`, `Drop` return for every store.
`SessionsProofs` proves, for every set of session and token ids, any claims, lifetimes and clock:

| Theorem | Statement |
|---|---|
| `Invariance` | `Spec => []IInv` |
| `TypeCorrect` | `Spec => []TypeOK` |
| `NoEscalation` | `Spec => []ClaimsFollowSession` |
| `Rotation` | `Spec => []OneRedeemableToken` |
| `Finality` | `Spec => RefusalIsFinal` |
| `SingleUse` | `Spec => RedeemedOnce` |
| `LogoutIsComplete` | `Spec => LogoutSilencesSession` |
| `Refinement` | `Spec => KeepsPromise` |

The inductive invariant is
`IInv == TypeOK /\ SessionsWereIssued /\ JtiIsUnique /\ ClaimsFollowSession`.
`SessionsWereIssued` (every session in the store has a token in some client's hands) is
needed because freshness of a session id is freshness among the tokens: without it a
login might overwrite a session of the store. `JtiIsUnique` is what turns "the token
whose jti is the current one" into a single token. `OneRedeemableToken` then follows
from `IInv` in every state. The action properties rest on one lemma,
`SessionsOnlyWane`: a step may end a session's life but never begin one for tokens
already out, may make a session's current refresh token only one that was minted in this step,
and never sets the clock back.

The refinement needs one more conjunct, `CurrentWasIssued`: the refresh token a session
accepts was handed out for that session. With it, and with `JtiIsUnique`, the tickets of
two sessions differ, so closing one does not touch the other's. Each handler that changes
something has an `...Effect` lemma (what it does to the store and to the tokens) and a
`...Maps` lemma (the step of the promise it is): login is `Open`, a convenience token is `Open`
without a ticket or `OpenClosed`, refresh is `Redeem`, logout and reset are `Close`, and
everything else is a stutter.

`PaymentsProofs` proves, for any keys, bodies, purchases, seed and bounds:

| Theorem | Statement |
|---|---|
| `Invariance` | `Spec => []IInv` |
| `TypeCorrect` | `Spec => []TypeOK` |
| `PaidOnce` | `Spec => []OnePaymentPerKey` |
| `Agreement` | `Spec => []AnswersAgree` |
| `Truthfulness` | `Spec => []AnswersHold` |
| `Refinement` | `Spec => KeepsIdempotency` |

`AnswersHold` and `AnswersAgree` are not inductive: they say nothing about how an answer came
about. `AnswersJustified` does: no answer is from the future, an answer of success of this life
of the data is the record of its key, a conflict is a record of another body. `MessagesPreserve`
then covers every step that leaves the server's data alone, `CreatePreserves` the one that
adds a payment, `ResetPreserves` the one that starts a new life, in which no answer is yet.

For the refinement, what was bought is the idempotency store, the charges are the payments
beyond those of the seed, and what may be heard is what the answers on the network say. The two stores are written one after the other by the handler; that the number of
payments and the number of keys grow together is what `CreateBuys` shows. `AnswerTells` covers every answer
that makes no purchase (a replay, a conflict, a refusal): it is a truth about the store as it is.
`ResetForgets` is the reset, and the network's steps only lose or repeat what was said
(`StepKeeps` puts them together).

`CatalogProofs` proves, for every seed, every set of inputs and every bound:

| Theorem | Statement |
|---|---|
| `CoreInvariance`, `CatalogInvariance` | `Spec => []CoreInv`, `CatalogSpec => []CatalogInv` |
| `GoneForGood` | `Spec => GoneStaysGone` |
| `EmailsStayUnique` | `CatalogSpec => []EmailsUnique` |
| `ThreadsStayWhole` | `CatalogSpec => []ThreadsAddUp` |
| `DanglingStays` | `CatalogSpec => DanglingIsFinal` |
| `NoInheritance` | `CatalogSpec => NobodyInherits` |
| `CoreTypeCorrect`, `CatalogTypeCorrect` | `Spec => []TypeOK`, `CatalogSpec => []CatalogTypeOK` |
| `PricesStand` | `PricingSpec => []PricedWhenWritten` (`OrderPricing`) |
| `ResetRestores` | `CatalogSpec => ResetRebuildsCatalog` |

The invariant is about numbers: the rows of a store lie below its `next`, and every link lies below
the `next` of the store it points into, whether its row is still there or not
(`CustomersPointBack`, `OrdersPointBack`, `AuthorsPointBack`). Both are needed because
deletes do not cascade: from the rows present one cannot tell which ids were ever named. Each
handler has a lemma; `Grows` (at most one more row, under the old `next`) is what all of them have
in common, and the three action properties follow from it and from the links. `SeedFacts` and
its neighbours show that a reset starts the invariant anew: a seeded link names a seeded row.

Types and prices rest on sums. The code adds an order's lines from left to right, the
property states the sum of the catalogue in any order, and both are folds: functions that are chosen
because they satisfy an equation. `FoldExists` shows that there is such a function, `FoldFacts` that what it
computes does not depend on which member is taken first, `FoldsAgree` that two of them agree
(`StoresProofs`, all by the smallest set that would do otherwise). `CostFacts` then gives what
the modules need: the total is a natural number, and it is the catalogue's.

`ResetRestores` rests on turns: what a reset seeds, it seeds by taking authors, posts and products
in turn, so the n-th post is by author `(n - 1) % UserCount + 1` (`InTurnFacts`). `SharedOutEvenly` shifts the
posts of one author into those of another, but for the first post if that one started earlier; the
arithmetic is in `SameRound` and `RestFacts`.

`ApiKeysProofs` proves, for any set of keys, and `SessionsProofs` of access tokens:

| Theorem | Statement |
|---|---|
| `ApiKeysProofs`: `TypeCorrect`, `LastWord`, `OnlyWorse` | `[]TypeOK`, `[]LastWordHolds`, `StandingOnlyWorsens` |
| `ApiKeysProofs`: `KeysAreCredentials` | `Spec => KeepsCredentials` |
| `SessionsProofs`: `TokensAreCredentials` | `Spec => KeepsCredentials` |

`TypeOK /\ LastWordHolds` is inductive, because the store knows only keys that were handed
out: a fresh key is fresh for the store too, so issuing it makes nothing untrue that was said of another.

`ShowcaseProofs` proves, for any callers, limit, window and length of a second; any stream,
rates and number of draws; any clients, contents and bounds:

| Theorem | Statement |
|---|---|
| `TypeCorrect` | `Spec => []TypeOK` (`RateLimit`) |
| `WindowQuotaKept`, `SeamQuotaKept` | `Spec => []WindowQuota`, `Spec => []SeamQuota` |
| `RetryAfterKept` | `Spec => []RetryAfterIsKept` |
| `FlakyTypeCorrect`, `OutcomesRepeat` | `FlakySpec => []FlakyTypeOK`, `FlakySpec => []SameRequestsSameOutcomes` |
| `CacheTypeCorrect`, `NotModifiedTruth`, `NoNeedlessTransfer` | `CacheSpec => []CacheTypeOK`, `[]NotModifiedIsTrue`, `[]FullOnlyWhenNeeded` |

- Rate limiter: a quota is about all that was granted, a counter about one window. The invariant
  joins them: what was granted in the window of the counter is the counter, up to the limit
  (`WindowQuota`), and the span of a window's length before it saw no more than the limit
  (`QuotaBefore`; also when windows are far apart). A span over the seam lies in the two together:
  twice the limit (`QuotaAnywhere`).
  The lemmas count positions of a sequence of times: `WiderCountsMore`, `SplitCounts`,
  `OneMoreCounts`. `RetryAfterKept` rests on `RoundedUp`, what `Math.ceil` of a quotient is.
- Seeded failures: `IsLife` says of a log that each entry's outcome is the one its request has at
  its place in the stream, and that the place is where the entry before it stopped drawing.
  The log since the reset and the one before are both such lives (`NextAnswerAgrees`), so equal
  requests so far are equal places.
- Cache: `Faithful` makes the two properties of answers inductive. A copy of this life of the
  resource is no newer than it, and with the same version it is the same; a copy from before a reset
  has another epoch, and none is from the future.

`ListingsProofs` proves, for any uploads and both limits of `Files`; for any collection, query
string, field values and number of rows of `PageWalk`:

| Theorem | Statement |
|---|---|
| `FilesTypeCorrect`, `CapacityKept` | `FilesSpec => [](FilesTypeOK /\ LaterIsHigher)`, `FilesSpec => []CapacityIsKept` |
| `NewestFirst` | `FilesSpec => []ListedNewestFirst` |
| `NothingEvicted` | `FilesSpec => OnlyDeleteRemoves` |
| `PageWalkInvariance`, `PageWalkTypeCorrect` | `Spec => []IInv`, `Spec => []TypeOK` |
| `QuietWalk` | `Spec => []QuietWalkIsTheListing` |
| `NothingSkipped`, `NothingRepeated` | `Spec => []NothingSkippedUnlessRemoved`, `Spec => []NothingRepeatedUnlessInserted` |

- Files: the capacity is compared in the very step that stores, so uploads under way do not
  matter. `LaterIsHigher` (of two stored files the later has the higher sequence) also needs that
  no sequence exceeds the counter, which is part of `FilesTypeOK`.
- Sorting: `Sorted(S, ComesFirst)` is a sequence of the members of `S` in which of any two the one
  that comes first stands first. `StoresProofs` shows for any strict total order on a finite set that
  there is one, and that each member is in it once, right after those before it in the order
  (`SortedFacts`); `EveryOrderOrders` shows that each of the query's orders, with its ties, is one.
- Page walks: a row has a place in the listing, the number of rows `Ahead` of it. A page is the
  rows with places from `Reached` on, `Reached` being the sizes of the pages before. Undisturbed,
  the rows seen are those whose places were reached (`SeenIsListed`); `UnseenIsAhead`: as long as
  nothing is deleted, a row that was there from the start and has not been seen has its place still
  before the client, since a row created can only push it back; `SeenIsBehind` is the same for rows
  seen, which a deletion can only pull forward. `DeletePreserves` and `CreatePreserves` are the two
  steps that move places.

`ServerProofs` proves, for any tokens, keys, claims, contents, seeds, prefixes and any set of
requests:

| Theorem | Statement |
|---|---|
| `TypeCorrect` | `Spec => []TypeOK` |
| `GateKept` | `Spec => KeepsGate` |
| `RoutesReached` | `Spec => []EveryRouteReached` |
| `RedirectsLead` | `Spec => []RedirectsResolve` |
| `RegistryTold` | `Spec => []AnswersFitRegistry` |

The argument for the gates has three parts. `WayFacts`: a request that passes is taken by a route of one of
the routers, at an entry of its method, and all gates of the entry let it pass. `AllTables`: in
every router, an entry whose handler changes a core resource stands behind `authenticate` and
`requireScope` with that resource's write scope, or execute scope for a delete. `ScopeFacts`: `requireScope`
passes only a good token whose scopes reach that level of that resource. Together they are `Gatekept`, which
`GateStep` applies to each action: a create or an overwrite is `Write`, a delete `Delete`, the
data reset `Restore`, and everything that happens to credentials is a step of `Credentials`.
`AllTables` is where the code's 34 routers are compared with the promise, one by one; a route added
without its gate would make it fail.

The other three are facts about the tables, for every prefix and path, not just the ones the run
tries; `TypeCorrect` only brings in that the configuration is one of `Configs`.

- Routes: `Owner` names for each path the one router that may take it, told from a few of its
  segments. That each of the 34 routers `Owns` the paths its routes match, and that no two of its
  routes match one path, is proved router by router (`HealthTable` and its neighbours; `AllMeta`,
  `AllApi`). Then the first router that takes a path is the only one (`FirstIs`), and the order of
  `app.ts` matters only between the meta endpoints and the API. `MetaPath` describes the paths
  of the former, `MetaUnderPrefix` finds which paths of the API look like them: one segment
  after `/delay`, `/payload`, `/content` or `/files`, and `/api-key/protected`. Those are hidden
  (`ShadowedFacts`), and so is the whole API below `/docs` (`BehindDocsFacts`, by `PlacedDocs`);
  everything else is reached (`ClearFacts`). A lemma fails if a route is added
  that hides another.
- Redirects: the target is the prefix as it is written, so with a slash at the prefix's end it has
  an empty segment, which `app.use` forgives (`BelowSlash`); under a lone slash there is no
  segment before it, hence the exception. Below `/docs` there is no demo to be redirected by.
- Registry: `Backed` says of an entry of the inventory that some router has a route of that
  pattern and method whose gates are those that the listed authentication stands for (`Honest`), with
  a handler behind them that gives neither 401 nor 403 of its own (`Harmless`). It is proved of each
  entry (`RegistryBacked`), except for the two in `GivingUp`. `ListedKept` takes a request that fits
  an entry to that very route, `GuardedAnswer` works out what the gates answer in their order (`AuthenticatedFacts`: behind
  `authenticate`, `req.auth` is set), and `OpenPasses` that without gates nobody is stopped.

Strings are compared, never taken apart, so these proofs use of a segment only which string it
is; the provers have trouble with the empty one, hence the name `Blank` for it.

The composition is by abstraction: `Sessions` and `ApiKeys` are each proved to implement
`Credentials`, and `Server` uses of a credential only what `Credentials` says, so that it need not
carry refresh tokens, jtis and clocks.

Assumptions: the named ones in the modules (lifetimes are positive, null is not an id, demo
claims are claims, the seed fits the bound on drawn ids) and those of the modelling: ids are never drawn twice, the clock
does not go backwards, signatures cannot be made by clients.

Model-checked only: the liveness property of `Payments` (`EveryPurchaseAnswered`), for liveness under
fairness is beyond the prover. Every other property of a passing run is a theorem.

## 5. What is left out, and why

- What the demos send (payloads, content in its formats, cookies, headers, health figures), the timer of
  a delay and the OpenAPI documents. They keep no state; their routes, parameters and statuses
  are in `Server`.
- Request ids, logging, the raw body, the start and stop of the process, the parsing of the
  environment.
- Path matching without regard to case, percent-encoding but for segments that cannot be decoded,
  and queries: Express and `URL` do them. A path is a sequence of decoded segments; an
  `API_PREFIX` with doubled slashes in it is left out (`ConfigAssumption`).
- Two requests of one connection: Node may read them in one go, but each is a step of its own.
- The generator's arithmetic (`utils/seededRandom.ts`): the stream is any fixed sequence.
- Floating-point rounding of totals; formatting and parsing of dates, e-mails, file names.
- List, weak and `*` forms of `If-None-Match`: Express and its `fresh` decide about them.
- A wall clock that is set back, and collisions of random ids.
- Fields that no check reads and no other row depends on.
- The contents of categories: a fixed table, and products name only its rows.
- Restart: a new process is a new behaviour that starts in `Init`.

## 6. Where the documents and the code disagree

Checked, with a run that shows it: `RevokedStaysRevoked` (`sessions_info`).
`getTokenInfo` calls a token "valid" if its session is *absent* from the store, while
`authenticate` refuses it as revoked. So a revoked token shows as "revoked", then, after
`POST /admin/auth/reset`, as "valid", though it is accepted nowhere.
`specs/005-jwt-auth-roles-scopes/spec.md` FR-017 asks for one consistent answer.

Met while modelling, reflected in the actions, and stated by no run:

- Access tokens from before a refresh stay valid until they expire;
  `specs/005-jwt-auth-roles-scopes/data-model.md` says only the latest is.
- A data reset sets the cache resource's version back to 1, so an ETag from before the
  reset may later name other content (`specs/008-resilience-simulation/research.md`
  says the validator is always accurate). Hence "between two resets" in `CacheResource`.
- A PUT in the very millisecond of the previous write does not invalidate
  `If-Modified-Since` of the older answer. Hence the exception in `NotModifiedIsTrue`.
- Uploads under way are held in memory whatever the store holds, so memory is not bounded by
  file count times file size, as `specs/009-files-api/spec.md` asks.
- `controllers/apiKey.controller.ts` says a revoke answers 200 whether or not the key exists;
  it answers 404 for an unknown key and 401 without one (`RevokeRefused`).
- A failure scenario without `failureRate` draws a number all the same
  (`FailureScenario(NoRate)`), and so shifts everybody's later outcomes;
  `specs/010-error-simulation-scenario-endpoint/plan.md` says no randomness is consulted.
- A path segment that cannot be decoded (`/users/%E0`) is an error of Express that `errorHandler` does not know
  and answers with 500; `specs/002-core-crud-resources/spec.md` (112) asks for 400 when an identifier is
  malformed (`StopOf`).
- `specs/004-status-code-playground/research.md` says the redirect's target "always resolves" under any
  `API_PREFIX`. With the prefix `/`, which `config/env.schema.ts` accepts, it is `//status/200`, which
  names a host. Hence the exception in `RedirectsResolve`.
- With the prefix `/files` (or `/delay`, `/payload`, `/content`), `GET /files/users` is taken by
  `GET /files/:id`; with the prefix `/api-key`, `GET /api-key/protected` is not the protected
  resource of the API but the API-key demo. With the prefix `/docs`, or one below it, Swagger UI
  (`app.use`d by `openapi/index.ts` before the API) answers every path of the API.
  Hence the exceptions in `EveryRouteReached`.
- `GET /routes` lists the paths of the default prefix whatever `API_PREFIX` is. Hence
  the condition in `AnswersFitRegistry`.

## 7. What could come next

The plan of this project (each stateful part, its composition behind the gates, abstract
specifications with refinements, proofs of the parts clients depend on) is carried out. Worth adding:
abstract specifications of the rate limiter (a log of grants and a quota) and of the files (a bounded
bag in order of arrival), and those modules shown to implement them as `Sessions` and `Payments` do theirs.
