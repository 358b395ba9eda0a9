# A formal model of the Zoho CRM SDK

TLA+ modules, TLC runs and TLAPS proofs for the TypeScript SDK in `src/src/`
(`@zoho-crm/sdk`). Paths below are those of the repository, with `src/` in
front as in `PROJECT.json`; short names such as `zoho-auth.ts:158` are files of
`src/src/`.

Contents: [inventory](#1-the-system), [modules and code](#2-modules-and-code),
[runs](#3-runs), [fairness](#4-fairness), [proofs](#5-proofs),
[where code and documents disagree](#6-where-code-and-documents-disagree),
[what is left out](#7-not-modelled), [plan](#8-plan).

## 1. The system

A `ZohoCRM` client (or one of the smaller clients of `entry/`) owns one
`ZohoAuth`, one `HttpClient`, one or two `RateLimiter`s and a `PluginManager`,
and hands the HTTP client to the record modules. Everything runs on one
JavaScript thread: what interleaves is the code between two `await`s of
concurrent calls, timers, the callbacks the application supplies, and Zoho.

A request passes through these parts in turn:

    application -> module -> HttpClient.request()
                               |  RateLimiter.schedule()      wait for a slot
                               |  PluginManager.runBeforeRequest
                               |  ZohoAuth.getAccessToken()   may refresh
                               |  undici request / body       may time out
                               |  PluginManager.runAfterResponse / runOnError
                               '- retry after a backoff

`close()` of the client closes limiters, auth and HTTP client in that order,
synchronously up to the dispatcher, at any moment of any of the above.

| Part | State it keeps | Operations | What makes it correct |
|---|---|---|---|
| Rate limiter, `rate-limiter.ts` | `queue`, `timestamps`, `timer`, `processing`, `closed` | `schedule`, `close`, the drain loop, its timer | never more than `maxRequestsPerInterval` in an interval; first come, first served; every caller answered once; nothing admitted after `close()` |
| Token cache, `auth/zoho-auth.ts` | `tokenCache`, `cacheOrder`, `refreshPromises`, `activeControllers`, `closed` | `getAccessToken`, `invalidateToken`, `clearTokenCache`, `close`, a refresh in its seven stages | one refresh per key at a time; the cache bounded, its order in step with it; keys never mixed up; requests stoppable; every call returns |
| HTTP client, `http/http-client.ts` | `activeControllers`, timeouts, `closed`, per call: attempt, abort signal | `request`, `requestRaw`, `close`, timeouts | bounded, non-overlapping sends; no retry after an answer; controllers and timers released on every path; calls settle; `close()` ends them |
| Plugins, `plugins.ts`, `use`/`removePlugin` of `zoho-crm.ts` and `entry/base-client.ts` | map of plugins, four arrays of hooks | `use`, `removePlugin`, `registerHooks`, `removeHooks`, four kinds of run | hooks run in order, once, whichever of them throws; none left of a plugin that was removed or failed to install, unless other calls for it overlapped |
| Bulk reads, `modules/bulk.ts` | per iteration: job, status, stream, decoder, buffer | `iterateBulkRead` | all records, whole, in order, once; no stream left open; polling ends |
| Client, `zoho-crm.ts`, `entry/*` | extensions, the parts above | constructor, `use`, `registerModule`, `registerMethod`, `close` | `close()` fails or closes every part; a call made by a hook does not wait for itself while the token stays; the SDK's own keys stay |
| Record modules, query builder, webhooks, `modules/*` | none | calls translated into requests | the request says what the call said; a configuration that is let through has its declared type, but for what the checks do not look at |
| Validation, field mapping, errors, `validation/`, `utils/`, `errors/` | none | pure functions | a response passes if and only if it conforms; renaming keeps records and values |
| Observability, flags, compatibility | once-only warnings | logging, audit, metrics | nothing shows that only covered keys lead to; what is open shows |
| Legacy v1 SDK, `src/lib/js` | the current user and the configuration, in globals; a table of tokens | `initialize`, `setUserIdentifier`, `generateAuthTokens`, `generateAuthTokenfromRefreshToken`, requests | tokens keep to their user; a saved token is found |
| Framework packages, `src/packages` | none | adapters | out of the core |

Hard to get right, and hard to test: user callbacks that re-enter the limiter
while it drains; the single timer that all waiting requests depend on; a wall
clock set back; two structures (cache and order, promises and refreshes) kept
in step by hand; a timeout or `close()` between any two stages of an exchange;
arrays changed under a running iterator; chunks that end inside a character;
hooks that call the client which awaits them; `close()` whose callbacks run the
application between two parts; a global user read anew at every step of a call.
`PROJECT.json` lists these hazards with the line at which each bites and the
properties that cover it.

## 2. Modules and code

| Module | Models | Abstracts to |
|---|---|---|
| `AdmissionControl` | what a limiter promises | a line of callers, grants with times |
| `RateLimiter` | `rate-limiter.ts`, all of it | implements `AdmissionControl` |
| `ZohoAuth` | `auth/zoho-auth.ts` | |
| `RetryingCalls` | what the HTTP client promises about its sends | idle, ready, out, over |
| `HttpClient` | `http/http-client.ts` | implements `RetryingCalls` |
| `Plugins` | `plugins.ts` and the functions that install and remove plugins | |
| `BulkRead` | `iterateBulkRead()` and NDJSON splitting in `modules/bulk.ts` | |
| `Client` | the parts put together: `zoho-crm.ts`, `entry/base-client.ts`, `entry/bulk.ts` | each part as far as the others notice it |
| `LegacySDK` | `lib/js`: `ZCRMRestClient`, `OAuth`, `util`, `mysql/mysql_util` | |
| `Schema` | the combinators of `validation/schema.ts`, `normalizeValidationOptions()`, `applyValidationFeatureFlags()` | |
| `Parsing` | `validateSchema()` of `validation/schema.ts`, parser by parser | `Conforms`, `UnknownKeys` of `Schema` |
| `Records` | `validation/schemas.ts`, the field maps of `types/` | |
| `FieldNames` | `utils/field-mapping.ts` | |
| `Inputs` | `utils/input-validation.ts`, the checks in `modules/webhooks.ts` and `modules/bulk.ts`, parameters in `modules/base.ts` and `modules/leads-query.ts` | the types of `types/bulk.ts` and `types/webhooks.ts` |
| `Criteria` | `buildCriteria()` and `escapeCriteriaValue()` of `modules/leads-query.ts` | the values of the clauses |
| `Redaction` | `redactMeta()` of `logger.ts`, `redactAuditContext()` of `audit.ts`, entry by entry | `Visible` |
| `Algorithms` | one choice of an input: for one of the pure functions, for `Redaction`, `Criteria` or `Parsing` | |

`MC...` modules give TLC the values of constants that a `.cfg` cannot write.
`...Proofs` modules hold the theorems. Comments that begin with `mutant:` mark
operators that exist to be put in the place of the definition under them: each
is a plausible bug, and the property named for it in `PROJECT.json` fails with
it. The specifications do not use them.

**RateLimiter.** JavaScript code is atomic up to its next callback. The
variable `stack` is the call stack: one frame per activation of the limiter
that is inside a callback of the application (`onQueueChange`, `onWarning`) or
inside the drain loop, with the place it continues from. While the innermost
frame is a callback, the application may call `schedule()` or `close()`, which
push frames of their own, or return, or throw; what a throw unwinds (the
promise executor of `schedule()`, the microtask, the timer) is decided by
`HookThrows`. `real` is the clock of timers and of an observer, `now = real -
skew` is `Date.now()`. `log` and `real` are history: the code does not have
them, the properties speak about them. Work (`entry.fn()`) starts in a
microtask (`jobs`), as in `Promise.resolve().then(() => entry.fn())`.

**ZohoAuth.** Each caller makes one call; a caller that starts a refresh also
owns it, so `rpc[c]` is the program counter of the refresh begun by `c`:
requesting, body, hook (`onTokenRefresh`), listeners, returning (the token is
there, `finally` has not run), over. Tokens carry who obtained them, so that
mixing up keys shows; a stored token (`onTokenRetrieve`) is named by its key.
`EmptyKey` is the cache key `''`, which `evictIfNeeded()` takes for no key at
all.

**HttpClient.** The program counter `phase` runs through limiter, hooks, token,
wire, hooks. What the limiter, auth and hooks answer is a choice. `undici` is
modelled from its use: a closed dispatcher refuses, an aborted signal rejects
the request or the read (no headers come to a request that was aborted). `timed` says which calls have a timeout; `stage` of
`RetryingCalls` is computed from `phase`.

**Plugins.** One array of hooks stands for the four, which are alike and
independent. A run keeps the iterator's index, as `for ... of` does over an
array that is spliced or pushed to meanwhile. `keys` and `extensions` are the
properties of the client object and its set of that name; `Build` is the end of
the constructor of a small client, which sets keys of its own (`leads`, `bulk`)
after `super()` has installed the plugins of the configuration. `cutOff`
(plugins that were unregistered while another call for them was installing), `expects` and
`stable` are history. Nothing is required of `uninstall()`: it is optional, may take back any of the
modules and methods that are there, and may throw; the plugin is unregistered regardless. `filter()` in
`removeHooks()` is written by rank (the n-th entry that stays), from which it can be
proved that the order stays.

**BulkRead.** A page is a text, a sequence of characters of one or two bytes;
`Blank` are those that `trim()` drops, the newline among them, and `IsJson`
the texts that `JSON.parse()` takes. A chunk ends behind a character or
`halfway` in one, and `decoder` says whether `TextDecoder` has kept the half;
one that does not turns it into `Junk`. The records of an export are defined by
the places where they start, not by splitting it. Zoho's job, the order of its
pages and its streams are the environment.

**Client.** `phase` is where a call is: in the line of a limiter, in its
`beforeRequest` hooks, waiting for the token, with it, on the wire. A download
waits in the bulk limiter first and in the API limiter then. `maker` says
whose hook made a call: a hook returns when the calls it made have been
answered. There is one refresh for all calls, as the HTTP client only uses the
default cache key; its last phase, `hooks`, is `onTokenRefresh` and the
listener that runs the plugins' hooks. The cached token may go at any time, also while these run (it was issued for too short,
expires, is invalidated, or the cache is cleared); `lost` is the history of that. `thread` is the callback of a limiter in
which `close()` is interrupted: the application may start calls there, and an
error it throws ends `close()` at that point. A limiter grants a slot at any
time, and an exchange has one attempt: what `RateLimiter` and `HttpClient` show
of these is not repeated.

**LegacySDK.** A token is the name of the user it was issued to, which is all
that the properties tell apart. A statement is built, with the user in it, one
step before the database runs it, where the code awaits the connection between
the two; the other awaits are steps of their own. The table is a function from the
calls that inserted a row (one row may be from an `Earlier` run of the program); `SELECT`
has no `ORDER BY`, so the "first" row may be any of the user's. `calm` and `orderly` are
history: whether the global user ever changed under a call, and whether tokens
were ever saved for another than the current user, or twice at once.

**Redaction.** The recursion of `redactValue()` is a stack of frames, an object and
its next entry each, and an action is one turn of the loop over the entries. `level` is the
set of the objects visited; the depths in it are history. Objects are nodes of a `heap`, an input: they
may share or contain each other. `Visible` says what may show without
going through anything in an order: the leaves at the end of some way of open keys that is short enough.
Hashed and masked values count as covered.

**Criteria.** The text of a search is written piece by piece, and a reader who has nothing but the text
takes each piece as it comes. Its grammar is the one the escaping is meant for: a backslash takes the meaning of
a delimiter away. A value that is no string is not escaped: what `String()` makes of it
is its text.

**Schema, Parsing.** A parse is a stack of activations of `_parse()`, and an action is one of them being
called, going on to a part, or returning. The contexts in use are a stack too: those below an activation's own belong
to unions around it. A parser reads its verdict off its context, in which the issues of everything
parsed before it are as well. `Conforms` and `UnknownKeys` say what a schema means without any of this. They are
recursive functions over the pairs of a schema and a value, of the sets `Schemas` and `Data`, which have the parts of what they have:
`SchemaAssumption` says so, that a schema is one of the kinds the combinators make, and that no shape names a key which every object
inherits (none of `validation/schemas.ts` does).

**Records, Inputs.** A record is a function from names to values. `Joined` is the spreading of one object over another. Configurations are records of the
same kind, so that one definition, `Conforms`, says what it means to have a type, and the types of `types/bulk.ts` are
written as schemas (`BulkReadJobConfigType`), like those of `types/webhooks.ts` (`WebhookConfigType`). `MethodIsDeclared` and
`DefaultIsDeclared` say of the two parts that the checks do not look at whether they have theirs. An
index into the map of `mapRecord()` finds what every object inherits as well, so that a field called `constructor` is renamed
to the text of a function (`SourceText`).

**Algorithms.** A behaviour chooses one input: a record, a configuration or the options of a list, with
which it stops, or an input of `Redaction`, `Criteria` or `Parsing`, which then goes on. The invariants compare the function, written as the code
computes it, with a definition that says what it is for.

## 3. Runs

Every run that passes is exhaustive for its constants.

| Run | Question | Constants, and why they are enough |
|---|---|---|
| `limiter_hooks` | do the rate limit and `close()` hold when callbacks re-enter and throw and the clock is set back? | 4 requests for 2 slots per interval of 2, a queue of 2 with a warning at 2 and entries that expire after 1: full, warned, expired, admitted and waiting entries all occur, two intervals follow each other; `MaxDepth` 2 lets a callback re-enter the activation it interrupted; `MaxSkew` 1 sets the clock back by half an interval |
| `limiter_live` | is every call answered, is work done once, does the limiter implement `AdmissionControl`? | 3 requests for 1 slot: one admitted, one waiting, one in front of a full queue; `MaxLate` 1: timers that fire late; time ends at 10, after the last possible admission, so a call without an answer is stuck and not cut off |
| `auth_cache` | do cache, order, promises and controllers stay consistent? | 3 callers, 3 keys for a cache of 1, one key `''`: two callers share a key while a third evicts, in every order with invalidation, expiry, clearing and closing; with `''` cached a fill evicts two keys, its own among them |
| `auth_retriever` | are keys kept apart and calls answered with a retrieve hook? | 2 callers, 2 keys, a cache of 1: same and different keys, stored tokens that are valid, expired or missing |
| `http` | are sends bounded and ordered, and do calls end? | one `request()`, one `requestRaw()`, a limiter, one retry; timeouts on either, both or none. The two calls share only `closed` and the dispatcher, so more calls add no interleaving that the two do not show; a second retry repeats the first |
| `plugins` | are hooks run in order and completely, and removed, and do the client's keys stay its own? | 2 plugins, 3 `use()`, 1 `removePlugin()`, 4 registrations of hooks, 1 name to register freely and 1 that the constructor sets later, 1 run (runs do not affect each other): reinstallation after removal, overlapping installations of one name, installations that fail, `uninstall()` that leaves names behind, removal under an iterator that stands before, at and behind the hooks removed |
| `bulk` | do all records come through, whole and in order? | exports of 1 to 3 pages out of 4 texts (blank and CRLF lines, no final newline, a broken line, an empty page), every way of cutting each into chunks, polling with a late timer; a record is a character of one byte and one of two, so chunks end in a record, in a character and in front of a newline |
| `client` | do `close()`, hooks that call the client and downloads through two limiters get along? | 1 call, 1 download, 2 calls by hooks (a hook of a hook's call, or two hooks of one), 2 calls of `close()`, every set of limiters, callbacks that return or throw: calls before, in and after each callback of `close()`; the token goes at any time |
| `algorithms` | do the pure functions do what they are for? | schemas and values of depth two with two items or keys, as contexts are handed on from one item to the next and no further, unions in objects and the reverse, every combination of options (`MCSchemas` and `MCData` are these with all their parts, and what is compared of records and configurations); records of two fields (Zoho's, camel-case, unknown and inherited names), as renaming can only confuse two; configurations with two keys changed, among them methods and default values of other types; searches for two values of two characters each, among them all delimiters, strings or not; every graph of three objects to log with at most 2, 2 and 1 entries, so shared, nested and circular ones, an object on an open and a covered way, on a short and a long one, and a limit of 2 |
| `legacy` | do tokens keep to their user? | 2 users, 2 requests, 2 grants: a request between any two steps of a grant and the reverse; 3 changes of the user: away, back and to the configured one |
| `auth_invalidate`, `http_timeout` | does the code do what a document says? | it does not: section 6 |

Bounds that are in the modules, not in the code: `MaxDepth` (nested
callbacks), `MaxSkew`, `MaxLate`, `LastArrival` and `MaxTime` in `RateLimiter`,
`MaxHooks` in `Plugins`, `MaxPages` in `MCBulkRead`, `MaxSwitches` in `LegacySDK`
(changes of the user); `DepthLimit` in `Redaction` is 6 in the code; and each caller, request,
call, `use()` or run is made once. Deadlock is checked in `limiter_live`,
where `Over` marks the rightful end; in `http` it says nothing, because `close()` can
always be called again. Elsewhere the system stops when its finitely many calls
have been made.

The properties, in a sentence each, are in the comments above their
definitions. Those that are about more than one part of the state:

- `RateLimited`: by a clock that only advances, any `Cap + 1` consecutive
  admissions span an interval. The code computes with `Date.now()`; a clock set
  back only delays. (Set forward it would break the limit: left out, because
  by the wall clock itself the limit still holds.)
- `NoLostWakeup`: whenever no code of the limiter runs and something waits, a
  timer is armed. The drain loop relies on it at `rate-limiter.ts:106`.
- `SingleFlight` and `PromisesAreInFlight`: promises are found if and only if
  their refresh is in flight, until `close()` forgets them; there is never a
  second refresh for a key.
- `OrderMatchesCache`, `CacheBounded`: the hand-kept order and the cache.
- `RetryingSpec`: a call is sent at most `maxRetries + 1` times, never twice at
  once, never after an answer that is not retried, never after `close()`.
- `UndisturbedRunsAreComplete`: a run under which nothing is removed calls
  every hook there was, including those behind one that throws.
- `YieldsAreExported`, `DoneIsComplete`: the n-th record that the consumer of a bulk read
  gets is the n-th of the export, whole, and it has got all if the iteration ends without an error.
- `ReturnedMeansClosed`: if a call of `close()` has returned, no limiter is
  open or has anybody waiting in it, auth and HTTP client are closed and nothing is on the wire,
  whatever was called from its callbacks and by whomever else it was called.
- `NoSelfWait`: a hook that is told of a new token may call the client. The
  token is cached before the hooks run, so that neither this call nor one made by its
  `beforeRequest` hooks waits for the refresh that waits for them, unless the token has gone
  meanwhile. Then it does wait (section 6), and `EveryCallSettles` says that this is the only way in
  which a call stays without an answer.
- `NoOrphans`: a hook belongs to a plugin in the map, or to one that was unregistered
  while another call was installing it. What fails or overlaps otherwise leaves no hook.
- `CoreStays`: the names plugins have taken are exactly those of the set
  `extensions`, and none of them is one that the constructor sets later.
- `ParseAgrees`: the verdict of the shared context is the one of `Conforms`, although a context also has the issues of
  what was parsed before; what an alternative of a union reports ends with it.
- `CamelRecordsConform`: a renamed record conforms if the record did, and every value that has no rival is found under the
  name the map has for it, under its own if the map has none, and under the text of a function if its name is an inherited one.
- `InputsAreTakenAsDeclared`: what the checks let through has the type of `src/types` exactly if the method of the
  webhook and the default values of field mappings have theirs; a query sends what `list()` sends exactly
  if no option is falsy and no order comes without a field.
- `NothingLeaks`, `TreesShow`: the set of visited objects goes through the whole traversal, so that an
  object is gone through on one of its ways only. Whichever it is, nothing shows by it that should not; that nothing is lost
  is true of trees only.
- `CriteriaReadBack`: no value of a search, whatever delimiters it has, ends its clause, begins another or runs
  on into the next.
- `TokensKeepToTheirUser`, `SavedOnce`: what the v1 SDK's reading of its global at
  every step still guarantees, and on which conditions.

## 4. Fairness

- `RateLimiter`: callbacks return, timers fire (at most `MaxLate` late),
  microtasks run and work ends: the JavaScript event loop, except for the last,
  which the HTTP client's timeout brings about unless it is configured as 0. `EveryCallSettles` is checked
  with callbacks that do not throw: one that throws in the drain loop leaves
  `processing` set for good (a hazard in the list; no document promises anything).
- `ZohoAuth`: every refresh and every waiting call takes its next step. The
  request has a timeout (`zoho-auth.ts:189`) and the body undici's `bodyTimeout`
  (line 207), 30 seconds if `requestTimeoutMs` does not say otherwise; a
  configured 0 switches both off and is excluded. Hooks are assumed to return. Callers need not call and tokens need not expire.
- `HttpClient`: the SDK's own steps and timers are fair. Zoho is not: an
  exchange is fair only once it has been aborted or refused. The body of a raw
  error response has no timer any more; undici's `bodyTimeout` ends it, which is
  set from the same `timeoutMs` (`http-client.ts:664`), 0 meaning none. Applications consume the raw bodies they get. `close()`
  returns when undici's `close()` does, hence the condition in `CloseEndsWork`.
- `Client`: limiters grant (`EveryCallSettles` of `limiter_live`), exchanges and
  refreshes end (`http`, `auth_retriever`; a timeout ends them unless it is
  configured as 0), callbacks return or throw, and so do hooks once the calls they made have been answered (one that
  waits for itself never does), the JavaScript thread
  goes on. Nothing makes an application call or close.
- `Plugins`, `BulkRead`, `LegacySDK`, `Redaction`, `Criteria`, `Algorithms`: no liveness is claimed, so
  no fairness is assumed. (In the v1 SDK a refused token leaves its caller
  waiting for ever.)

## 5. Proofs

The theorems hold for every value of the constants that satisfies the named
assumptions (`LimiterAssumption`, `AuthAssumption`, `HttpAssumption`,
`ClientAssumption`, `PluginAssumption`, `BulkAssumption`, `LegacyAssumption`,
`RedactionAssumption`, `CriteriaAssumption`, `SchemaAssumption`, `ResponseAssumption`,
`InputAssumption`), which say no more than the types of configuration values, that the sets of names are apart, and that a set of schemas or values has
what its members are made of; in
particular for any number of requests, callers, keys, retries, plugins, pages,
objects and nested callbacks. TLC checked each property first, and each strengthening that is not
obvious. Two conditions are stated with the theorems that need them, as constants of
the model: `~HooksMayThrow` (the application's callbacks return) and `~Retriever` (no
`onTokenRetrieve` is configured). Without them the properties are false, for reasons given below.

- **`RateLimiterProofs`.** `TypeCorrect`. `RateIsLimited`: `RateLimited` is not
  inductive, as an admission looks at `timestamps` and not at `log`. `RateInv`
  adds `Window` (the trimmed list is a suffix of the wall-clock times of all
  admissions, what has been trimmed lies at least an interval back) and `LogInPast`
  (no admission lies in the future, and at none was the wall clock
  further behind than it is now). `TrimKeepsWindow` and `AdmitKeepsRate` carry the argument.
  `ClosedStaysQuiescent`. `NoWakeupIsLost` (assuming callbacks do not throw):
  `WakeInv` says that where entries wait without a timer, some activation on
  the stack is in the drain loop or about to enter it and will come by. `RoomUnderCap`: a drain that finds
  room has admitted fewer than `Cap` in the interval.
  `OnlyWantedWork` (`WorkIsWanted`) and `ImplementsAdmissionControl`,
  the refinement `Spec => AdmissionSpec`, for callbacks that do not throw: one that throws out of `schedule()`
  tells the caller that the call failed and leaves its entry in the queue, whose work is then done
  for nobody. `PlaceInv` says that a request is in one place at a time: refused at the door by
  one activation, in the queue, announced by one activation, among the microtasks, or running, and
  in each of them unanswered. The refinement has a lemma for each kind of place a step changes.
- **`ZohoAuthProofs`.** `TypeCorrect`. `OneRefreshPerKey` and
  `PromisesTrackRefreshes` from `FlightInv`, which adds that a closed auth has
  no promises and that a call which has not got past its retrieve hook owns no
  refresh; after `close()` no refresh begins, so those in flight stay alone. `OrderAlwaysMatchesCache` from `Matches`, preserved by the
  three ways in which cache and order change (`RemoveAtKeys`, `DropMatches`,
  `SetTokenMatches`: eviction may remove any number of keys).
  `RequestsStayStoppable`: `RequestsAreStoppable` is inductive. `KeysAreNotMixedUp` from `KeysInv`, which adds
  that a caller waits only for a refresh of its own key; that joining
  keeps this is where `FlightInv` is needed. `NothingGoesOutAfterClose`, an action
  property. `CacheStaysBounded` from `OrderIsShort`: the order never grows beyond `maxCachedTokens`,
  and lists every cached key but perhaps `''` once (`OrderCounts`), so that its length
  bounds the cache. `CachedTokensGetNewer`, an action property, from `NewestInv`: when a refresh has its
  answer, what is cached for its key was issued before. It needs that no retriever is configured (a
  stored token has no place in the order of issue) and `FlightInv` (refreshes of a key do not overlap).
- **`HttpClientProofs`.** `TypeCorrect`, `RequestsStayStoppable`,
  `RetriesAreSpent`, and `ImplementsRetryingCalls`, the refinement: `Spec =>
  RetryingSpec`. The inductive invariant adds `Bookkeeping` (what
  attempt, status, failure and outcome can be in each phase) and `SendsCounted` (a call has been sent at most
  once per attempt begun); `RetryingStep` maps each action to one of the abstract
  module's or to a stutter.
- **`ClientProofs`.** `TypeCorrect`, `CloseClosesEverything` and
  `HooksWaitOnlyForALostToken` from `ClientInv`. It adds `Lines` (a call in
  the line of a limiter is there once, and its phase says so), `MakersWait` (a call that
  a hook made is pending only while that hook runs, so that calls of earlier
  refreshes are over when the next one ends), `TokenFirst` (while hooks are
  told of a token it is there, or has been lost since, or auth is closed) and `Shut` (what `close()` has
  got through, by the callback it is in). `CallKeepsInv` is the step of any
  call, `ClosesOnKeepsInv` any step of `close()`.
- **`PluginsProofs`.** `TypeCorrect`. `CoreKeysStay`: `CoreStays` needs that names that are
  registered are not among those set later, as the constructor overwrites what it finds.
  `RemoveHooksKeepsOrder` is the lemma about `filter()`: the places that stay, in their order, moved
  forward. `HooksHaveTheirPlugin` from `OrphanInv` (a plugin that is being installed
  is in the map or in `cutOff`). `RunsKeepTheOrder` from `OrderInv`: identities
  increase along the array, and what a run has called is older than all that lies ahead of its iterator; a
  splice moves hooks from ahead of the iterator to behind it, never the other way. `RunsAreComplete` from `CompleteInv`:
  a hook that was there when the run began has been called or lies ahead, while nothing is spliced out.
- **`BulkReadProofs`.** `TypeCorrect`. `StreamsAreDestroyed`. `PollingEnds` from `PollInv`:
  all polls but the first were slept for, and no sleep begins after the time is up.
  `RecordsComeInOrder` and `NothingIsLeftOut` from `RecordsInv`: a page in hand has two places `k <= m`,
  each behind a newline or at the beginning; the lines still to be gone through are the text from `k` to `m`, the
  buffer is the text from `m` to the last character that has come and has no newline, and as many records
  were yielded as start up to `k`. `ChunkIsDecoded` is where the decoder's memory matters; `LineStarts` and
  `RecordEnds` say that the first character of a line that is no white space starts its only
  record and that `trim()` cuts it where the definition does; `FlushGoesOn` is the loop over
  lines, from one record to the next.
- **`LegacySDKProofs`.** `TypeCorrect`. `TokensStayWithTheirUser` from `KeepInv`: while the global user changes
  only between calls, every request in flight is for it, and rows and tokens in hand are of the user they
  are for. `SavedTokensAreFound` from `SaveInv`: whoever inserts a row has deleted those of its user, or found none,
  and nobody else saves meanwhile.
- **`FunctionProofs`.** For `Redaction`: `TypeCorrect`. `NothingShowsThatIsCovered` from `StackInv`: the objects on the stack
  are a way of open keys from the root, no longer than the limit allows, so that what shows lies at the end of one.
  `TreesShowWhole` from `LevelInv` (an object was visited from one that holds it, one level
  higher, and the frames stand at the levels of their objects) and `DoneInv` (an open entry that a visited object has
  gone past shows, or was visited). In the end everything has been gone past, and `WaysAreVisited`
  follows a way down: in a tree an object is at the level of its place in the way, hence within the limit.
  For `Criteria`: `CriteriaTypeCorrect`, and `CriteriaKeepTheirValues` from `ReaderInv`: between clauses the reader waits
  for one, in a value it has read what was written of it; `ValueRead` is the lemma for which the escaping is there. For
  `FieldNames`: `RenamingKeepsValues`, for any map (the new names are the map's, the old ones and the texts of functions), and `RenamedFieldsAreFound`, for one that is one to one.
  For `Parsing`: `ParseTypeCorrect`, and `ResponsesAreJudgedRight` from `ParseInv`, for any schema and any value, of any depth:
  see below. For `Algorithms`: `RenamedRecordsConform` (`LeadsMatch`, `ContactsMatch`, `DealsMatch`: no two of a map's fields
  have one name in Zoho, and the schemas ask the same of a field under both its names; hence what a record's new
  name holds is what the schema asks for it, whichever of two rivals won it; no schema asks anything of the text of a function) and `InputsAreUnderstood` (`WebhooksAreTaken`,
  `CallbacksAreTaken`, `MappingsAreTaken`, `BulkReadsAreTaken`, `BulkWritesAreTaken`: key by key, a check is no
  weaker than the type, and where nothing is checked the declared type is what is missing, `DefaultsTake`; `SameParameters` for the options of `list()` and of a query).

The parse of a response. What an activation makes of its value depends on who calls it, what was parsed before and
what will be, so `ParseAgrees` says nothing until the end. `ParseInv` has these parts:

- `CallsInv`: an activation parses the part that the one below it is at, in the same context or, for an
  alternative, in the next one; `ContextInv`: there are as many contexts as the innermost needs.
- `IssueInv`: a context has no issues if and only if, in all activations that use it, everything gone past is
  right (`AllRight`: parts that were parsed conform, missing keys were optional). This is where the shared context
  becomes harmless: a parser that fails for what came before it is one whose caller fails for it anyway.
- `UnionInv`: alternatives gone past do not conform; `VerdictInv`: what the last alternative has returned says whether it
  conforms. It needs that an alternative has a context of its own, and only there anybody looks at the verdict on a part.
- `UnknownInv`: an unknown field was met in what the activations of the first context have gone past.
- `EndInv`: what is known when all have returned. `Returning` is the lemma for it and for every return.

There is a lemma per action. All of them use `Conforms` by its equation: the verdict on a schema and a value is
made of those on their parts. TLA+ defines a recursive function as some function that satisfies its equation, so the equation
holds only if there is one, which is usually shown by induction over the nesting of values. `ConformsIs` gets it without: the union of all sets of pairs
that are closed (each pair in them is judged right if the set is taken for the verdict) is closed itself and, as a
verdict on more parts is a verdict on more (`JudgesGrows`), also complete (`LargestIsSound`). `UnknownKeysIs` does the same for unknown keys
(`UnknownsGrow`, `LargestIsFounded`).

The library's induction theorems take an operator as a parameter, which the provers cannot
instantiate. Where the proofs need a least or a greatest number (`Least` in
`BulkReadProofs` and `FunctionProofs`, `Greatest`) they use `WFMin`, which speaks of sets.

Only model-checked: the liveness properties `EveryCallSettles`,
`EveryCallReturns`, `EveryRequestSettles` and `CloseEndsWork`, as liveness under
fairness and ENABLED are out of the prover's reach. `MissForcesRefresh` and `TimeoutsThrow` are false
of the code (section 6). Every other property of a run is a theorem: every invariant and every action property
of every run that passes, and both refinements.

## 6. Where code and documents disagree

Each of these has a run in which TLC finds the behaviour.

- `auth_invalidate`: after `invalidateToken()` the next call need not force a
  refresh (`zoho-auth.ts:87`): it may join one that is just ending and be
  given the token that was dropped. The same line lets a hook wait for itself: if the token is dropped, or expires, while
  `onTokenRefresh` or a plugin is told of it, a call that the hook makes and awaits joins the refresh
  that awaits the hook (`zoho-auth.ts:158`), and neither ends. `NoSelfWait` and `EveryCallSettles` in the run `client` are stated with this exception.
- `http_timeout`: a timeout while a 2xx body is read does not throw
  (`docs/failure-modes.md:5-7`); the call resolves with `data` undefined.

Seen while modelling and without a run of their own:

- Limiter: `docs/performance.md:19` offers `maxQueueWaitMs` to cap waiting; the age
  of an entry is looked at only when a slot is free for it (`rate-limiter.ts:115`).
- Auth: tokens that arrive during `close()` are cached after it
  (`zoho-auth.ts:275`; `docs/compliance.md:23` says the cache is cleared). A token of the cache key `''` is never
  evicted, so that the cache may hold one more than `maxCachedTokens` (line 349). The
  `ClientClosedError` of an aborted refresh reaches its caller wrapped in an
  `AuthError` (line 302).
- HTTP: `close()` cannot abort the read of a raw error body (`http-client.ts:768`).
  `docs/failure-modes.md:10-12` has a 2xx answer whose JSON is broken come back as `{ message: "<raw text>" }`; `readJsonSafely()`
  (line 989) asks for `text()` of a body that `json()` has consumed, which rejects, so that
  `data` is undefined. (With a test's mock whose body can be read twice it does what the document says.)
- Plugins: a hook of a plugin that stays is passed over by a run during which
  another plugin is removed (`plugins.ts:127`; `docs/plugins.md:72` has hooks run in order). Hooks that
  `install()` registers after a `removePlugin()` that did not wait for it stay
  (`zoho-crm.ts:292`). Modules and methods that a failed `install()` has registered, or an `uninstall()` has not taken back, stay and make
  the next `install()` fail (lines 271, 284).
- Client: `RateLimiter.close()` calls `onQueueChange` each time, so with a
  callback that always throws no `close()` reaches auth and HTTP client.
- Modules: with `advancedFilters` on, `listWithAdvancedFilters()` always
  throws, as its query has no clause (`modules/leads.ts:149`; the comment at line 136 promises
  a graceful fallback). `WEBHOOK_FIELD_MAP` is never used. A query drops page 0, which `list()` sends.
  A backslash in a search value is not escaped (`modules/leads-query.ts:223`), nor is anything in a value that is
  no string (line 230).
- Validation: `DealSchema` knows `name` and neither `dealName` nor `Contact_Name`,
  so that strict mode refuses the latter. `{mode: 'off'}` with the flag
  `strictTypeValidation: false` turns validation on. An inherited key such as
  `constructor` passes for known (`validation/schema.ts:225`). `docs/security.md:54` has webhook and bulk configurations validated: the method of a webhook may be
  any string (`modules/webhooks.ts:115`; `types/webhooks.ts:32` declares four verbs), and a
  mapping's `defaultValue` anything (`modules/bulk.ts:230`; `types/bulk.ts:64`).
- Field names: `docs/failure-modes.md:32` has unknown fields tolerated; one called `constructor` or `toString` comes out under the
  text of a function (`utils/field-mapping.ts:24`).
- Redaction: `audit.ts` has no list of keys that are always redacted, `logger.ts` has. An object
  that occurs twice without a cycle shows as `[circular]` the second time.
- v1 SDK: saving tokens for another user than the current one deletes the
  current user's row (`mysql/mysql_util.js:119`). `initialize(config)` goes on to the
  properties files after it has resolved, and their user wins. A refused token hangs its
  caller. `getRecycleBinRecords()` and `getPermanentlyDeletedRecords()` set
  `input.type` where `input.params.type` is read (`modules.js:38-66`). An empty
  `params` becomes the text `undefined` in the URL (`util.js:207`).

## 7. Not modelled

- The methods of the modules that translate a call into one request and its
  answer into a result; setters and listeners of auth; `listPlugins()` and other reads.
- Cryptography (webhook signatures), logging, audit records, metrics,
  telemetry: no effect on control, except that a sink which throws would (noted as a
  hazard). Metrics and log sinks are taken not to throw. Hashing and masking
  are taken to show nothing.
- Time in `Client`: at what rate requests are sent, as opposed to admitted
  (`http-client.ts:191`), is not asked; no document promises anything.
- Error texts and payloads; errors are kept apart only where the code does.
- v1 SDK: URLs and parameters of requests, the functions of its modules, and a
  database that fails (a callback throws, which ends the process).
- A wall clock set forward.
- `src/packages`, scripts, benchmarks, examples.

## 8. Plan

Done: 1 `RateLimiter` with `AdmissionControl`, 2 `ZohoAuth`, 3 `HttpClient`
with `RetryingCalls`, 4 `Plugins`, 5 `BulkRead`, 6 `Client`, 7 the pure
functions, 8 `LegacySDK`; 9 proofs of every safety
property of 1 to 6 and 8; 10 both refinements; 11 redaction, criteria and the parse of a response step by step; 12 proofs
about them, field names, records and configurations.

What would come next: an abstract token source per key that `ZohoAuth` implements, and an abstract stream of records that
`BulkRead` implements, as `RetryingCalls` is for `HttpClient`.
