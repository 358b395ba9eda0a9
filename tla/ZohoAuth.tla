------------------------------ MODULE ZohoAuth ------------------------------
(***************************************************************************)
(* src/auth/zoho-auth.ts: the OAuth token cache.  getAccessToken() serves  *)
(* a cached token, asks the user's onTokenRetrieve hook for one, or        *)
(* refreshes; concurrent refreshes of a key share one promise; the cache   *)
(* evicts its oldest key.                                                  *)
(*                                                                         *)
(* A step is the code between two awaits.  Each caller makes one call of   *)
(* getAccessToken(); a refresh goes by the name of the caller that began   *)
(* it, and the token it obtains by the name of the refresh.  A token the   *)
(* hook finds in the user's store from an earlier run goes by its key.     *)
(***************************************************************************)
EXTENDS Integers, SequencesExt, FiniteSets

CONSTANTS Callers,
          Keys,          \* cache keys
          EmptyKey,      \* the key '', in Keys or not
          None,
          MaxCached,     \* max(1, maxCachedTokens)
          Retriever,     \* whether onTokenRetrieve is configured
          MayInvalidate  \* bound: whether the application drops cached tokens

ASSUME AuthAssumption ==
  /\ Callers \cap Keys = {}
  /\ None \notin Callers \cup Keys
  /\ MaxCached \in Nat \ {0}
  /\ Retriever \in BOOLEAN /\ MayInvalidate \in BOOLEAN

Tokens == Callers \cup Keys

VARIABLES tokenCache,       \* per key, a token or None
          cacheOrder,       \* keys, oldest first
          refreshPromises,  \* per key, the refresh in flight or None
          activeControllers,\* refreshes whose request close() can abort
          closed,
          pc, key, waits, got,  \* per call: where it is, its key, the refresh
                                \* it awaits and the token it returned
          rpc,              \* per refresh: where it is
          aborted,          \* refreshes whose controller close() has aborted
          expired,          \* tokens that isTokenValid() turns down
          issued            \* history: tokens in the order Zoho issued them

vars == <<tokenCache, cacheOrder, refreshPromises, activeControllers, closed,
          pc, key, waits, got, rpc, aborted, expired, issued>>
calls == <<pc, key, waits, got>>

Failures == {"closed", "auth", "hook"}
CallPoints == {"idle", "retrieving", "waiting", "token"} \cup Failures
InFlight == {"requesting", "body", "hook", "listeners", "returning", "throwing"}
RefreshPoints == {"none", "resolved", "rejected"} \cup InFlight

Owner(t) == IF t \in Keys THEN t ELSE key[t]
IsTokenValid(t) == t # None /\ t \notin expired
Cached(cache) == {k \in Keys : cache[k] # None}

\* indexOf(k); splice(i, 1) is RemoveAt(cacheOrder, i).
IsIndexOf(i, k) == cacheOrder[i] = k /\ \A j \in 1 .. i - 1 : cacheOrder[j] # k
Listed(k) == \E i \in DOMAIN cacheOrder : cacheOrder[i] = k

-----------------------------------------------------------------------------
(* setToken(), bumpCacheKey() and evictIfNeeded().                         *)

\* evictIfNeeded() shifts n keys off `order', with `size' tokens cached.  The
\* key '' is falsy: shifting it ends the loop like an empty order does.
EvictsOne(order, size, n) ==             \* mutant: off by one
  n = IF size > MaxCached + 1 THEN 1 ELSE 0
Evicts(order, size, n) ==
  /\ n > 0 => size - (n - 1) > MaxCached
  /\ \A i \in 1 .. n - 1 : order[i] # EmptyKey
  /\ \/ n > 0 /\ order[n] = EmptyKey
     \/ size - n <= MaxCached
     \/ n = Len(order)

\* The cache and the order after setToken(k, t).
SetToken(k, t, cache, order) ==
  IF tokenCache[k] # None
  THEN /\ cache = [tokenCache EXCEPT ![k] = t]
       /\ \/ \E i \in DOMAIN cacheOrder :
               IsIndexOf(i, k) /\ order = Append(RemoveAt(cacheOrder, i), k)
          \/ ~Listed(k) /\ order = cacheOrder
  ELSE LET pushed == Append(cacheOrder, k)
           filled == [tokenCache EXCEPT ![k] = t]
       IN \E n \in 0 .. Len(pushed) :
            /\ Evicts(pushed, Cardinality(Cached(filled)), n)
            /\ order = SubSeq(pushed, n + 1, Len(pushed))
            /\ cache = [j \in Keys |->
                          IF \E i \in 1 .. n : pushed[i] = j /\ j # EmptyKey
                          THEN None ELSE filled[j]]

-----------------------------------------------------------------------------
Init ==
  /\ tokenCache = [k \in Keys |-> None]
  /\ cacheOrder = <<>>
  /\ refreshPromises = [k \in Keys |-> None]
  /\ activeControllers = {}
  /\ closed = FALSE
  /\ pc = [c \in Callers |-> "idle"]
  /\ key \in [Callers -> Keys]
  /\ waits = [c \in Callers |-> None]
  /\ got = [c \in Callers |-> None]
  /\ rpc = [c \in Callers |-> "none"]
  /\ aborted = {}
  /\ expired = {}
  /\ issued = <<>>

Becomes(c, point) == pc' = [pc EXCEPT ![c] = point]

Returns(c, t) == /\ Becomes(c, "token")
                 /\ got' = [got EXCEPT ![c] = t]
                 /\ UNCHANGED <<waits, rpc, refreshPromises, activeControllers>>

Fails(c, why) == /\ Becomes(c, why)
                 /\ UNCHANGED <<got, waits, rpc, refreshPromises, activeControllers>>

\* refreshAccessToken(), and performRefresh() up to its request.
JoinRefresh(c) ==
  /\ Becomes(c, "waiting")
  /\ waits' = [waits EXCEPT ![c] = refreshPromises[key[c]]]
  /\ UNCHANGED <<got, rpc, refreshPromises, activeControllers>>

BeginRefresh(c) ==
  /\ Becomes(c, "waiting")
  /\ waits' = [waits EXCEPT ![c] = c]
  /\ rpc' = [rpc EXCEPT ![c] = "requesting"]
  /\ refreshPromises' = [refreshPromises EXCEPT ![key[c]] = c]
  /\ activeControllers' = activeControllers \cup {c}
  /\ UNCHANGED got

RefreshAlways(c) ==                      \* mutant: refreshes not coalesced
  IF closed THEN Fails(c, "closed") ELSE BeginRefresh(c)
RefreshUnlessClosed(c) ==                \* mutant: no closed check
  IF refreshPromises[key[c]] # None THEN JoinRefresh(c) ELSE BeginRefresh(c)
RefreshShared(c) ==                      \* mutant: one promise for all keys
  IF closed THEN Fails(c, "closed")
  ELSE IF \E k \in Keys : refreshPromises[k] # None
  THEN /\ Becomes(c, "waiting")
       /\ \E k \in Keys : /\ refreshPromises[k] # None
                          /\ waits' = [waits EXCEPT ![c] = refreshPromises[k]]
       /\ UNCHANGED <<got, rpc, refreshPromises, activeControllers>>
  ELSE BeginRefresh(c)
RefreshAccessToken(c) ==
  IF closed THEN Fails(c, "closed")
  ELSE IF refreshPromises[key[c]] # None THEN JoinRefresh(c)
  ELSE BeginRefresh(c)

\* The end of getAccessToken(): the cache is read again.
Serve(c, cache) ==
  IF IsTokenValid(cache[key[c]]) THEN Returns(c, cache[key[c]])
  ELSE RefreshAccessToken(c)

\* getAccessToken() up to its first await.
GetAccessToken(c) ==
  /\ pc[c] = "idle"
  /\ IF closed THEN Fails(c, "closed")
     ELSE IF ~IsTokenValid(tokenCache[key[c]]) /\ Retriever
     THEN /\ Becomes(c, "retrieving")
          /\ UNCHANGED <<got, waits, rpc, refreshPromises, activeControllers>>
     ELSE Serve(c, tokenCache)
  /\ UNCHANGED <<tokenCache, cacheOrder, closed, key, aborted, expired, issued>>

\* What the store may hold for a key: tokens kept from an earlier run, or by
\* onTokenRefresh.
InStore(k) ==
  {k} \cup {t \in Callers : /\ key[t] = k
                            /\ rpc[t] \in {"hook", "listeners", "returning", "resolved"}}

\* onTokenRetrieve has answered.  Nothing is checked but the answer: not
\* whether auth was closed, nor whether the cache has been filled meanwhile.
Retrieved(c) ==
  /\ pc[c] = "retrieving"
  /\ \/ \E t \in InStore(key[c]) :
          /\ IsTokenValid(t)
          /\ SetToken(key[c], t, tokenCache', cacheOrder')
     \/ UNCHANGED <<tokenCache, cacheOrder>>
  /\ Serve(c, tokenCache')
  /\ UNCHANGED <<closed, key, aborted, expired, issued>>

RetrieveThrows(c) ==
  /\ pc[c] = "retrieving"
  /\ Fails(c, "hook")
  /\ UNCHANGED <<tokenCache, cacheOrder, closed, key, aborted, expired,
                 issued>>

-----------------------------------------------------------------------------
(* performRefresh() from its request on.                                   *)

RefreshTo(r, point) == rpc' = [rpc EXCEPT ![r] = point]

\* The request is rejected: the network failed, or the timeout or close()
\* aborted its controller.
\* Whatever the reason, ClientClosedError included, callers get an AuthError.
RequestFails(r) ==
  /\ rpc[r] = "requesting"
  /\ RefreshTo(r, "throwing")
  /\ activeControllers' = activeControllers \ {r}
  /\ UNCHANGED <<tokenCache, cacheOrder, refreshPromises, closed, calls,
                 aborted, expired, issued>>

\* From here on neither the timeout nor close() reaches the refresh.  The
\* response may also have arrived just before the abort.
ReleaseController(r) == activeControllers \ {r}

HeadersArrive(r) ==
  /\ rpc[r] = "requesting"
  /\ RefreshTo(r, "body")
  /\ activeControllers' = ReleaseController(r)
  /\ issued' = Append(issued, r)
  /\ UNCHANGED <<tokenCache, cacheOrder, refreshPromises, closed, calls,
                 aborted, expired>>

\* The body was an error, not JSON, or not a token.
BodyIsRefused(r) ==
  /\ rpc[r] = "body"
  /\ RefreshTo(r, "throwing")
  /\ UNCHANGED <<tokenCache, cacheOrder, refreshPromises, activeControllers,
                 closed, calls, aborted, expired, issued>>

\* The body was a token, possibly one too short-lived to be served from the
\* cache.  onTokenRefresh is called and awaited.
BodyIsToken(r) ==
  /\ rpc[r] = "body"
  /\ RefreshTo(r, "hook")
  /\ expired' \in {expired, expired \cup {r}}
  /\ SetToken(key[r], r, tokenCache', cacheOrder')
  /\ UNCHANGED <<refreshPromises, activeControllers, closed, calls, aborted,
                 issued>>

\* onTokenRefresh throws: the callers fail although the token is cached.
HookThrows(r) ==
  /\ rpc[r] = "hook"
  /\ RefreshTo(r, "throwing")
  /\ UNCHANGED <<tokenCache, cacheOrder, refreshPromises, activeControllers,
                 closed, calls, aborted, expired, issued>>

HookReturns(r) ==
  /\ rpc[r] = "hook"
  /\ RefreshTo(r, "listeners")
  /\ UNCHANGED <<tokenCache, cacheOrder, refreshPromises, activeControllers,
                 closed, calls, aborted, expired, issued>>

\* The listeners have run; what they throw is swallowed.
ListenersRun(r) ==
  /\ rpc[r] = "listeners"
  /\ RefreshTo(r, "returning")
  /\ UNCHANGED <<tokenCache, cacheOrder, refreshPromises, activeControllers,
                 closed, calls, aborted, expired, issued>>

KeepPromise(k) == refreshPromises                \* mutant: no finally
ForgetPromise(k) == [refreshPromises EXCEPT ![k] = None]

ThenOnly(r) ==                                   \* mutant: then() for finally()
  /\ rpc[r] = "returning" /\ RefreshTo(r, "resolved")
  /\ refreshPromises' = ForgetPromise(key[r])
  /\ UNCHANGED <<tokenCache, cacheOrder, activeControllers, closed, calls,
                 aborted, expired, issued>>

\* The finally() of refreshAccessToken().
Finally(r) ==
  /\ \/ rpc[r] = "returning" /\ RefreshTo(r, "resolved")
     \/ rpc[r] = "throwing" /\ RefreshTo(r, "rejected")
  /\ refreshPromises' = ForgetPromise(key[r])
  /\ UNCHANGED <<tokenCache, cacheOrder, activeControllers, closed, calls,
                 aborted, expired, issued>>

\* A caller resumes with what the refresh it awaited came to.
Resume(c) ==
  /\ pc[c] = "waiting"
  /\ \/ rpc[waits[c]] = "resolved" /\ Returns(c, waits[c])
     \/ rpc[waits[c]] = "rejected" /\ Fails(c, "auth")
  /\ UNCHANGED <<tokenCache, cacheOrder, closed, key, aborted, expired,
                 issued>>

-----------------------------------------------------------------------------
(* The application, and time.                                              *)

KeepOrder(k, order) == order = cacheOrder        \* mutant: splice forgotten
DropFromOrder(k, order) ==
  \/ \E i \in DOMAIN cacheOrder : IsIndexOf(i, k) /\ order = RemoveAt(cacheOrder, i)
  \/ ~Listed(k) /\ order = cacheOrder

InvalidateToken(k) ==
  /\ MayInvalidate
  /\ tokenCache' = [tokenCache EXCEPT ![k] = None]
  /\ DropFromOrder(k, cacheOrder')
  /\ UNCHANGED <<refreshPromises, activeControllers, closed, pc, key, waits,
                 got, rpc, aborted, expired, issued>>

ClearTokenCache ==
  /\ MayInvalidate
  /\ tokenCache' = [k \in Keys |-> None]
  /\ cacheOrder' = <<>>
  /\ UNCHANGED <<refreshPromises, activeControllers, closed, pc, key, waits,
                 got, rpc, aborted, expired, issued>>

AbortNone == aborted                           \* mutant: cleared, not aborted
AbortActive == aborted \cup activeControllers

Close ==
  /\ ~closed
  /\ closed' = TRUE
  /\ aborted' = AbortActive
  /\ activeControllers' = {}
  /\ tokenCache' = [k \in Keys |-> None]
  /\ cacheOrder' = <<>>
  /\ refreshPromises' = [k \in Keys |-> None]
  /\ UNCHANGED <<calls, rpc, expired, issued>>

\* A token comes within five minutes of its end.  Stored tokens matter only
\* where they can be retrieved.
Expire(t) ==
  /\ t \notin expired
  /\ IF t \in Keys THEN Retriever ELSE \E i \in DOMAIN issued : issued[i] = t
  /\ expired' = expired \cup {t}
  /\ UNCHANGED <<tokenCache, cacheOrder, refreshPromises, activeControllers,
                 closed, calls, rpc, aborted, issued>>

RefreshStep(r) == \/ RequestFails(r) \/ HeadersArrive(r) \/ BodyIsRefused(r)
                  \/ BodyIsToken(r) \/ HookThrows(r) \/ HookReturns(r)
                  \/ ListenersRun(r) \/ Finally(r)
CallStep(c) == Retrieved(c) \/ RetrieveThrows(c) \/ Resume(c)

Next == \/ \E c \in Callers : GetAccessToken(c) \/ CallStep(c)
        \/ \E r \in Callers : RefreshStep(r)
        \/ \E k \in Keys : InvalidateToken(k)
        \/ ClearTokenCache
        \/ Close
        \/ \E t \in Tokens : Expire(t)

Spec == Init /\ [][Next]_vars

\* Requests and bodies end, by the timeouts if not otherwise; hooks return.
FairSpec == Spec /\ \A c \in Callers : WF_vars(CallStep(c)) /\ WF_vars(RefreshStep(c))

-----------------------------------------------------------------------------
(* Properties.                                                             *)

TypeOK ==
  /\ tokenCache \in [Keys -> Tokens \cup {None}]
  /\ cacheOrder \in Seq(Keys)
  /\ refreshPromises \in [Keys -> Callers \cup {None}]
  /\ activeControllers \subseteq Callers
  /\ closed \in BOOLEAN
  /\ pc \in [Callers -> CallPoints]
  /\ key \in [Callers -> Keys]
  /\ waits \in [Callers -> Callers \cup {None}]
  /\ got \in [Callers -> Tokens \cup {None}]
  /\ \A c \in Callers : /\ pc[c] = "token" => got[c] # None
                        /\ pc[c] = "waiting" => waits[c] # None
  /\ rpc \in [Callers -> RefreshPoints]
  /\ aborted \subseteq Callers
  /\ expired \subseteq Tokens
  /\ issued \in Seq(Callers)

\* The eviction order lists every cached key once and nothing else, however
\* fills, evictions, invalidations and close() interleave; only the key '' may
\* be cached and not listed.
OrderMatchesCache ==
  /\ \A i, j \in DOMAIN cacheOrder : cacheOrder[i] = cacheOrder[j] => i = j
  /\ \A i \in DOMAIN cacheOrder : tokenCache[cacheOrder[i]] # None
  /\ \A k \in Cached(tokenCache) \ {EmptyKey} :
       \E i \in DOMAIN cacheOrder : cacheOrder[i] = k

\* The cache holds at most maxCachedTokens tokens, whichever mixture of fills
\* and invalidations its order has been through; a token of the key '', which
\* eviction cannot drop, comes on top.
CacheBounded == Cardinality(Cached(tokenCache) \ {EmptyKey}) <= MaxCached

\* At any time one refresh per key is under way, also across close(), which
\* forgets the promises.
SingleFlight ==
  \A r, s \in Callers : /\ rpc[r] \in InFlight /\ rpc[s] \in InFlight
                        /\ key[r] = key[s]
                        => r = s

\* A refresh in flight is found by later calls for its key until auth closes,
\* so that they join it, and none is found that is over.
PromisesAreInFlight ==
  /\ \A k \in Keys : refreshPromises[k] # None =>
       rpc[refreshPromises[k]] \in InFlight /\ key[refreshPromises[k]] = k
  /\ ~closed => \A r \in Callers : rpc[r] \in InFlight => refreshPromises[key[r]] = r

\* A key's callers get tokens that were obtained for that key: neither the
\* sharing of refreshes nor the eviction mixes keys up.
TokensStayWithTheirKey ==
  /\ \A k \in Cached(tokenCache) : Owner(tokenCache[k]) = k
  /\ \A c \in Callers : got[c] # None => Owner(got[c]) = key[c]

\* close() can stop every request it finds: a request in flight has a
\* controller that is registered or already aborted, and after close() it is
\* the latter.
RequestsAreStoppable ==
  /\ \A r \in Callers : rpc[r] = "requesting" =>
       r \in activeControllers \/ r \in aborted
  /\ \A r \in activeControllers : rpc[r] = "requesting"
  /\ closed => activeControllers = {}

\* No request goes out after close().
NoRefreshAfterClose ==
  [][closed => \A r \in Callers : rpc[r] = "none" => rpc'[r] = "none"]_vars

\* Without a retriever, a cached token gives way only to one issued later.
IssuedBefore(s, t, order) ==
  \E i, j \in DOMAIN order : i < j /\ order[i] = s /\ order[j] = t
NewestTokenStays ==
  [][\A k \in Keys : tokenCache[k] # None /\ tokenCache'[k] \notin {None, tokenCache[k]}
       => IssuedBefore(tokenCache[k], tokenCache'[k], issued')]_vars

\* Every call of getAccessToken() comes back.
EveryCallReturns ==
  \A c \in Callers : pc[c] \in {"retrieving", "waiting"} ~>
                     pc[c] \in {"token"} \cup Failures

\* src/auth/zoho-auth.ts:87: the cached token is dropped "so the next call
\* forces a refresh": a call that finds no token cached does not come to wait
\* for a refresh that has already had its token cached, and dropped.
MissForcesRefresh ==
  [][\A c \in Callers :
       pc[c] = "idle" /\ tokenCache[key[c]] = None /\ pc'[c] = "waiting"
         => rpc[waits'[c]] \notin {"hook", "listeners", "returning"}]_vars
=============================================================================
