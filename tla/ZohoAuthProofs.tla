--------------------------- MODULE ZohoAuthProofs ---------------------------
(* Proofs about ZohoAuth, for every value of its constants. *)
EXTENDS ZohoAuth, SequenceTheorems, FiniteSetTheorems, TLAPS

(***************************************************************************)
(* Type correctness.                                                       *)
(***************************************************************************)

\* splice(i, 1) takes one element out and keeps the others in their order.
LEMMA RemoveAtType ==
  ASSUME NEW order \in Seq(Keys), NEW i \in 1 .. Len(order)
  PROVE  /\ RemoveAt(order, i) \in Seq(Keys)
         /\ Len(RemoveAt(order, i)) = Len(order) - 1
         /\ \A j \in 1 .. Len(order) - 1 :
              RemoveAt(order, i)[j] = IF j < i THEN order[j] ELSE order[j + 1]
<1> DEFINE front == SubSeq(order, 1, i - 1)
           back  == SubSeq(order, i + 1, Len(order))
           N     == Len(order)
<1>1. N \in Nat /\ i \in 1 .. N /\ \A j \in 1 .. N : order[j] \in Keys
  BY ElementOfSeq, LenProperties
<1>2. /\ front \in Seq(Keys)
      /\ Len(front) = IF 1 <= i - 1 THEN (i - 1) - 1 + 1 ELSE 0
      /\ \A j \in 1 .. (i - 1) - 1 + 1 : front[j] = order[1 + j - 1]
  <2>1. \A j \in 1 .. i - 1 : order[j] \in Keys BY <1>1
  <2>2. 1 \in Int /\ i - 1 \in Int BY <1>1
  <2>3. QED BY <2>1, <2>2, SubSeqProperties
<1>3. /\ back \in Seq(Keys)
      /\ Len(back) = IF i + 1 <= N THEN N - (i + 1) + 1 ELSE 0
      /\ \A j \in 1 .. N - (i + 1) + 1 : back[j] = order[i + 1 + j - 1]
  <2>1. \A j \in i + 1 .. N : order[j] \in Keys BY <1>1
  <2>2. i + 1 \in Int /\ N \in Int BY <1>1
  <2>3. QED BY <2>1, <2>2, SubSeqProperties
<1> HIDE DEF front, back, N
<1>4. Len(front) = i - 1 /\ \A j \in 1 .. i - 1 : front[j] = order[j]
  BY <1>1, <1>2
<1>5. Len(back) = N - i /\ \A j \in 1 .. N - i : back[j] = order[i + j]
  BY <1>1, <1>3
<1>6. /\ front \o back \in Seq(Keys)
      /\ Len(front \o back) = Len(front) + Len(back)
      /\ \A j \in 1 .. Len(front) + Len(back) :
           (front \o back)[j] = IF j <= Len(front) THEN front[j] ELSE back[j - Len(front)]
  BY <1>2, <1>3, ConcatProperties
<1>7. Len(front \o back) = N - 1 BY <1>1, <1>4, <1>5, <1>6
<1>8. ASSUME NEW j \in 1 .. N - 1
      PROVE  (front \o back)[j] = IF j < i THEN order[j] ELSE order[j + 1]
  <2>1. CASE j < i
    BY <1>1, <1>4, <1>5, <1>6, <2>1
  <2>2. CASE j >= i
    <3>1. (front \o back)[j] = back[j - (i - 1)]
      BY <1>1, <1>4, <1>5, <1>6, <2>2
    <3>2. j - (i - 1) \in 1 .. N - i /\ i + (j - (i - 1)) = j + 1
      BY <1>1, <2>2
    <3>3. QED BY <1>1, <1>5, <2>2, <3>1, <3>2
  <2>3. j < i \/ j >= i BY <1>1
  <2>4. QED BY <2>1, <2>2, <2>3
<1>9. RemoveAt(order, i) = front \o back BY DEF RemoveAt, front, back, N
<1>10. QED BY <1>6, <1>7, <1>8, <1>9 DEF N

\* setToken() leaves a cache and an order.
LEMMA SetTokenType ==
  ASSUME TypeOK, NEW k \in Keys, NEW t \in Tokens, NEW cache, NEW order,
         SetToken(k, t, cache, order)
  PROVE  /\ cache \in [Keys -> Tokens \cup {None}]
         /\ order \in Seq(Keys)
<1>1. CASE tokenCache[k] # None
  <2>1. \A i \in DOMAIN cacheOrder : Append(RemoveAt(cacheOrder, i), k) \in Seq(Keys)
    <3>1. cacheOrder \in Seq(Keys) /\ DOMAIN cacheOrder = 1 .. Len(cacheOrder)
      BY LenProperties DEF TypeOK
    <3>2. TAKE i \in DOMAIN cacheOrder
    <3>3. RemoveAt(cacheOrder, i) \in Seq(Keys) BY <3>1, RemoveAtType
    <3>4. QED BY <3>3, AppendProperties
  <2>2. order \in Seq(Keys) BY <1>1, <2>1 DEF SetToken, TypeOK
  <2>3. cache = [tokenCache EXCEPT ![k] = t] BY <1>1 DEF SetToken
  <2>4. QED BY <2>2, <2>3 DEF TypeOK
<1>2. CASE tokenCache[k] = None
  <2> DEFINE pushed == Append(cacheOrder, k)
             filled == [tokenCache EXCEPT ![k] = t]
  <2>1. pushed \in Seq(Keys) /\ filled \in [Keys -> Tokens \cup {None}]
    BY AppendProperties DEF TypeOK
  <2>2. PICK n \in 0 .. Len(pushed) :
          /\ order = SubSeq(pushed, n + 1, Len(pushed))
          /\ cache = [j \in Keys |->
                        IF \E i \in 1 .. n : pushed[i] = j /\ j # EmptyKey
                        THEN None ELSE filled[j]]
    BY <1>2 DEF SetToken
  <2>3. cache \in [Keys -> Tokens \cup {None}]
    BY <2>1, <2>2
  <2>4. Len(pushed) \in Nat /\ \A i \in n + 1 .. Len(pushed) : pushed[i] \in Keys
    BY <2>1, ElementOfSeq, LenProperties
  <2>5. order \in Seq(Keys)
    BY <2>2, <2>4, SubSeqProperties
  <2>6. QED BY <2>3, <2>5
<1>3. QED BY <1>1, <1>2

LEMMA InitType == Init => TypeOK
<1> SUFFICES ASSUME Init PROVE TypeOK
  OBVIOUS
<1>1. \A S : <<>> \in Seq(S) BY EmptySeq
<1>2. /\ pc \in [Callers -> CallPoints] /\ rpc \in [Callers -> RefreshPoints]
      /\ \A c \in Callers : pc[c] = "idle"
  BY DEF Init, CallPoints, RefreshPoints
<1>3. QED BY <1>1, <1>2 DEF Init, TypeOK

\* The parts of the state that a call and the cache it reads decide on.
CallTypeOK ==
  /\ refreshPromises \in [Keys -> Callers \cup {None}]
  /\ activeControllers \subseteq Callers
  /\ pc \in [Callers -> CallPoints]
  /\ waits \in [Callers -> Callers \cup {None}]
  /\ got \in [Callers -> Tokens \cup {None}]
  /\ \A c \in Callers : /\ pc[c] = "token" => got[c] # None
                        /\ pc[c] = "waiting" => waits[c] # None
  /\ rpc \in [Callers -> RefreshPoints]

LEMMA FailsType ==
  ASSUME TypeOK, NEW c \in Callers, NEW why \in Failures \cup {"retrieving"},
         Becomes(c, why), UNCHANGED <<got, waits, rpc, refreshPromises, activeControllers>>
  PROVE  CallTypeOK'
BY DEF TypeOK, CallTypeOK, Becomes, CallPoints, Failures

LEMMA ReturnsType ==
  ASSUME TypeOK, NEW c \in Callers, NEW t \in Tokens, Returns(c, t)
  PROVE  CallTypeOK'
BY AuthAssumption DEF TypeOK, CallTypeOK, Returns, Becomes, CallPoints, Tokens

LEMMA RefreshType ==
  ASSUME TypeOK, NEW c \in Callers, RefreshAccessToken(c)
  PROVE  CallTypeOK'
<1>1. CASE Fails(c, "closed")
  BY <1>1, FailsType DEF Fails, Failures
<1>2. CASE JoinRefresh(c) /\ refreshPromises[key[c]] # None
  BY <1>2 DEF JoinRefresh, TypeOK, CallTypeOK, Becomes, CallPoints
<1>3. CASE BeginRefresh(c)
  BY <1>3, AuthAssumption DEF BeginRefresh, TypeOK, CallTypeOK, Becomes, CallPoints,
     RefreshPoints, InFlight
<1>4. QED BY <1>1, <1>2, <1>3 DEF RefreshAccessToken

LEMMA ServeType ==
  ASSUME TypeOK, NEW c \in Callers, NEW cache \in [Keys -> Tokens \cup {None}],
         Serve(c, cache)
  PROVE  CallTypeOK'
<1>1. CASE IsTokenValid(cache[key[c]])
  <2>1. cache[key[c]] \in Tokens BY <1>1 DEF TypeOK, IsTokenValid
  <2>2. Returns(c, cache[key[c]]) BY <1>1 DEF Serve
  <2>3. QED BY <2>1, <2>2, ReturnsType
<1>2. CASE ~IsTokenValid(cache[key[c]])
  BY <1>2, RefreshType DEF Serve
<1>3. QED BY <1>1, <1>2

LEMMA NextType == TypeOK /\ [Next]_vars => TypeOK'
<1> SUFFICES ASSUME TypeOK, [Next]_vars PROVE TypeOK'
  OBVIOUS
<1>1. ASSUME NEW c \in Callers, GetAccessToken(c) PROVE TypeOK'
  <2>1. CallTypeOK'
    <3>1. CASE Fails(c, "closed")
      BY <3>1, FailsType DEF Fails, Failures
    <3>2. CASE Becomes(c, "retrieving") /\
               UNCHANGED <<got, waits, rpc, refreshPromises, activeControllers>>
      BY <3>2, FailsType
    <3>3. CASE Serve(c, tokenCache)
      BY <3>3, ServeType DEF TypeOK
    <3>4. QED BY <1>1, <3>1, <3>2, <3>3 DEF GetAccessToken
  <2>2. QED BY <1>1, <2>1 DEF GetAccessToken, TypeOK, CallTypeOK
<1>2. ASSUME NEW c \in Callers, Retrieved(c) PROVE TypeOK'
  <2>1. /\ tokenCache' \in [Keys -> Tokens \cup {None}]
        /\ cacheOrder' \in Seq(Keys)
    <3>1. CASE UNCHANGED <<tokenCache, cacheOrder>>
      BY <3>1 DEF TypeOK
    <3>2. ASSUME NEW t \in InStore(key[c]), SetToken(key[c], t, tokenCache', cacheOrder')
          PROVE  /\ tokenCache' \in [Keys -> Tokens \cup {None}]
                 /\ cacheOrder' \in Seq(Keys)
      <4>1. key[c] \in Keys /\ t \in Tokens BY DEF TypeOK, InStore, Tokens
      <4>2. QED BY <3>2, <4>1, SetTokenType
    <3>3. QED BY <1>2, <3>1, <3>2 DEF Retrieved
  <2>2. CallTypeOK' BY <1>2, <2>1, ServeType DEF Retrieved
  <2>3. QED BY <1>2, <2>1, <2>2 DEF Retrieved, TypeOK, CallTypeOK
<1>3. ASSUME NEW c \in Callers, RetrieveThrows(c) PROVE TypeOK'
  <2>1. CallTypeOK' BY <1>3, FailsType DEF RetrieveThrows, Fails, Failures
  <2>2. QED BY <1>3, <2>1 DEF RetrieveThrows, TypeOK, CallTypeOK
<1>4. ASSUME NEW c \in Callers, Resume(c) PROVE TypeOK'
  <2>1. CallTypeOK'
    <3>1. CASE Fails(c, "auth")
      BY <3>1, FailsType DEF Fails, Failures
    <3>2. CASE Returns(c, waits[c])
      <4>1. waits[c] \in Tokens BY <1>4 DEF Resume, TypeOK, Tokens
      <4>2. QED BY <3>2, <4>1, ReturnsType
    <3>3. QED BY <1>4, <3>1, <3>2 DEF Resume
  <2>2. QED BY <1>4, <2>1 DEF Resume, TypeOK, CallTypeOK
<1>5. ASSUME NEW r \in Callers, RefreshStep(r) PROVE TypeOK'
  <2> USE DEF RefreshTo, RefreshPoints, InFlight
  <2>1. CASE RequestFails(r)
    BY <2>1 DEF RequestFails, TypeOK, calls
  <2>2. CASE HeadersArrive(r)
    <3>1. issued' \in Seq(Callers) BY <2>2, AppendProperties DEF HeadersArrive, TypeOK
    <3>2. QED BY <2>2, <3>1 DEF HeadersArrive, ReleaseController, TypeOK, calls
  <2>3. CASE BodyIsRefused(r)
    BY <2>3 DEF BodyIsRefused, TypeOK, calls
  <2>4. CASE BodyIsToken(r)
    <3>1. key[r] \in Keys /\ r \in Tokens BY DEF TypeOK, Tokens
    <3>2. /\ tokenCache' \in [Keys -> Tokens \cup {None}]
          /\ cacheOrder' \in Seq(Keys)
      BY <2>4, <3>1, SetTokenType DEF BodyIsToken
    <3>3. expired' \subseteq Tokens BY <2>4, <3>1 DEF BodyIsToken, TypeOK
    <3>4. rpc' \in [Callers -> RefreshPoints] BY <2>4 DEF BodyIsToken, TypeOK
    <3>5. QED BY <2>4, <3>2, <3>3, <3>4 DEF BodyIsToken, TypeOK, calls
  <2>5. CASE HookThrows(r) \/ HookReturns(r) \/ ListenersRun(r)
    BY <2>5 DEF HookThrows, HookReturns, ListenersRun, TypeOK, calls
  <2>6. CASE Finally(r)
    BY <2>6 DEF Finally, ForgetPromise, TypeOK, calls
  <2>7. QED BY <1>5, <2>1, <2>2, <2>3, <2>4, <2>5, <2>6 DEF RefreshStep
<1>6. ASSUME NEW k \in Keys, InvalidateToken(k) PROVE TypeOK'
  <2>1. cacheOrder' \in Seq(Keys)
    BY <1>6, RemoveAtType, LenProperties DEF InvalidateToken, DropFromOrder, TypeOK
  <2>2. QED BY <1>6, <2>1 DEF InvalidateToken, TypeOK
<1>7. CASE ClearTokenCache
  <2>1. cacheOrder' \in Seq(Keys) BY <1>7, EmptySeq DEF ClearTokenCache
  <2>2. QED BY <1>7, <2>1 DEF ClearTokenCache, TypeOK
<1>8. CASE Close
  <2>1. cacheOrder' \in Seq(Keys) BY <1>8, EmptySeq DEF Close
  <2>2. QED BY <1>8, <2>1 DEF Close, AbortActive, TypeOK, calls
<1>9. ASSUME NEW t \in Tokens, Expire(t) PROVE TypeOK'
  BY <1>9 DEF Expire, TypeOK, calls
<1>10. CASE UNCHANGED vars
  BY <1>10 DEF vars, TypeOK
<1>11. QED
  BY <1>1, <1>2, <1>3, <1>4, <1>5, <1>6, <1>7, <1>8, <1>9, <1>10 DEF Next, CallStep

\* Every call that has returned has a token, every call that waits knows for
\* which refresh, and the cache holds tokens under keys.
THEOREM TypeCorrect == Spec => []TypeOK
BY InitType, NextType, PTL DEF Spec

(***************************************************************************)
(* One refresh per key.  While auth is open the promises and the refreshes *)
(* in flight determine each other; close() forgets the promises, and from  *)
(* then on no refresh begins.                                              *)
(***************************************************************************)
FlightInv ==
  /\ PromisesAreInFlight
  /\ SingleFlight
  /\ closed => \A k \in Keys : refreshPromises[k] = None
  /\ \A c \in Callers : pc[c] \in {"idle", "retrieving"} => rpc[c] = "none"

\* Steps that leave promises and refreshes alone, and do not take a call back.
LEMMA FlightStays ==
  ASSUME TypeOK, FlightInv, UNCHANGED <<refreshPromises, rpc, key, closed>>,
         \A c \in Callers : pc'[c] \in {"idle", "retrieving"}
                              => pc[c] \in {"idle", "retrieving"}
  PROVE  FlightInv'
BY DEF FlightInv, PromisesAreInFlight, SingleFlight

\* A refresh that moves on and stays in flight.
LEMMA FlightMoves ==
  ASSUME TypeOK, FlightInv, NEW r \in Callers, NEW point \in InFlight,
         rpc[r] \in InFlight, RefreshTo(r, point),
         UNCHANGED <<refreshPromises, key, closed, pc>>
  PROVE  FlightInv'
<1>1. \A s \in Callers : rpc'[s] = IF s = r THEN point ELSE rpc[s]
  BY DEF RefreshTo, TypeOK
<1>2. \A s \in Callers : rpc'[s] \in InFlight <=> rpc[s] \in InFlight
  BY <1>1
<1>3. PromisesAreInFlight' BY <1>2 DEF FlightInv, PromisesAreInFlight, TypeOK
<1>4. SingleFlight' BY <1>2 DEF FlightInv, SingleFlight
<1>5. \A c \in Callers : pc'[c] \in {"idle", "retrieving"} => rpc'[c] = "none"
  BY <1>1 DEF FlightInv, InFlight
<1>6. QED BY <1>3, <1>4, <1>5 DEF FlightInv

LEMMA FlightRefresh ==
  ASSUME TypeOK, FlightInv, NEW c \in Callers,
         pc[c] \in {"idle", "retrieving"}, RefreshAccessToken(c),
         UNCHANGED <<key, closed>>
  PROVE  FlightInv'
<1>1. CASE Fails(c, "closed") \/ JoinRefresh(c)
  <2>1. \A d \in Callers : pc'[d] \in {"idle", "retrieving"} => pc[d] = pc'[d]
    BY <1>1 DEF Fails, JoinRefresh, Becomes, TypeOK
  <2>2. UNCHANGED <<refreshPromises, rpc>>
    BY <1>1 DEF Fails, JoinRefresh
  <2>3. QED BY <2>1, <2>2, FlightStays
<1>2. CASE BeginRefresh(c) /\ ~closed /\ refreshPromises[key[c]] = None
  <2>1. key[c] \in Keys BY DEF TypeOK
  <2>2. /\ \A s \in Callers : rpc'[s] = IF s = c THEN "requesting" ELSE rpc[s]
        /\ \A k \in Keys : refreshPromises'[k] = IF k = key[c] THEN c ELSE refreshPromises[k]
        /\ \A d \in Callers : pc'[d] = IF d = c THEN "waiting" ELSE pc[d]
    BY <1>2, <2>1 DEF BeginRefresh, Becomes, TypeOK
  <2>3. \A s \in Callers : rpc[s] \in InFlight => key[s] # key[c]
    BY <1>2, AuthAssumption DEF FlightInv, PromisesAreInFlight, Tokens
  <2>4. rpc[c] = "none" BY DEF FlightInv
  <2>5. PromisesAreInFlight'
    <3>1. ASSUME NEW k \in Keys, refreshPromises'[k] # None
          PROVE  rpc'[refreshPromises'[k]] \in InFlight /\ key[refreshPromises'[k]] = k
      <4>1. CASE k = key[c]
        BY <2>2, <4>1 DEF InFlight
      <4>2. CASE k # key[c]
        <5>1. refreshPromises[k] # None /\ refreshPromises[k] \in Callers
          BY <2>2, <3>1, <4>2 DEF TypeOK
        <5>2. rpc[refreshPromises[k]] \in InFlight /\ key[refreshPromises[k]] = k
          BY <5>1 DEF FlightInv, PromisesAreInFlight
        <5>3. QED BY <2>2, <4>2, <5>1, <5>2
      <4>3. QED BY <4>1, <4>2
    <3>2. ASSUME NEW s \in Callers, rpc'[s] \in InFlight
          PROVE  refreshPromises'[key[s]] = s
      <4>1. key[s] \in Keys BY DEF TypeOK
      <4>2. CASE s = c
        BY <2>1, <2>2, <4>2
      <4>3. CASE s # c
        BY <1>2, <2>2, <2>3, <3>2, <4>1, <4>3 DEF FlightInv, PromisesAreInFlight
      <4>4. QED BY <4>2, <4>3
    <3>3. QED BY <3>1, <3>2 DEF PromisesAreInFlight
  <2>6. SingleFlight'
    BY <2>2, <2>3 DEF FlightInv, SingleFlight
  <2>7. QED BY <1>2, <2>2, <2>5, <2>6 DEF FlightInv
<1>3. QED BY <1>1, <1>2 DEF RefreshAccessToken

LEMMA FlightServe ==
  ASSUME TypeOK, FlightInv, NEW c \in Callers, NEW cache,
         pc[c] \in {"idle", "retrieving"}, Serve(c, cache),
         UNCHANGED <<key, closed>>
  PROVE  FlightInv'
<1>1. CASE Returns(c, cache[key[c]])
  <2>1. \A d \in Callers : pc'[d] \in {"idle", "retrieving"} => pc[d] = pc'[d]
    BY <1>1 DEF Returns, Becomes, TypeOK
  <2>2. QED BY <1>1, <2>1, FlightStays DEF Returns
<1>2. QED BY <1>1, FlightRefresh DEF Serve

LEMMA NextFlight ==
  ASSUME TypeOK, FlightInv, [Next]_vars
  PROVE  FlightInv'
<1>1. ASSUME NEW c \in Callers, GetAccessToken(c) PROVE FlightInv'
  <2>1. pc[c] = "idle" /\ UNCHANGED <<key, closed>> BY <1>1 DEF GetAccessToken
  <2>2. CASE \E why \in {"closed", "retrieving"} :
               Becomes(c, why) /\ UNCHANGED <<rpc, refreshPromises>>
    <3>1. \A d \in Callers : pc'[d] \in {"idle", "retrieving"}
                               => pc[d] \in {"idle", "retrieving"}
      BY <2>1, <2>2 DEF Becomes, TypeOK
    <3>2. QED BY <2>1, <2>2, <3>1, FlightStays
  <2>3. CASE Serve(c, tokenCache)
    BY <2>1, <2>3, FlightServe
  <2>4. QED BY <1>1, <2>2, <2>3 DEF GetAccessToken, Fails
<1>2. ASSUME NEW c \in Callers, Retrieved(c) PROVE FlightInv'
  BY <1>2, FlightServe DEF Retrieved
<1>3. ASSUME NEW c \in Callers, RetrieveThrows(c) \/ Resume(c) PROVE FlightInv'
  <2>1. /\ \E point \in {"hook", "token", "auth"} : Becomes(c, point)
        /\ UNCHANGED <<refreshPromises, rpc, key, closed>>
    BY <1>3 DEF RetrieveThrows, Resume, Fails, Returns
  <2>2. \A d \in Callers : pc'[d] \in {"idle", "retrieving"}
                             => pc[d] \in {"idle", "retrieving"}
    BY <2>1 DEF Becomes, TypeOK
  <2>3. QED BY <2>1, <2>2, FlightStays
<1>4. ASSUME NEW r \in Callers, RefreshStep(r) PROVE FlightInv'
  <2>1. CASE Finally(r)
    <3>1. /\ rpc[r] \in {"returning", "throwing"}
          /\ \A s \in Callers : rpc'[s] = IF s = r THEN rpc'[r] ELSE rpc[s]
          /\ rpc'[r] \in {"resolved", "rejected"}
          /\ \A k \in Keys : refreshPromises'[k] = IF k = key[r] THEN None ELSE refreshPromises[k]
          /\ UNCHANGED <<key, closed, pc>>
      BY <2>1 DEF Finally, RefreshTo, ForgetPromise, TypeOK, calls
    <3>2. rpc[r] \in InFlight /\ rpc'[r] \notin InFlight BY <3>1 DEF InFlight
    <3>3. \A s \in Callers : rpc'[s] \in InFlight => rpc[s] \in InFlight /\ s # r
      BY <3>1, <3>2
    <3>4. SingleFlight' BY <3>1, <3>3 DEF FlightInv, SingleFlight
    <3>5. PromisesAreInFlight'
      <4>1. ASSUME NEW k \in Keys, refreshPromises'[k] # None
            PROVE  rpc'[refreshPromises'[k]] \in InFlight /\ key[refreshPromises'[k]] = k
        <5>1. k # key[r] /\ refreshPromises'[k] = refreshPromises[k] BY <3>1, <4>1
        <5>2. refreshPromises[k] \in Callers BY <4>1, <5>1 DEF TypeOK
        <5>3. rpc[refreshPromises[k]] \in InFlight /\ key[refreshPromises[k]] = k
          BY <4>1, <5>1 DEF FlightInv, PromisesAreInFlight
        <5>4. refreshPromises[k] # r BY <5>1, <5>3
        <5>5. QED BY <3>1, <5>1, <5>2, <5>3, <5>4
      <4>2. ASSUME ~closed, NEW s \in Callers, rpc'[s] \in InFlight
            PROVE  refreshPromises'[key[s]] = s
        <5>1. rpc[s] \in InFlight /\ s # r BY <3>3, <4>2
        <5>2. key[s] # key[r] BY <3>2, <5>1 DEF FlightInv, SingleFlight
        <5>3. key[s] \in Keys BY DEF TypeOK
        <5>4. QED BY <3>1, <4>2, <5>1, <5>2, <5>3 DEF FlightInv, PromisesAreInFlight
      <4>3. QED BY <3>1, <4>1, <4>2 DEF PromisesAreInFlight
    <3>6. \A c \in Callers : pc[c] \in {"idle", "retrieving"} => rpc'[c] = "none"
      BY <3>1 DEF FlightInv
    <3>7. QED BY <3>1, <3>4, <3>5, <3>6 DEF FlightInv
  <2>2. CASE ~Finally(r)
    <3>1. /\ rpc[r] \in InFlight
          /\ \E point \in InFlight : RefreshTo(r, point)
          /\ UNCHANGED <<refreshPromises, key, closed, pc>>
      BY <1>4, <2>2 DEF RefreshStep, RequestFails, HeadersArrive, BodyIsRefused,
         BodyIsToken, HookThrows, HookReturns, ListenersRun, InFlight, calls
    <3>2. QED BY <3>1, FlightMoves
  <2>3. QED BY <2>1, <2>2
<1>5. CASE ClearTokenCache \/ (\E k \in Keys : InvalidateToken(k)) \/ \E t \in Tokens : Expire(t)
  BY <1>5, FlightStays DEF ClearTokenCache, InvalidateToken, Expire, calls
<1>6. CASE Close
  BY <1>6 DEF Close, FlightInv, PromisesAreInFlight, SingleFlight, calls
<1>7. CASE UNCHANGED vars
  BY <1>7, FlightStays DEF vars
<1>8. QED
  BY <1>1, <1>2, <1>3, <1>4, <1>5, <1>6, <1>7 DEF Next, CallStep

LEMMA FlightInvariant == Spec => []FlightInv
<1>1. Init => FlightInv
  BY DEF Init, FlightInv, PromisesAreInFlight, SingleFlight, InFlight
<1>2. TypeOK /\ FlightInv /\ [Next]_vars => FlightInv'
  BY NextFlight
<1>3. QED BY TypeCorrect, <1>1, <1>2, PTL DEF Spec

\* However calls, close() and failures interleave, a key has one refresh at a
\* time: refreshing is coalesced.
THEOREM OneRefreshPerKey == Spec => []SingleFlight
<1>1. FlightInv => SingleFlight BY DEF FlightInv
<1>2. QED BY FlightInvariant, <1>1, PTL

\* Until close(), the promise map is exactly the refreshes in flight, so no
\* caller joins a refresh that is over or misses one that is not.
THEOREM PromisesTrackRefreshes == Spec => []PromisesAreInFlight
<1>1. FlightInv => PromisesAreInFlight BY DEF FlightInv
<1>2. QED BY FlightInvariant, <1>1, PTL

(***************************************************************************)
(* The eviction order.  Matches(cache, order) is OrderMatchesCache of any  *)
(* cache and order.                                                        *)
(***************************************************************************)
Matches(cache, order) ==
  /\ \A i, j \in 1 .. Len(order) : order[i] = order[j] => i = j
  /\ \A i \in 1 .. Len(order) : cache[order[i]] # None
  /\ \A k \in Keys : cache[k] # None /\ k # EmptyKey
                    => \E i \in 1 .. Len(order) : order[i] = k

LEMMA MatchesIsOrderMatchesCache ==
  ASSUME TypeOK
  PROVE  OrderMatchesCache <=> Matches(tokenCache, cacheOrder)
<1>1. DOMAIN cacheOrder = 1 .. Len(cacheOrder) BY LenProperties DEF TypeOK
<1>2. QED BY <1>1 DEF OrderMatchesCache, Matches, Cached

\* Splicing out the key at i leaves exactly the other keys, each once.
LEMMA RemoveAtKeys ==
  ASSUME NEW order \in Seq(Keys), NEW i \in 1 .. Len(order),
         \A a, b \in 1 .. Len(order) : order[a] = order[b] => a = b
  PROVE  /\ \A a, b \in 1 .. Len(order) - 1 :
              RemoveAt(order, i)[a] = RemoveAt(order, i)[b] => a = b
         /\ \A a \in 1 .. Len(order) - 1 :
              /\ RemoveAt(order, i)[a] # order[i]
              /\ \E b \in 1 .. Len(order) : RemoveAt(order, i)[a] = order[b]
         /\ \A b \in 1 .. Len(order) : b # i =>
              \E a \in 1 .. Len(order) - 1 : RemoveAt(order, i)[a] = order[b]
<1> DEFINE N == Len(order)
           s == RemoveAt(order, i)
<1>1. N \in Nat /\ i \in 1 .. N BY LenProperties
<1>2. \A a \in 1 .. N - 1 : s[a] = IF a < i THEN order[a] ELSE order[a + 1]
  BY RemoveAtType
<1> HIDE DEF s, N
<1>3. \A a, b \in 1 .. N : order[a] = order[b] => a = b BY DEF N
<1>4. ASSUME NEW a \in 1 .. N - 1, NEW b \in 1 .. N - 1, s[a] = s[b]
      PROVE  a = b
  BY <1>1, <1>2, <1>3, <1>4
<1>5. ASSUME NEW a \in 1 .. N - 1
      PROVE  s[a] # order[i] /\ \E b \in 1 .. N : s[a] = order[b]
  <2>1. CASE a < i
    BY <1>1, <1>2, <1>3, <2>1
  <2>2. CASE a >= i
    <3>1. a + 1 \in 1 .. N /\ a + 1 # i /\ s[a] = order[a + 1] BY <1>1, <1>2, <2>2
    <3>2. QED BY <1>1, <1>3, <3>1
  <2>3. a < i \/ a >= i BY <1>1
  <2>4. QED BY <2>1, <2>2, <2>3
<1>6. ASSUME NEW b \in 1 .. N, b # i
      PROVE  \E a \in 1 .. N - 1 : s[a] = order[b]
  <2>1. CASE b < i
    <3>1. b \in 1 .. N - 1 BY <1>1, <2>1
    <3>2. QED BY <1>2, <2>1, <3>1
  <2>2. CASE b > i
    <3>1. b - 1 \in 1 .. N - 1 /\ ~(b - 1 < i) /\ (b - 1) + 1 = b BY <1>1, <2>2
    <3>2. s[b - 1] = order[b] BY <1>2, <3>1
    <3>3. QED BY <3>1, <3>2
  <2>3. b < i \/ b > i BY <1>1, <1>6
  <2>4. QED BY <2>1, <2>2, <2>3
<1>7. QED BY <1>4, <1>5, <1>6 DEF N, s

\* invalidateToken(k) takes k out of both.
LEMMA DropMatches ==
  ASSUME TypeOK, Matches(tokenCache, cacheOrder), NEW k \in Keys, NEW order,
         DropFromOrder(k, order)
  PROVE  Matches([tokenCache EXCEPT ![k] = None], order)
<1> DEFINE cache == [tokenCache EXCEPT ![k] = None]
           N == Len(cacheOrder)
<1>0. cacheOrder \in Seq(Keys) /\ DOMAIN cacheOrder = 1 .. N /\ N \in Nat
  BY LenProperties DEF TypeOK
<1>1. \A j \in Keys : cache[j] = IF j = k THEN None ELSE tokenCache[j]
  BY DEF TypeOK
<1>2. \A i \in 1 .. N : cacheOrder[i] \in Keys BY <1>0, ElementOfSeq
<1>3. CASE ~Listed(k) /\ order = cacheOrder
  BY <1>0, <1>1, <1>2, <1>3 DEF Listed, Matches
<1>4. ASSUME NEW i \in 1 .. N, cacheOrder[i] = k, order = RemoveAt(cacheOrder, i)
      PROVE  Matches(cache, order)
  <2>1. Len(order) = N - 1 BY <1>0, <1>4, RemoveAtType
  <2>2. /\ \A a, b \in 1 .. N - 1 : order[a] = order[b] => a = b
        /\ \A a \in 1 .. N - 1 :
             order[a] # k /\ \E b \in 1 .. N : order[a] = cacheOrder[b]
        /\ \A b \in 1 .. N : b # i => \E a \in 1 .. N - 1 : order[a] = cacheOrder[b]
    <3>1. \A a, b \in 1 .. N : cacheOrder[a] = cacheOrder[b] => a = b BY DEF Matches
    <3>2. /\ \A a, b \in 1 .. N - 1 :
               RemoveAt(cacheOrder, i)[a] = RemoveAt(cacheOrder, i)[b] => a = b
          /\ \A a \in 1 .. N - 1 :
               /\ RemoveAt(cacheOrder, i)[a] # cacheOrder[i]
               /\ \E b \in 1 .. N : RemoveAt(cacheOrder, i)[a] = cacheOrder[b]
          /\ \A b \in 1 .. N : b # i =>
               \E a \in 1 .. N - 1 : RemoveAt(cacheOrder, i)[a] = cacheOrder[b]
      BY <1>0, <3>1, RemoveAtKeys
    <3>3. QED BY <1>4, <3>2
  <2>3. \A a \in 1 .. N - 1 : cache[order[a]] # None
    <3>1. TAKE a \in 1 .. N - 1
    <3>2. PICK b \in 1 .. N : order[a] = cacheOrder[b] BY <2>2
    <3>3. order[a] \in Keys /\ order[a] # k BY <1>2, <2>2, <3>2
    <3>4. tokenCache[order[a]] # None BY <3>2 DEF Matches
    <3>5. QED BY <1>1, <3>3, <3>4
  <2>4. ASSUME NEW j \in Keys, cache[j] # None, j # EmptyKey
        PROVE  \E a \in 1 .. N - 1 : order[a] = j
    <3>1. j # k /\ tokenCache[j] # None BY <1>1, <2>4
    <3>2. PICK b \in 1 .. N : cacheOrder[b] = j BY <2>4, <3>1 DEF Matches
    <3>3. QED BY <1>4, <2>2, <3>1, <3>2
  <2>5. QED BY <2>1, <2>2, <2>3, <2>4 DEF Matches
<1>5. QED BY <1>0, <1>3, <1>4 DEF DropFromOrder, IsIndexOf

\* Filling a key that is not cached, before anything is evicted.
LEMMA PushMatches ==
  ASSUME TypeOK, Matches(tokenCache, cacheOrder), NEW k \in Keys, NEW t \in Tokens,
         tokenCache[k] = None
  PROVE  Matches([tokenCache EXCEPT ![k] = t], Append(cacheOrder, k))
<1> DEFINE N == Len(cacheOrder)
           pushed == Append(cacheOrder, k)
           filled == [tokenCache EXCEPT ![k] = t]
<1>1. N \in Nat /\ \A i \in 1 .. N : cacheOrder[i] \in Keys
  BY ElementOfSeq, LenProperties DEF TypeOK
<1>2. t # None /\ \A j \in Keys : filled[j] = IF j = k THEN t ELSE tokenCache[j]
  BY AuthAssumption DEF TypeOK, Tokens
<1>3. /\ Len(pushed) = N + 1 /\ pushed[N + 1] = k
      /\ \A i \in 1 .. N : pushed[i] = cacheOrder[i]
  BY AppendProperties DEF TypeOK
<1> HIDE DEF pushed, filled
<1>4. \A i \in 1 .. N : cacheOrder[i] # k /\ filled[cacheOrder[i]] # None
  BY <1>1, <1>2 DEF Matches
<1>5. \A i \in 1 .. N + 1 : i = N + 1 \/ i \in 1 .. N BY <1>1
<1>6. \A a, b \in 1 .. N + 1 : pushed[a] = pushed[b] => a = b
  BY <1>3, <1>4, <1>5 DEF Matches
<1>7. \A i \in 1 .. N + 1 : filled[pushed[i]] # None
  BY <1>2, <1>3, <1>4, <1>5
<1>8. ASSUME NEW j \in Keys, filled[j] # None, j # EmptyKey
      PROVE  \E i \in 1 .. N + 1 : pushed[i] = j
  <2>1. CASE j = k BY <1>1, <1>3, <2>1
  <2>2. CASE j # k
    <3>1. PICK b \in 1 .. N : cacheOrder[b] = j BY <1>2, <1>8, <2>2 DEF Matches
    <3>2. QED BY <1>1, <1>3, <3>1
  <2>3. QED BY <2>1, <2>2
<1>9. Matches(filled, pushed) BY <1>3, <1>6, <1>7, <1>8 DEF Matches
<1>10. QED BY <1>9 DEF filled, pushed

\* setToken() re-orders a cached key, or adds a key and evicts from the front.
LEMMA SetTokenMatches ==
  ASSUME TypeOK, Matches(tokenCache, cacheOrder), NEW k \in Keys, NEW t \in Tokens,
         NEW cache, NEW order, SetToken(k, t, cache, order)
  PROVE  Matches(cache, order)
<1> DEFINE N == Len(cacheOrder)
           filled == [tokenCache EXCEPT ![k] = t]
<1>0. cacheOrder \in Seq(Keys) /\ DOMAIN cacheOrder = 1 .. N /\ N \in Nat
  BY LenProperties DEF TypeOK
<1>1. t # None /\ \A j \in Keys : filled[j] = IF j = k THEN t ELSE tokenCache[j]
  BY AuthAssumption DEF TypeOK, Tokens
<1>2. \A i \in 1 .. N : cacheOrder[i] \in Keys BY <1>0, ElementOfSeq
<1>3. CASE tokenCache[k] # None /\ order = cacheOrder /\ cache = filled
  <2>1. \A i \in 1 .. N : cache[cacheOrder[i]] # None
    BY <1>1, <1>2, <1>3 DEF Matches
  <2>2. \A j \in Keys : cache[j] # None => tokenCache[j] # None
    BY <1>1, <1>3
  <2>3. QED BY <1>3, <2>1, <2>2 DEF Matches
<1>4. ASSUME tokenCache[k] # None, cache = filled,
             NEW i \in 1 .. N, cacheOrder[i] = k,
             order = Append(RemoveAt(cacheOrder, i), k)
      PROVE  Matches(cache, order)
  <2> DEFINE s == RemoveAt(cacheOrder, i)
  <2>1. s \in Seq(Keys) /\ Len(s) = N - 1 BY <1>0, RemoveAtType
  <2>2. /\ \A a, b \in 1 .. N - 1 : s[a] = s[b] => a = b
        /\ \A a \in 1 .. N - 1 : s[a] # k /\ \E b \in 1 .. N : s[a] = cacheOrder[b]
        /\ \A b \in 1 .. N : b # i => \E a \in 1 .. N - 1 : s[a] = cacheOrder[b]
    <3>1. \A a, b \in 1 .. N : cacheOrder[a] = cacheOrder[b] => a = b BY DEF Matches
    <3>2. /\ \A a, b \in 1 .. N - 1 : s[a] = s[b] => a = b
          /\ \A a \in 1 .. N - 1 :
               s[a] # cacheOrder[i] /\ \E b \in 1 .. N : s[a] = cacheOrder[b]
          /\ \A b \in 1 .. N : b # i => \E a \in 1 .. N - 1 : s[a] = cacheOrder[b]
      BY <1>0, <3>1, RemoveAtKeys
    <3>3. QED BY <1>4, <3>2
  <2>0. order = Append(s, k) BY <1>4
  <2> HIDE DEF s, N
  <2>3. /\ Len(order) = N
        /\ order[N] = k
        /\ \A a \in 1 .. N - 1 : order[a] = s[a]
    <3>1. /\ Len(order) = Len(s) + 1 /\ order[Len(s) + 1] = k
          /\ \A a \in 1 .. Len(s) : order[a] = s[a]
      BY <2>0, <2>1, AppendProperties
    <3>2. Len(s) + 1 = N BY <1>0, <2>1
    <3>3. QED BY <2>1, <3>1, <3>2
  <2>4. \A a, b \in 1 .. N : order[a] = order[b] => a = b
    BY <1>0, <2>2, <2>3
  <2>5. \A a \in 1 .. N : cache[order[a]] # None
    <3>1. ASSUME NEW a \in 1 .. N PROVE cache[order[a]] # None
      <4>1. CASE a = N
        BY <1>1, <1>4, <2>3, <4>1
      <4>2. CASE a \in 1 .. N - 1
        <5>1. PICK b \in 1 .. N : order[a] = cacheOrder[b] BY <2>2, <2>3, <4>2
        <5>2. QED BY <1>1, <1>2, <1>4, <5>1 DEF Matches, N
      <4>3. a = N \/ a \in 1 .. N - 1 BY <1>0
      <4>4. QED BY <4>1, <4>2, <4>3
    <3>2. QED BY <3>1
  <2>6. ASSUME NEW j \in Keys, cache[j] # None, j # EmptyKey
        PROVE  \E a \in 1 .. N : order[a] = j
    <3>1. tokenCache[j] # None BY <1>1, <1>4, <2>6
    <3>2. PICK b \in 1 .. N : cacheOrder[b] = j BY <2>6, <3>1 DEF Matches, N
    <3>3. CASE b = i
      BY <1>0, <1>4, <2>3, <3>2, <3>3
    <3>4. CASE b # i
      <4>1. PICK a \in 1 .. N - 1 : s[a] = cacheOrder[b] BY <2>2, <3>4
      <4>2. a \in 1 .. N /\ order[a] = j BY <1>0, <2>3, <3>2, <4>1
      <4>3. QED BY <4>2
    <3>5. QED BY <3>3, <3>4
  <2>7. QED BY <2>3, <2>4, <2>5, <2>6 DEF Matches
<1>5. ASSUME tokenCache[k] = None PROVE Matches(cache, order)
  <2> DEFINE pushed == Append(cacheOrder, k)
             L == Len(pushed)
  <2>1. /\ L = N + 1 /\ pushed[N + 1] = k
        /\ \A i \in 1 .. N : pushed[i] = cacheOrder[i]
        /\ pushed \in Seq(Keys)
    BY <1>0, AppendProperties
  <2>2. PICK n \in 0 .. L :
          /\ order = SubSeq(pushed, n + 1, L)
          /\ cache = [j \in Keys |->
                        IF \E i \in 1 .. n : pushed[i] = j /\ j # EmptyKey
                        THEN None ELSE filled[j]]
    BY <1>5 DEF SetToken
  <2>3. Matches(filled, pushed) BY <1>5, PushMatches
  <2> HIDE DEF pushed, filled
  <2>4. \A a, b \in 1 .. N + 1 : pushed[a] = pushed[b] => a = b
    BY <2>1, <2>3 DEF Matches
  <2>5. \A i \in 1 .. N + 1 : pushed[i] \in Keys /\ filled[pushed[i]] # None
    BY <2>1, <2>3, ElementOfSeq DEF Matches
  <2>6. /\ Len(order) = N + 1 - n
        /\ \A a \in 1 .. N + 1 - n : order[a] = pushed[n + a]
    <3>1. n + 1 \in Int /\ N + 1 \in Int /\ n \in 0 .. N + 1 BY <1>0, <2>1
    <3>2. \A i \in n + 1 .. N + 1 : pushed[i] \in Keys BY <2>5, <3>1
    <3>3. /\ Len(order) = IF n + 1 <= N + 1 THEN N + 1 - (n + 1) + 1 ELSE 0
          /\ \A a \in 1 .. N + 1 - (n + 1) + 1 : order[a] = pushed[n + 1 + a - 1]
      BY <2>1, <2>2, <3>1, <3>2, SubSeqProperties
    <3>4. Len(order) = N + 1 - n BY <1>0, <3>1, <3>3
    <3>5. ASSUME NEW a \in 1 .. N + 1 - n PROVE order[a] = pushed[n + a]
      <4>1. a \in 1 .. N + 1 - (n + 1) + 1 /\ n + 1 + a - 1 = n + a BY <1>0, <3>1
      <4>2. QED BY <3>3, <4>1
    <3>6. QED BY <3>4, <3>5
  <2>7. n \in 0 .. N + 1 BY <2>1
  <2>8. \A a, b \in 1 .. N + 1 - n : order[a] = order[b] => a = b
    <3>1. ASSUME NEW a \in 1 .. N + 1 - n, NEW b \in 1 .. N + 1 - n, order[a] = order[b]
          PROVE  a = b
      <4>1. n + a \in 1 .. N + 1 /\ n + b \in 1 .. N + 1 BY <1>0, <2>7
      <4>2. n + a = n + b BY <2>4, <2>6, <3>1, <4>1
      <4>3. QED BY <2>7, <4>2
    <3>2. QED BY <3>1
  <2>9. ASSUME NEW a \in 1 .. N + 1 - n PROVE cache[order[a]] # None
    <3>1. n + a \in 1 .. N + 1 /\ order[a] = pushed[n + a] BY <1>0, <2>6, <2>7
    <3>2. \A i \in 1 .. n : i \in 1 .. N + 1 /\ i # n + a BY <1>0, <2>7
    <3>3. \A i \in 1 .. n : pushed[i] # order[a] BY <2>4, <3>1, <3>2
    <3>4. cache[order[a]] = filled[order[a]] BY <2>2, <2>5, <3>1, <3>3
    <3>5. QED BY <2>5, <3>1, <3>4
  <2>10. ASSUME NEW j \in Keys, cache[j] # None, j # EmptyKey
         PROVE  \E a \in 1 .. N + 1 - n : order[a] = j
    <3>1. filled[j] # None /\ \A i \in 1 .. n : pushed[i] # j
      BY <2>2, <2>10
    <3>2. PICK i \in 1 .. N + 1 : pushed[i] = j
      BY <2>1, <2>3, <2>10, <3>1 DEF Matches
    <3>3. i \notin 1 .. n BY <3>1, <3>2
    <3>4. i - n \in 1 .. N + 1 - n /\ n + (i - n) = i BY <1>0, <2>7, <3>3
    <3>5. order[i - n] = j BY <2>6, <3>2, <3>4
    <3>6. QED BY <3>4, <3>5
  <2>11. QED BY <2>6, <2>8, <2>9, <2>10 DEF Matches
<1>6. QED BY <1>0, <1>3, <1>4, <1>5 DEF SetToken, IsIndexOf

LEMMA EmptyMatches == Matches([k \in Keys |-> None], <<>>)
BY EmptySeq DEF Matches

\* The eviction order and the cache list the same keys, the key '' aside.
THEOREM OrderAlwaysMatchesCache == Spec => []OrderMatchesCache
<1> DEFINE Inv == Matches(tokenCache, cacheOrder)
<1>1. Init => Inv BY EmptyMatches DEF Init
<1>2. TypeOK /\ Inv /\ [Next]_vars => Inv'
  <2> SUFFICES ASSUME TypeOK, Inv, [Next]_vars PROVE Inv'
    OBVIOUS
  <2>0. CASE UNCHANGED <<tokenCache, cacheOrder>>
    BY <2>0
  <2>1. ASSUME NEW c \in Callers, GetAccessToken(c) \/ CallStep(c) PROVE Inv'
    <3>1. ASSUME NEW t \in InStore(key[c]), SetToken(key[c], t, tokenCache', cacheOrder')
          PROVE  Inv'
      <4>1. key[c] \in Keys /\ t \in Tokens BY DEF TypeOK, InStore, Tokens
      <4>2. QED BY <3>1, <4>1, SetTokenMatches
    <3>2. QED BY <2>0, <2>1, <3>1 DEF GetAccessToken, CallStep, Retrieved, RetrieveThrows, Resume
  <2>2. ASSUME NEW r \in Callers, RefreshStep(r) PROVE Inv'
    <3>1. CASE BodyIsToken(r)
      <4>1. key[r] \in Keys /\ r \in Tokens BY DEF TypeOK, Tokens
      <4>2. QED BY <3>1, <4>1, SetTokenMatches DEF BodyIsToken
    <3>2. CASE ~BodyIsToken(r)
      BY <2>0, <2>2, <3>2 DEF RefreshStep, RequestFails, HeadersArrive, BodyIsRefused,
         HookThrows, HookReturns, ListenersRun, Finally
    <3>3. QED BY <3>1, <3>2
  <2>3. ASSUME NEW k \in Keys, InvalidateToken(k) PROVE Inv'
    BY <2>3, DropMatches DEF InvalidateToken
  <2>4. CASE ClearTokenCache \/ Close
    BY <2>4, EmptyMatches DEF ClearTokenCache, Close
  <2>5. ASSUME NEW t \in Tokens, Expire(t) PROVE Inv'
    BY <2>0, <2>5 DEF Expire
  <2>6. CASE UNCHANGED vars
    BY <2>0, <2>6 DEF vars
  <2>7. QED BY <2>1, <2>2, <2>3, <2>4, <2>5, <2>6 DEF Next
<1>3. TypeOK /\ Inv => OrderMatchesCache BY MatchesIsOrderMatchesCache
<1>4. QED BY TypeCorrect, <1>1, <1>2, <1>3, PTL DEF Spec

(***************************************************************************)
(* The bound.  The order lists each cached key once, so that a bound on    *)
(* its length is one on the cache; eviction keeps the order short, except  *)
(* that the key '' ends its loop, having left the order itself.            *)
(***************************************************************************)
OrderIsShort == Len(cacheOrder) <= MaxCached

\* The order is as long as the cache is large, the key '' aside.
LEMMA OrderCounts ==
  ASSUME NEW cache \in [Keys -> Tokens \cup {None}], NEW order \in Seq(Keys),
         Matches(cache, order)
  PROVE  /\ IsFiniteSet(Cached(cache))
         /\ Len(order) <= Cardinality(Cached(cache))
         /\ Cardinality(Cached(cache) \ {EmptyKey}) <= Len(order)
<1> DEFINE N == Len(order)
           listed == {order[i] : i \in 1 .. N}
<1>1. N \in Nat /\ order \in [1 .. N -> Keys] /\ \A i \in 1 .. N : order[i] \in Keys
  BY ElementOfSeq, LenProperties
<1>2. order \in Bijection(1 .. N, listed)
  <2>1. order \in [1 .. N -> listed] BY <1>1
  <2>2. \A y \in listed : \E i \in 1 .. N : order[i] = y OBVIOUS
  <2>3. \A i, j \in 1 .. N : order[i] = order[j] => i = j BY DEF Matches
  <2>4. QED BY <2>1, <2>2, <2>3 DEF Bijection, Injection, Surjection, IsInjective
<1>3. IsFiniteSet(listed) /\ Cardinality(listed) = N
  <2>1. IsFiniteSet(1 .. N) /\ Cardinality(1 .. N) = N
    <3>1. N \in Int /\ 1 \in Int BY <1>1
    <3>2. IsFiniteSet(1 .. N) /\ Cardinality(1 .. N) = IF 1 > N THEN 0 ELSE N - 1 + 1
      BY <3>1, FS_Interval
    <3>3. QED BY <1>1, <3>2
  <2>2. QED BY <1>2, <2>1, FS_Bijection DEF ExistsBijection
<1>4. listed \subseteq Cached(cache) BY <1>1 DEF Matches, Cached
<1>5. Cached(cache) \ {EmptyKey} \subseteq listed BY DEF Matches, Cached
<1> HIDE DEF listed, N
<1>6. IsFiniteSet(Cached(cache) \ {EmptyKey}) /\ Cardinality(Cached(cache) \ {EmptyKey}) <= N
  BY <1>3, <1>5, FS_Subset
<1>7. IsFiniteSet(Cached(cache))
  <2>1. IsFiniteSet((Cached(cache) \ {EmptyKey}) \cup {EmptyKey}) BY <1>6, FS_AddElement
  <2>2. Cached(cache) \subseteq (Cached(cache) \ {EmptyKey}) \cup {EmptyKey} OBVIOUS
  <2>3. QED BY <2>1, <2>2, FS_Subset
<1>8. N <= Cardinality(Cached(cache)) BY <1>3, <1>4, <1>7, FS_Subset
<1>9. QED BY <1>6, <1>7, <1>8 DEF N

\* Unless setToken() evicts, what it lists it caches within the bound; if it
\* evicts, it takes at least the one key out that it has put in.
LEMMA SetTokenShort ==
  ASSUME TypeOK, Matches(tokenCache, cacheOrder), OrderIsShort,
         NEW k \in Keys, NEW t \in Tokens,
         NEW cache, NEW order, SetToken(k, t, cache, order)
  PROVE  Len(order) <= MaxCached
<1> DEFINE N == Len(cacheOrder)
<1>0. /\ cacheOrder \in Seq(Keys) /\ DOMAIN cacheOrder = 1 .. N /\ N \in Nat
      /\ MaxCached \in Nat \ {0} /\ N <= MaxCached
  BY LenProperties, AuthAssumption DEF TypeOK, OrderIsShort
<1>1. ASSUME NEW i \in 1 .. N, order = Append(RemoveAt(cacheOrder, i), k)
      PROVE  Len(order) <= MaxCached
  <2>1. RemoveAt(cacheOrder, i) \in Seq(Keys) /\ Len(RemoveAt(cacheOrder, i)) = N - 1
    BY <1>0, RemoveAtType
  <2>2. Len(order) = N - 1 + 1 BY <1>1, <2>1, AppendProperties
  <2>3. QED BY <1>0, <2>2
<1>2. CASE tokenCache[k] # None
  BY <1>0, <1>1, <1>2 DEF SetToken
<1>3. CASE tokenCache[k] = None
  <2> DEFINE pushed == Append(cacheOrder, k)
             filled == [tokenCache EXCEPT ![k] = t]
  <2>1. pushed \in Seq(Keys) /\ Len(pushed) = N + 1 BY <1>0, AppendProperties
  <2>2. filled \in [Keys -> Tokens \cup {None}] BY DEF TypeOK
  <2>3. Matches(filled, pushed) BY <1>3, PushMatches
  <2>4. PICK n \in 0 .. Len(pushed) :
          /\ Evicts(pushed, Cardinality(Cached(filled)), n)
          /\ order = SubSeq(pushed, n + 1, Len(pushed))
    BY <1>3 DEF SetToken
  <2> HIDE DEF pushed, filled, N
  <2>5. Len(pushed) <= Cardinality(Cached(filled)) /\ IsFiniteSet(Cached(filled))
    BY <2>1, <2>2, <2>3, OrderCounts
  <2>6. Cardinality(Cached(filled)) \in Nat BY <2>5, FS_CardinalityType
  <2>7. n \in 0 .. N + 1 BY <2>1, <2>4
  <2>8. Len(order) = N + 1 - n
    <3>1. PICK from, to \in Int : from = n + 1 /\ to = N + 1 BY <1>0, <2>7
    <3>2. \A i \in from .. to : pushed[i] \in Keys
      BY <1>0, <2>1, <2>7, <3>1, ElementOfSeq
    <3>3. Len(SubSeq(pushed, from, to)) = IF from <= to THEN to - from + 1 ELSE 0
      BY <3>2, SubSeqProperties
    <3>4. order = SubSeq(pushed, from, to) BY <2>1, <2>4, <3>1
    <3>5. QED BY <1>0, <2>7, <3>1, <3>3, <3>4
  <2>9. CASE n = 0
    <3>1. Cardinality(Cached(filled)) <= MaxCached
      BY <1>0, <2>1, <2>4, <2>6, <2>9 DEF Evicts
    <3>2. QED BY <1>0, <2>1, <2>5, <2>6, <2>8, <2>9, <3>1
  <2>10. CASE n > 0
    BY <1>0, <2>7, <2>8, <2>10
  <2>11. QED BY <2>7, <2>9, <2>10
<1>4. QED BY <1>2, <1>3

\* The cache never holds more than maxCachedTokens keys besides '', whatever
\* fills, re-orderings, invalidations and evictions it has been through.
THEOREM CacheStaysBounded == Spec => []CacheBounded
<1> DEFINE Order == Matches(tokenCache, cacheOrder)
<1>1. Init => OrderIsShort
  BY EmptySeq, AuthAssumption DEF Init, OrderIsShort
<1>2. TypeOK /\ Order /\ OrderIsShort /\ [Next]_vars => OrderIsShort'
  <2> SUFFICES ASSUME TypeOK, Order, OrderIsShort, [Next]_vars PROVE OrderIsShort'
    OBVIOUS
  <2>0. CASE UNCHANGED cacheOrder BY <2>0 DEF OrderIsShort
  <2>1. ASSUME NEW k \in Keys, NEW t \in Tokens, SetToken(k, t, tokenCache', cacheOrder')
        PROVE  OrderIsShort'
    BY <2>1, SetTokenShort DEF OrderIsShort
  <2>2. ASSUME NEW c \in Callers, GetAccessToken(c) \/ CallStep(c) PROVE OrderIsShort'
    <3>1. key[c] \in Keys /\ InStore(key[c]) \subseteq Tokens
      BY DEF TypeOK, InStore, Tokens
    <3>2. QED
      BY <2>0, <2>1, <2>2, <3>1 DEF GetAccessToken, CallStep, Retrieved, RetrieveThrows, Resume
  <2>3. ASSUME NEW r \in Callers, RefreshStep(r) PROVE OrderIsShort'
    <3>1. key[r] \in Keys /\ r \in Tokens BY DEF TypeOK, Tokens
    <3>2. QED
      BY <2>0, <2>1, <2>3, <3>1 DEF RefreshStep, RequestFails, HeadersArrive, BodyIsRefused,
         BodyIsToken, HookThrows, HookReturns, ListenersRun, Finally
  <2>4. ASSUME NEW k \in Keys, InvalidateToken(k) PROVE OrderIsShort'
    <3>1. cacheOrder \in Seq(Keys) /\ DOMAIN cacheOrder = 1 .. Len(cacheOrder)
          /\ Len(cacheOrder) \in Nat /\ MaxCached \in Nat
      BY LenProperties, AuthAssumption DEF TypeOK
    <3>2. ASSUME NEW i \in DOMAIN cacheOrder, cacheOrder' = RemoveAt(cacheOrder, i)
          PROVE  OrderIsShort'
      BY <3>1, <3>2, RemoveAtType DEF OrderIsShort
    <3>3. QED BY <2>0, <2>4, <3>2 DEF InvalidateToken, DropFromOrder
  <2>5. CASE ClearTokenCache \/ Close
    BY <2>5, EmptySeq, AuthAssumption DEF ClearTokenCache, Close, OrderIsShort
  <2>6. CASE UNCHANGED vars \/ \E t \in Tokens : Expire(t)
    BY <2>0, <2>6 DEF vars, Expire
  <2>7. QED BY <2>2, <2>3, <2>4, <2>5, <2>6 DEF Next
<1>3. TypeOK /\ Order /\ OrderIsShort => CacheBounded
  <2> SUFFICES ASSUME TypeOK, Order, OrderIsShort PROVE CacheBounded
    OBVIOUS
  <2>1. /\ IsFiniteSet(Cached(tokenCache))
        /\ Cardinality(Cached(tokenCache) \ {EmptyKey}) <= Len(cacheOrder)
    BY OrderCounts DEF TypeOK
  <2>2. Cardinality(Cached(tokenCache) \ {EmptyKey}) \in Nat
    BY <2>1, FS_Subset, FS_CardinalityType
  <2>3. Len(cacheOrder) \in Nat /\ MaxCached \in Nat
    BY LenProperties, AuthAssumption DEF TypeOK
  <2>4. QED BY <2>1, <2>2, <2>3 DEF OrderIsShort, CacheBounded
<1>4. TypeOK => (OrderMatchesCache <=> Order) BY MatchesIsOrderMatchesCache
<1>5. QED BY TypeCorrect, OrderAlwaysMatchesCache, <1>1, <1>2, <1>3, <1>4, PTL DEF Spec

(***************************************************************************)
(* Requests and their controllers.                                         *)
(***************************************************************************)

\* Whatever begins a refresh, or leaves them all as they are.
LEMMA ServeStoppable ==
  ASSUME TypeOK, RequestsAreStoppable, NEW c \in Callers, NEW cache,
         Serve(c, cache), UNCHANGED <<closed, aborted>>
  PROVE  RequestsAreStoppable'
<1>1. CASE BeginRefresh(c) /\ ~closed
  <2>1. /\ \A r \in Callers : rpc'[r] = IF r = c THEN "requesting" ELSE rpc[r]
        /\ activeControllers' = activeControllers \cup {c}
    BY <1>1 DEF BeginRefresh, TypeOK
  <2>2. activeControllers \subseteq Callers BY DEF TypeOK
  <2>3. QED BY <1>1, <2>1, <2>2 DEF RequestsAreStoppable
<1>2. CASE UNCHANGED <<rpc, activeControllers>>
  BY <1>2 DEF RequestsAreStoppable
<1>3. QED
  BY <1>1, <1>2 DEF Serve, RefreshAccessToken, JoinRefresh, Returns, Fails

\* close() finds the controller of every request in flight, however refreshes,
\* answers and failures interleave.
THEOREM RequestsStayStoppable == Spec => []RequestsAreStoppable
<1>1. Init => RequestsAreStoppable BY DEF Init, RequestsAreStoppable
<1>2. TypeOK /\ RequestsAreStoppable /\ [Next]_vars => RequestsAreStoppable'
  <2> SUFFICES ASSUME TypeOK, RequestsAreStoppable, [Next]_vars
               PROVE  RequestsAreStoppable'
    OBVIOUS
  <2>0. CASE UNCHANGED <<rpc, activeControllers, aborted, closed>>
    BY <2>0 DEF RequestsAreStoppable
  <2>1. ASSUME NEW c \in Callers, GetAccessToken(c) PROVE RequestsAreStoppable'
    BY <2>0, <2>1, ServeStoppable DEF GetAccessToken, Fails
  <2>2. ASSUME NEW c \in Callers, CallStep(c) PROVE RequestsAreStoppable'
    BY <2>0, <2>2, ServeStoppable DEF CallStep, Retrieved, RetrieveThrows, Resume,
       Fails, Returns
  <2>3. ASSUME NEW r \in Callers, RequestFails(r) \/ HeadersArrive(r)
        PROVE  RequestsAreStoppable'
    <3>1. /\ \A q \in Callers : q # r => rpc'[q] = rpc[q]
          /\ rpc'[r] # "requesting"
          /\ activeControllers' = activeControllers \ {r}
          /\ UNCHANGED <<aborted, closed>>
      BY <2>3 DEF RequestFails, HeadersArrive, RefreshTo, ReleaseController, TypeOK
    <3>2. activeControllers \subseteq Callers BY DEF TypeOK
    <3>3. QED BY <3>1, <3>2 DEF RequestsAreStoppable
  <2>4. ASSUME NEW r \in Callers,
               \/ BodyIsRefused(r) \/ BodyIsToken(r) \/ HookThrows(r)
               \/ HookReturns(r) \/ ListenersRun(r) \/ Finally(r)
        PROVE  RequestsAreStoppable'
    <3>1. /\ rpc[r] # "requesting" /\ rpc'[r] # "requesting"
          /\ \A q \in Callers : q # r => rpc'[q] = rpc[q]
          /\ UNCHANGED <<activeControllers, aborted, closed>>
      BY <2>4 DEF BodyIsRefused, BodyIsToken, HookThrows, HookReturns, ListenersRun,
         Finally, RefreshTo, TypeOK
    <3>2. activeControllers \subseteq Callers BY DEF TypeOK
    <3>3. QED BY <3>1, <3>2 DEF RequestsAreStoppable
  <2>5. CASE Close
    BY <2>5 DEF Close, AbortActive, RequestsAreStoppable
  <2>6. CASE ClearTokenCache \/ (\E k \in Keys : InvalidateToken(k)) \/ \E t \in Tokens : Expire(t)
    BY <2>0, <2>6 DEF ClearTokenCache, InvalidateToken, Expire
  <2>7. CASE UNCHANGED vars BY <2>0, <2>7 DEF vars
  <2>8. QED
    BY <2>1, <2>2, <2>3, <2>4, <2>5, <2>6, <2>7 DEF Next, RefreshStep
<1>3. QED BY TypeCorrect, <1>1, <1>2, PTL DEF Spec

(***************************************************************************)
(* Whose tokens are whose.                                                 *)
(***************************************************************************)

Owned(cache) == \A k \in Keys : cache[k] # None => Owner(cache[k]) = k

\* A caller waits for a refresh of its own key.
WaitsForItsKey ==
  \A c \in Callers : pc[c] = "waiting" => waits[c] \in Callers /\ key[waits[c]] = key[c]
GotItsKey == \A c \in Callers : got[c] # None => Owner(got[c]) = key[c]

\* setToken(k, t) caches nothing but t under k, and nothing new elsewhere.
LEMMA SetTokenValues ==
  ASSUME TypeOK, NEW k \in Keys, NEW t \in Tokens,
         NEW cache, NEW order, SetToken(k, t, cache, order)
  PROVE  \A j \in Keys : cache[j] # None => cache[j] = IF j = k THEN t ELSE tokenCache[j]
<1> DEFINE filled == [tokenCache EXCEPT ![k] = t]
<1>1. \A j \in Keys : filled[j] = IF j = k THEN t ELSE tokenCache[j] BY DEF TypeOK
<1>2. CASE tokenCache[k] # None BY <1>1, <1>2 DEF SetToken
<1>3. CASE tokenCache[k] = None
  <2> DEFINE pushed == Append(cacheOrder, k)
  <2>1. PICK n \in 0 .. Len(pushed) :
          cache = [j \in Keys |->
                     IF \E i \in 1 .. n : pushed[i] = j /\ j # EmptyKey
                     THEN None ELSE filled[j]]
    BY <1>3 DEF SetToken
  <2>2. QED BY <1>1, <2>1
<1>4. QED BY <1>2, <1>3

LEMMA SetTokenOwned ==
  ASSUME TypeOK, Owned(tokenCache), NEW k \in Keys, NEW t \in Tokens, Owner(t) = k,
         NEW cache, NEW order, SetToken(k, t, cache, order)
  PROVE  Owned(cache)
BY SetTokenValues DEF Owned

LEMMA ServeKeepsKeys ==
  ASSUME TypeOK, FlightInv, WaitsForItsKey, GotItsKey, NEW c \in Callers,
         NEW cache \in [Keys -> Tokens \cup {None}], Owned(cache), Serve(c, cache),
         UNCHANGED key
  PROVE  WaitsForItsKey' /\ GotItsKey'
<1>0. key[c] \in Keys BY DEF TypeOK
<1>1. CASE Returns(c, cache[key[c]]) /\ IsTokenValid(cache[key[c]])
  <2>1. Owner(cache[key[c]])' = key[c]
    BY <1>0, <1>1 DEF Owned, IsTokenValid, Owner
  <2>2. GotItsKey'
    BY <1>1, <2>1 DEF Returns, GotItsKey, TypeOK, Owner
  <2>3. WaitsForItsKey'
    BY <1>1 DEF Returns, Becomes, WaitsForItsKey, TypeOK
  <2>4. QED BY <2>2, <2>3
<1>2. CASE Fails(c, "closed")
  BY <1>2 DEF Fails, Becomes, WaitsForItsKey, GotItsKey, TypeOK, Owner
<1>3. ASSUME NEW r \in Callers, key[r] = key[c], Becomes(c, "waiting"),
             waits' = [waits EXCEPT ![c] = r], UNCHANGED got
      PROVE  WaitsForItsKey' /\ GotItsKey'
  <2>1. GotItsKey' BY <1>3 DEF GotItsKey, Owner
  <2>2. \A d \in Callers : /\ waits'[d] = IF d = c THEN r ELSE waits[d]
                           /\ d # c => pc'[d] = pc[d]
    BY <1>3 DEF Becomes, TypeOK
  <2>3. QED BY <1>3, <2>1, <2>2 DEF WaitsForItsKey
<1>4. CASE JoinRefresh(c) /\ refreshPromises[key[c]] # None
  <2>1. refreshPromises[key[c]] \in Callers BY <1>0, <1>4 DEF TypeOK
  <2>2. key[refreshPromises[key[c]]] = key[c]
    BY <1>0, <1>4 DEF FlightInv, PromisesAreInFlight
  <2>3. QED BY <1>3, <1>4, <2>1, <2>2 DEF JoinRefresh
<1>5. CASE BeginRefresh(c)
  BY <1>3, <1>5 DEF BeginRefresh
<1>6. QED BY <1>1, <1>2, <1>4, <1>5 DEF Serve, RefreshAccessToken

KeysInv == Owned(tokenCache) /\ WaitsForItsKey /\ GotItsKey

LEMMA NextKeys ==
  ASSUME TypeOK, TypeOK', FlightInv, KeysInv, [Next]_vars
  PROVE  KeysInv'
<1> USE DEF KeysInv
<1>0. UNCHANGED key
  BY DEF Next, vars, GetAccessToken, CallStep, Retrieved, RetrieveThrows, Resume,
     RefreshStep, RequestFails, HeadersArrive, BodyIsRefused, BodyIsToken, HookThrows,
     HookReturns, ListenersRun, Finally, InvalidateToken, ClearTokenCache, Close, Expire, calls
<1>1. Owned(tokenCache') => Owned(tokenCache)' BY <1>0 DEF Owned, Owner
<1>2. UNCHANGED calls => WaitsForItsKey' /\ GotItsKey'
  BY DEF calls, WaitsForItsKey, GotItsKey, Owner
<1>3. ASSUME NEW c \in Callers, GetAccessToken(c) PROVE KeysInv'
  <2>1. UNCHANGED tokenCache BY <1>3 DEF GetAccessToken
  <2>2. CASE \E why \in {"closed", "retrieving"} : Becomes(c, why) /\ UNCHANGED <<got, waits>>
    <3>1. WaitsForItsKey' /\ GotItsKey'
      BY <1>0, <2>2 DEF Becomes, WaitsForItsKey, GotItsKey, TypeOK, Owner
    <3>2. QED BY <1>1, <2>1, <3>1
  <2>3. CASE Serve(c, tokenCache)
    BY <1>0, <1>1, <2>1, <2>3, ServeKeepsKeys DEF TypeOK
  <2>4. QED BY <1>3, <2>2, <2>3 DEF GetAccessToken, Fails
<1>4. ASSUME NEW c \in Callers, Retrieved(c) PROVE KeysInv'
  <2>1. Owned(tokenCache')
    <3>1. ASSUME NEW t \in InStore(key[c]), SetToken(key[c], t, tokenCache', cacheOrder')
          PROVE  Owned(tokenCache')
      <4>1. key[c] \in Keys /\ t \in Tokens /\ Owner(t) = key[c]
        BY AuthAssumption DEF TypeOK, InStore, Tokens, Owner
      <4>2. QED BY <3>1, <4>1, SetTokenOwned
    <3>2. QED BY <1>4, <3>1 DEF Retrieved
  <2>2. tokenCache' \in [Keys -> Tokens \cup {None}] BY DEF TypeOK
  <2>3. QED BY <1>0, <1>1, <1>4, <2>1, <2>2, ServeKeepsKeys DEF Retrieved
<1>5. ASSUME NEW c \in Callers, RetrieveThrows(c) PROVE KeysInv'
  <2>1. WaitsForItsKey' /\ GotItsKey' /\ UNCHANGED tokenCache
    BY <1>0, <1>5 DEF RetrieveThrows, Fails, Becomes, WaitsForItsKey, GotItsKey, TypeOK, Owner
  <2>2. QED BY <1>1, <2>1
<1>6. ASSUME NEW c \in Callers, Resume(c) PROVE KeysInv'
  <2>1. waits[c] \in Callers /\ key[waits[c]] = key[c] /\ UNCHANGED tokenCache
    BY <1>6 DEF Resume, WaitsForItsKey
  <2>2. WaitsForItsKey'
    BY <1>0, <1>6 DEF Resume, Returns, Fails, Becomes, WaitsForItsKey, TypeOK
  <2>3. UNCHANGED waits /\ Owner(waits[c])' = key[c]
    BY <1>0, <1>6, <2>1, AuthAssumption DEF Resume, Returns, Fails, Owner
  <2>4. GotItsKey'
    BY <1>0, <1>6, <2>3 DEF Resume, Returns, Fails, GotItsKey, TypeOK, Owner
  <2>5. QED BY <1>1, <2>1, <2>2, <2>4
<1>7. ASSUME NEW r \in Callers, BodyIsToken(r) PROVE KeysInv'
  <2>1. key[r] \in Keys /\ r \in Tokens /\ Owner(r) = key[r]
    BY AuthAssumption DEF TypeOK, Tokens, Owner
  <2>2. Owned(tokenCache') BY <1>7, <2>1, SetTokenOwned DEF BodyIsToken
  <2>3. QED BY <1>1, <1>2, <1>7, <2>2 DEF BodyIsToken
<1>8. ASSUME NEW r \in Callers, RefreshStep(r), ~BodyIsToken(r) PROVE KeysInv'
  <2>1. UNCHANGED <<tokenCache, calls>>
    BY <1>8 DEF RefreshStep, RequestFails, HeadersArrive, BodyIsRefused, HookThrows,
       HookReturns, ListenersRun, Finally
  <2>2. QED BY <1>1, <1>2, <2>1
<1>9. CASE ClearTokenCache \/ Close \/ \E k \in Keys : InvalidateToken(k)
  <2>1. UNCHANGED calls BY <1>9 DEF ClearTokenCache, Close, InvalidateToken, calls
  <2>2. Owned(tokenCache')
    BY <1>9 DEF ClearTokenCache, Close, InvalidateToken, Owned, TypeOK
  <2>3. QED BY <1>1, <1>2, <2>1, <2>2
<1>10. CASE UNCHANGED vars \/ \E t \in Tokens : Expire(t)
  <2>1. UNCHANGED <<tokenCache, calls>> BY <1>10 DEF vars, Expire, calls
  <2>2. QED BY <1>1, <1>2, <2>1
<1>11. QED
  BY <1>3, <1>4, <1>5, <1>6, <1>7, <1>8, <1>9, <1>10 DEF Next, CallStep

\* Sharing refreshes, retrieving and eviction never hand the token of one key
\* to a caller of another.
THEOREM KeysAreNotMixedUp == Spec => []TokensStayWithTheirKey
<1>1. Init => KeysInv
  BY DEF Init, KeysInv, Owned, WaitsForItsKey, GotItsKey
<1>2. TypeOK /\ TypeOK' /\ FlightInv /\ KeysInv /\ [Next]_vars => KeysInv'
  BY NextKeys
<1>3. KeysInv => TokensStayWithTheirKey
  BY DEF KeysInv, Owned, GotItsKey, TokensStayWithTheirKey, Cached
<1>4. QED BY TypeCorrect, FlightInvariant, <1>1, <1>2, <1>3, PTL DEF Spec
(***************************************************************************)
(* After close().                                                          *)
(***************************************************************************)

\* A call that finds auth closed begins no refresh, whether it comes in or
\* comes back from the hook; and nothing else ever begins one.
THEOREM NothingGoesOutAfterClose == Spec => NoRefreshAfterClose
<1> DEFINE Stays == closed => \A r \in Callers : rpc[r] = "none" => rpc'[r] = "none"
<1>1. ASSUME TypeOK, [Next]_vars PROVE Stays
  <2> SUFFICES ASSUME closed, NEW r \in Callers, rpc[r] = "none" PROVE rpc'[r] = "none"
    OBVIOUS
  <2>1. ASSUME NEW c \in Callers, GetAccessToken(c) PROVE UNCHANGED rpc
    BY <2>1 DEF GetAccessToken, Fails
  <2>2. ASSUME NEW c \in Callers, NEW cache, Serve(c, cache) PROVE UNCHANGED rpc
    BY <2>2 DEF Serve, Returns, RefreshAccessToken, Fails
  <2>3. ASSUME NEW c \in Callers, CallStep(c) PROVE UNCHANGED rpc
    BY <2>2, <2>3 DEF CallStep, Retrieved, RetrieveThrows, Resume, Returns, Fails
  <2>4. ASSUME NEW q \in Callers, RefreshStep(q) PROVE rpc[q] # "none" /\ rpc' = [rpc EXCEPT ![q] = rpc'[q]]
    BY <2>4 DEF TypeOK, RefreshStep, RequestFails, HeadersArrive, BodyIsRefused,
       BodyIsToken, HookThrows, HookReturns, ListenersRun, Finally, RefreshTo
  <2>5. ASSUME \/ ClearTokenCache \/ Close \/ (\E k \in Keys : InvalidateToken(k))
               \/ (\E t \in Tokens : Expire(t)) \/ UNCHANGED vars
        PROVE  UNCHANGED rpc
    BY <2>5 DEF ClearTokenCache, Close, InvalidateToken, Expire, vars
  <2>6. QED BY <1>1, <2>1, <2>3, <2>4, <2>5 DEF Next, TypeOK
<1>2. TypeOK /\ [Next]_vars => [Stays]_vars BY <1>1
<1>3. QED BY TypeCorrect, <1>2, PTL DEF Spec, NoRefreshAfterClose

(***************************************************************************)
(* Newer tokens.  Without a retriever a token comes from a refresh, and    *)
(* refreshes of a key follow each other: what is cached when a refresh has *)
(* its answer was issued before it.                                        *)
(***************************************************************************)
IsIssued(t) == \E i \in 1 .. Len(issued) : issued[i] = t
Precedes(s, t) ==
  \E i, j \in 1 .. Len(issued) : i < j /\ issued[i] = s /\ issued[j] = t

NewestInv ==
  /\ \A c \in Callers : pc[c] # "retrieving"
  /\ \A k \in Keys : tokenCache[k] # None => tokenCache[k] \in Callers /\ IsIssued(tokenCache[k])
  /\ \A r \in Callers : rpc[r] = "body" =>
       /\ IsIssued(r)
       /\ tokenCache[key[r]] # None => Precedes(tokenCache[key[r]], r)

\* Steps that cache and issue nothing, and begin no retrieval.
LEMMA NewestStays ==
  ASSUME TypeOK, NewestInv, UNCHANGED <<issued, key>>,
         \A k \in Keys : tokenCache'[k] # None => tokenCache'[k] = tokenCache[k],
         \A c \in Callers : pc'[c] # "retrieving",
         \A r \in Callers : rpc'[r] = "body" => rpc[r] = "body"
  PROVE  NewestInv'
<1>1. \A t, u : (IsIssued(t)' <=> IsIssued(t)) /\ (Precedes(t, u)' <=> Precedes(t, u))
  BY DEF IsIssued, Precedes
<1>2. \A r \in Callers : key[r] \in Keys BY DEF TypeOK
<1>3. QED BY <1>1, <1>2 DEF NewestInv

LEMMA ServeNewest ==
  ASSUME TypeOK, NewestInv, NEW c \in Callers, NEW cache, Serve(c, cache),
         UNCHANGED <<issued, key, tokenCache>>
  PROVE  NewestInv'
<1>1. \A d \in Callers : pc'[d] # "retrieving"
  BY DEF Serve, Returns, Fails, RefreshAccessToken, JoinRefresh, BeginRefresh, Becomes,
         NewestInv, TypeOK
<1>2. \A r \in Callers : rpc'[r] = "body" => rpc[r] = "body"
  BY DEF Serve, Returns, Fails, RefreshAccessToken, JoinRefresh, BeginRefresh, TypeOK
<1>3. QED BY <1>1, <1>2, NewestStays

\* The answer of a refresh is issued after all that is cached.
LEMMA HeadersNewest ==
  ASSUME TypeOK, NewestInv, NEW r \in Callers, HeadersArrive(r)
  PROVE  NewestInv'
<1>1. /\ Len(issued') = Len(issued) + 1 /\ Len(issued) \in Nat
      /\ \A i \in 1 .. Len(issued) : issued'[i] = issued[i]
      /\ issued'[Len(issued) + 1] = r
  BY AppendProperties, LenProperties DEF TypeOK, HeadersArrive
<1>2. /\ UNCHANGED <<tokenCache, pc, key>>
      /\ \A q \in Callers : rpc'[q] = IF q = r THEN "body" ELSE rpc[q]
  BY DEF HeadersArrive, RefreshTo, calls, TypeOK
<1>3. \A t : IsIssued(t) => IsIssued(t)' /\ Precedes(t, r)'
  BY <1>1 DEF IsIssued, Precedes
<1>4. IsIssued(r)' BY <1>1 DEF IsIssued
<1>5. \A t, u : Precedes(t, u) => Precedes(t, u)'
  BY <1>1 DEF Precedes
<1>6. \A q \in Callers : key[q] \in Keys BY DEF TypeOK
<1>7. QED BY <1>2, <1>3, <1>4, <1>5, <1>6 DEF NewestInv

\* A cached token changes in only one way but to disappear.
Newer ==
  \A k \in Keys, s, t \in Tokens :
    tokenCache[k] = s /\ tokenCache'[k] = t /\ s # t => Precedes(s, t)'

LEMMA BodyNewest ==
  ASSUME TypeOK, FlightInv, NewestInv, NEW r \in Callers, BodyIsToken(r)
  PROVE  /\ NewestInv'
         /\ Newer
<1>1. /\ UNCHANGED <<issued, pc, key>> /\ rpc[r] = "body" /\ key[r] \in Keys /\ r \in Tokens
      /\ \A q \in Callers : rpc'[q] = IF q = r THEN "hook" ELSE rpc[q]
  BY DEF BodyIsToken, RefreshTo, calls, TypeOK, Tokens
<1>2. \A j \in Keys : tokenCache'[j] # None
                        => tokenCache'[j] = IF j = key[r] THEN r ELSE tokenCache[j]
  BY <1>1, SetTokenValues DEF BodyIsToken
<1>3. \A t, u : (IsIssued(t)' <=> IsIssued(t)) /\ (Precedes(t, u)' <=> Precedes(t, u))
  BY <1>1 DEF IsIssued, Precedes
<1>4. IsIssued(r) /\ (tokenCache[key[r]] # None => Precedes(tokenCache[key[r]], r))
  BY <1>1 DEF NewestInv
<1>5. \A q \in Callers : rpc'[q] = "body" => rpc[q] = "body" /\ key[q] # key[r]
  BY <1>1 DEF FlightInv, SingleFlight, InFlight
<1>6. \A q \in Callers : key[q] \in Keys BY DEF TypeOK
<1>7. \A k \in Keys : tokenCache'[k] # None => tokenCache'[k] \in Callers /\ IsIssued(tokenCache'[k])
  BY <1>2, <1>4 DEF NewestInv
<1>8. \A q \in Callers : rpc'[q] = "body" =>
        /\ IsIssued(q)
        /\ tokenCache'[key[q]] # None => Precedes(tokenCache'[key[q]], q)
  BY <1>2, <1>5, <1>6 DEF NewestInv
<1>9. NewestInv'
  BY <1>1, <1>3, <1>7, <1>8 DEF NewestInv
<1>10. Newer
  <2> SUFFICES ASSUME NEW k \in Keys, NEW s \in Tokens, NEW t \in Tokens,
                      tokenCache[k] = s, tokenCache'[k] = t, s # t
               PROVE  Precedes(s, t)'
    BY DEF Newer
  <2>1. s # None /\ t # None BY AuthAssumption DEF Tokens
  <2>2. k = key[r] /\ t = r BY <1>2, <2>1
  <2>3. Precedes(s, r) BY <1>4, <2>1, <2>2
  <2>4. QED BY <1>3, <2>2, <2>3
<1>11. QED BY <1>9, <1>10

LEMMA NextNewest ==
  ASSUME ~Retriever, TypeOK, FlightInv, NewestInv, [Next]_vars
  PROVE  NewestInv' /\ Newer
<1>1. ASSUME NEW c \in Callers, GetAccessToken(c) PROVE NewestInv' /\ Newer
  <2>1. UNCHANGED <<tokenCache, issued, key>> BY <1>1 DEF GetAccessToken
  <2>2. CASE Fails(c, "closed")
    <3>1. (\A d \in Callers : pc'[d] # "retrieving") /\ UNCHANGED rpc
      BY <2>2 DEF Fails, Becomes, NewestInv, TypeOK
    <3>2. QED BY <2>1, <3>1, NewestStays DEF Newer
  <2>3. CASE Serve(c, tokenCache)
    BY <2>1, <2>3, ServeNewest DEF Newer
  <2>4. QED BY <1>1, <2>2, <2>3 DEF GetAccessToken
<1>2. ASSUME NEW c \in Callers, CallStep(c) PROVE NewestInv' /\ Newer
  <2>1. Resume(c) BY <1>2 DEF CallStep, Retrieved, RetrieveThrows, NewestInv
  <2>2. (\A d \in Callers : pc'[d] # "retrieving") /\ UNCHANGED <<rpc, tokenCache, issued, key>>
    BY <2>1 DEF Resume, Returns, Fails, Becomes, NewestInv, TypeOK
  <2>3. QED BY <2>2, NewestStays DEF Newer
<1>3. ASSUME NEW r \in Callers, RefreshStep(r) PROVE NewestInv' /\ Newer
  <2>1. CASE HeadersArrive(r)
    BY <2>1, HeadersNewest DEF HeadersArrive, Newer
  <2>2. CASE BodyIsToken(r)
    BY <2>2, BodyNewest DEF Newer
  <2>3. CASE \/ RequestFails(r) \/ BodyIsRefused(r) \/ HookThrows(r) \/ HookReturns(r)
             \/ ListenersRun(r) \/ Finally(r)
    <3>1. UNCHANGED <<tokenCache, issued, key, pc>>
      BY <2>3 DEF RequestFails, BodyIsRefused, HookThrows, HookReturns, ListenersRun,
         Finally, calls
    <3>2. \A q \in Callers : rpc'[q] = "body" => rpc[q] = "body"
      BY <2>3 DEF RequestFails, BodyIsRefused, HookThrows, HookReturns, ListenersRun,
         Finally, RefreshTo, TypeOK
    <3>3. \A c \in Callers : pc'[c] # "retrieving" BY <3>1 DEF NewestInv
    <3>4. QED BY <3>1, <3>2, <3>3, NewestStays DEF Newer
  <2>4. QED BY <1>3, <2>1, <2>2, <2>3 DEF RefreshStep
<1>4. CASE \/ ClearTokenCache \/ Close \/ (\E k \in Keys : InvalidateToken(k))
           \/ (\E t \in Tokens : Expire(t)) \/ UNCHANGED vars
  <2>1. UNCHANGED <<issued, key, pc, rpc>>
    BY <1>4 DEF ClearTokenCache, Close, InvalidateToken, Expire, vars, calls
  <2>2. \A k \in Keys : tokenCache'[k] # None => tokenCache'[k] = tokenCache[k]
    BY <1>4 DEF ClearTokenCache, Close, InvalidateToken, Expire, vars, TypeOK
  <2>3. \A c \in Callers : pc'[c] # "retrieving" BY <2>1 DEF NewestInv
  <2>4. NewestInv' BY <2>1, <2>2, <2>3, NewestStays
  <2>5. Newer BY <2>2, AuthAssumption DEF Newer, Tokens
  <2>6. QED BY <2>4, <2>5
<1>5. QED BY <1>1, <1>2, <1>3, <1>4 DEF Next

\* Where tokens come from refreshes only, a cached token is never replaced by
\* one that Zoho issued before it, although answers, bodies and hooks of
\* different refreshes interleave.
THEOREM CachedTokensGetNewer ==
  ASSUME ~Retriever
  PROVE  Spec => NewestTokenStays
<1>1. Init => NewestInv BY DEF Init, NewestInv
<1>2. TypeOK /\ FlightInv /\ NewestInv /\ [Next]_vars => NewestInv'
  BY NextNewest
<1>3. TypeOK /\ TypeOK' /\ FlightInv /\ NewestInv /\ [Next]_vars
        => [\A k \in Keys : tokenCache[k] # None /\ tokenCache'[k] \notin {None, tokenCache[k]}
              => IssuedBefore(tokenCache[k], tokenCache'[k], issued')]_vars
  <2> SUFFICES ASSUME TypeOK, TypeOK', FlightInv, NewestInv, [Next]_vars, NEW k \in Keys,
                      tokenCache[k] # None, tokenCache'[k] \notin {None, tokenCache[k]}
               PROVE  IssuedBefore(tokenCache[k], tokenCache'[k], issued')
    OBVIOUS
  <2>1. PICK s \in Tokens : s = tokenCache[k] BY DEF TypeOK
  <2>2. PICK t \in Tokens : t = tokenCache'[k] BY DEF TypeOK
  <2>3. Precedes(s, t)' BY <2>1, <2>2, NextNewest DEF Newer
  <2>4. DOMAIN issued' = 1 .. Len(issued') BY LenProperties DEF TypeOK
  <2>5. QED BY <2>1, <2>2, <2>3, <2>4 DEF IssuedBefore, Precedes
<1>4. QED BY TypeCorrect, FlightInvariant, <1>1, <1>2, <1>3, PTL DEF Spec, NewestTokenStays
=============================================================================
