------------------------------- MODULE Client -------------------------------
(***************************************************************************)
(* src/zoho-crm.ts, src/entry/base-client.ts and src/entry/bulk.ts: the    *)
(* parts of a client put together.  A call passes through the limiters,    *)
(* the beforeRequest hooks, the token cache and the wire; hooks make calls *)
(* of their own and wait for them; close() shuts the parts one after the   *)
(* other and lets the application run in between.                          *)
(*                                                                         *)
(* RateLimiter, ZohoAuth and HttpClient have the detail of each part.      *)
(* Here a limiter grants its slots at any time, a call has one attempt,    *)
(* and there is one cache key, as the HTTP client only uses the default.   *)
(***************************************************************************)
EXTENDS Naturals, Sequences, FiniteSets

CONSTANTS Calls,      \* calls the application makes
          Inner,      \* calls that hooks make, and await
          Downloads,  \* those of Calls that are downloadReadResult()
          Closes,     \* calls of close()
          ThrowingCallbacks  \* may the application's onQueueChange throw?

ASSUME ClientAssumption ==
  /\ Calls \cap Inner = {}
  /\ Downloads \subseteq Calls
  /\ ThrowingCallbacks \in BOOLEAN

VARIABLES limiters,   \* the limiters configured, of {"api", "bulk"}
          open,       \* per limiter
          line,       \* its queue
          phase,      \* where each call is
          maker,      \* whose hook made it: a call, "refresh", or "application"
          token,      \* is there a valid token in the cache?
          lost,       \* history: it went while hooks are being told of it
          refresh,    \* where the refresh in flight is
          authClosed, httpClosed,
          thread,     \* "free", or the limiter whose onQueueChange close() is in
          result      \* per call of close()

requests == <<phase, maker, line>>
auth == <<token, lost, refresh, authClosed>>
shutdown == <<open, httpClosed, thread, result>>
vars == <<limiters, requests, auth, shutdown>>

AllCalls == Calls \cup Inner
Limiters == {"api", "bulk"}
\* A call is over when it has been answered, with a result or with an error.
Phases == {"idle", "bulk", "api", "hooks", "token", "ready", "wire", "over"}
Pending(c) == phase[c] \notin {"idle", "over"}
MadeBy(m) == {c \in Inner : maker[c] = m}
HooksAreDone(m) == \A c \in MadeBy(m) : ~Pending(c)

Init ==
  /\ limiters \in SUBSET Limiters
  /\ open = [l \in Limiters |-> TRUE]
  /\ line = [l \in Limiters |-> <<>>]
  /\ phase = [c \in AllCalls |-> "idle"]
  /\ maker = [c \in AllCalls |-> "application"]
  /\ token = FALSE /\ lost = FALSE /\ refresh = "none" /\ authClosed = FALSE
  /\ httpClosed = FALSE /\ thread = "free"
  /\ result = [k \in Closes |-> "none"]

Goes(c, where) == phase' = [phase EXCEPT ![c] = where]
\* c leaves the head of its line.
Leaves(c, l) == line' = [line EXCEPT ![l] = Tail(@)]

-----------------------------------------------------------------------------
(* Calls.                                                                  *)

\* RateLimiter.schedule(): into the line, or refused.
Enqueue(c, l) ==
  IF open[l] THEN /\ Goes(c, l) /\ line' = [line EXCEPT ![l] = Append(@, c)]
             ELSE Goes(c, "over") /\ UNCHANGED line

\* HttpClient.request() and requestRaw() up to their first await.
Request(c) ==
  CASE httpClosed -> Goes(c, "over") /\ UNCHANGED line
    [] ~httpClosed /\ "api" \in limiters -> Enqueue(c, "api")
    [] OTHER -> Goes(c, "hooks") /\ UNCHANGED line

\* downloadReadResult() asks its own limiter first.
Start(c) ==
  /\ phase[c] = "idle"
  /\ IF c \in Downloads /\ "bulk" \in limiters THEN Enqueue(c, "bulk") ELSE Request(c)
  /\ UNCHANGED <<limiters, auth, shutdown>>

\* The application calls, between other code or in a callback of close().
ApplicationCalls(c) == c \in Calls /\ Start(c) /\ UNCHANGED maker

\* A hook calls: beforeRequest of a call, or one that observes a refresh.
HookCalls(c, m) ==
  /\ thread = "free"
  /\ m = "refresh" => refresh = "hooks"
  /\ m \in AllCalls => m # c /\ phase[m] = "hooks"
  /\ Start(c)
  /\ maker' = [maker EXCEPT ![c] = m]

\* A download has its slot and goes on to requestRaw().
GrantBulk ==
  /\ thread = "free" /\ line["bulk"] # <<>>
  /\ LET c == Head(line["bulk"])
         rest == [line EXCEPT !["bulk"] = Tail(@)]
     IN CASE httpClosed \/ ("api" \in limiters /\ ~open["api"]) ->
               Goes(c, "over") /\ line' = rest
          [] ~httpClosed /\ "api" \in limiters /\ open["api"] ->
               Goes(c, "api") /\ line' = [rest EXCEPT !["api"] = Append(@, c)]
          [] OTHER -> Goes(c, "hooks") /\ line' = rest
  /\ UNCHANGED <<limiters, maker, auth, shutdown>>

\* A call has its slot and begins performRequest().
GrantApi ==
  /\ thread = "free" /\ line["api"] # <<>>
  /\ LET c == Head(line["api"])
     IN Leaves(c, "api") /\ Goes(c, IF httpClosed THEN "over" ELSE "hooks")
  /\ UNCHANGED <<limiters, maker, auth, shutdown>>

\* The beforeRequest hooks have returned: getAccessToken().
GetAccessToken(c) ==
  /\ thread = "free" /\ phase[c] = "hooks" /\ HooksAreDone(c)
  /\ Goes(c, CASE authClosed -> "over"
               [] ~authClosed /\ token -> "ready"
               [] OTHER -> "token")
  /\ refresh' = IF ~authClosed /\ ~token /\ refresh = "none"
                THEN "requesting" ELSE refresh
  /\ UNCHANGED <<limiters, maker, line, token, lost, authClosed, shutdown>>

\* The token is there: the request is sent, or refused by a closed dispatcher.
Send(c) ==
  /\ thread = "free" /\ phase[c] = "ready"
  /\ Goes(c, IF httpClosed THEN "over" ELSE "wire")
  /\ UNCHANGED <<limiters, maker, line, auth, shutdown>>

\* An answer and the hooks after it, a timeout, or the abort of close().
WireEnds(c) ==
  /\ thread = "free" /\ phase[c] = "wire"
  /\ Goes(c, "over")
  /\ UNCHANGED <<limiters, maker, line, auth, shutdown>>

-----------------------------------------------------------------------------
(* The token.                                                              *)

\* All calls that wait for the refresh go on.
WaitersGo(where) ==
  phase' = [c \in AllCalls |-> IF phase[c] = "token" THEN where ELSE phase[c]]

RefreshFails ==
  /\ thread = "free" /\ refresh = "requesting"
  /\ refresh' = "none" /\ WaitersGo("over")
  /\ UNCHANGED <<limiters, maker, line, token, lost, authClosed, shutdown>>

CachedLater ==                                   \* mutant: hooks before the cache
  /\ thread = "free" /\ refresh = "requesting"
  /\ refresh' = "hooks"
  /\ UNCHANGED <<limiters, requests, token, lost, authClosed, shutdown>>
\* The token is cached before anyone is told of it.
TokenArrives ==
  /\ thread = "free" /\ refresh = "requesting"
  /\ token' = TRUE /\ refresh' = "hooks"
  /\ UNCHANGED <<limiters, requests, lost, authClosed, shutdown>>

\* onTokenRefresh, and the listener by which plugins hear of it, have returned
\* or thrown.
RefreshHooksEnd ==
  /\ thread = "free" /\ refresh = "hooks" /\ HooksAreDone("refresh")
  /\ refresh' = "none" /\ lost' = FALSE
  /\ \E where \in {"ready", "over"} : WaitersGo(where)
  /\ UNCHANGED <<limiters, maker, line, token, authClosed, shutdown>>

\* The token expires, or was too short-lived from the start, or
\* clearCachedState() or invalidateToken() is called.  A refresh whose hooks
\* are running is none the less the one that the next call waits for.
TokenGoes ==
  /\ token
  /\ token' = FALSE /\ lost' = (refresh = "hooks")
  /\ UNCHANGED <<limiters, requests, refresh, authClosed, shutdown>>

-----------------------------------------------------------------------------
(* close().                                                                *)

QueueForgotten(l) ==                             \* mutant: entries not rejected
  /\ open' = [open EXCEPT ![l] = FALSE]
  /\ line' = [line EXCEPT ![l] = <<>>]
  /\ thread' = l
  /\ UNCHANGED <<phase, auth, httpClosed>>
\* RateLimiter.close(), as far as its onQueueChange.
CloseLimiter(l) ==
  /\ open' = [open EXCEPT ![l] = FALSE]
  /\ line' = [line EXCEPT ![l] = <<>>]
  /\ phase' = [c \in AllCalls |-> IF phase[c] = l THEN "over" ELSE phase[c]]
  /\ thread' = l
  /\ UNCHANGED <<auth, httpClosed>>

\* auth.close() and http.close(), as far as the wait for the dispatcher.
CloseAuthAndHttp ==
  /\ authClosed' = TRUE /\ token' = FALSE
  /\ httpClosed' = TRUE /\ thread' = "free"
  /\ UNCHANGED <<open, line, phase, lost, refresh>>

\* close() from the limiters in `left' on.
ClosesOn(left) ==
  CASE "api" \in left -> CloseLimiter("api")
    [] "api" \notin left /\ "bulk" \in left -> CloseLimiter("bulk")
    [] OTHER -> CloseAuthAndHttp

\* A close() is in a callback, or it waits for the dispatcher.
Progress(k) == IF thread' = "free" THEN "draining" ELSE "running"

Close(k) ==
  /\ thread = "free" /\ result[k] = "none"
  /\ ClosesOn(limiters)
  /\ result' = [result EXCEPT ![k] = Progress(k)]
  /\ UNCHANGED <<limiters, maker>>

CallbackReturns ==
  /\ thread # "free"
  /\ ClosesOn(IF thread = "api" THEN limiters \ {"api"} ELSE {})
  /\ result' = [k \in Closes |-> IF result[k] = "running" THEN Progress(k) ELSE result[k]]
  /\ UNCHANGED <<limiters, maker>>

ErrorSwallowed ==                                \* mutant: close() as if all was well
  /\ ThrowingCallbacks /\ thread # "free"
  /\ thread' = "free"
  /\ result' = [k \in Closes |-> IF result[k] = "running" THEN "returned" ELSE result[k]]
  /\ UNCHANGED <<limiters, requests, auth, open, httpClosed>>
\* An error of the callback ends close() where it is, also when the limiter
\* was closed before: RateLimiter.close() calls it each time.
CallbackThrows ==
  /\ ThrowingCallbacks /\ thread # "free"
  /\ thread' = "free"
  /\ result' = [k \in Closes |-> IF result[k] = "running" THEN "threw" ELSE result[k]]
  /\ UNCHANGED <<limiters, requests, auth, open, httpClosed>>

\* The dispatcher has closed, which it does when nothing is on the wire.
CloseEnds(k) ==
  /\ thread = "free" /\ result[k] = "draining"
  /\ \A c \in AllCalls : phase[c] # "wire"
  /\ result' = [result EXCEPT ![k] = "returned"]
  /\ UNCHANGED <<limiters, requests, auth, open, httpClosed, thread>>
-----------------------------------------------------------------------------
Next ==
  \/ \E c \in Calls : ApplicationCalls(c)
  \/ \E c \in Inner, m \in AllCalls \cup {"refresh"} : HookCalls(c, m)
  \/ GrantBulk \/ GrantApi
  \/ \E c \in AllCalls : GetAccessToken(c) \/ Send(c) \/ WireEnds(c)
  \/ RefreshFails \/ TokenArrives \/ RefreshHooksEnd \/ TokenGoes
  \/ \E k \in Closes : Close(k) \/ CloseEnds(k)
  \/ CallbackReturns \/ CallbackThrows

Spec == Init /\ [][Next]_vars

\* Limiters grant, timeouts end exchanges, hooks and callbacks return.
Fairness ==
  /\ WF_vars(GrantBulk) /\ WF_vars(GrantApi)
  /\ \A c \in AllCalls : WF_vars(GetAccessToken(c)) /\ WF_vars(Send(c)) /\ WF_vars(WireEnds(c))
  /\ WF_vars(RefreshFails \/ TokenArrives) /\ WF_vars(RefreshHooksEnd)
  /\ WF_vars(CallbackReturns)
  /\ \A k \in Closes : WF_vars(CloseEnds(k))
FairSpec == Spec /\ Fairness

-----------------------------------------------------------------------------
(* Properties.                                                             *)

TypeOK ==
  /\ limiters \subseteq Limiters
  /\ open \in [Limiters -> BOOLEAN]
  /\ line \in [Limiters -> Seq(AllCalls)]
  /\ phase \in [AllCalls -> Phases]
  /\ maker \in [AllCalls -> AllCalls \cup {"application", "refresh"}]
  /\ token \in BOOLEAN /\ lost \in BOOLEAN
  /\ refresh \in {"none", "requesting", "hooks"}
  /\ authClosed \in BOOLEAN /\ httpClosed \in BOOLEAN
  /\ thread \in Limiters \cup {"free"}
  /\ result \in [Closes -> {"none", "running", "draining", "returned", "threw"}]

\* close() fails or closes everything: if a call of it has returned, no limiter
\* is open and nothing waits in one, and auth and the HTTP client are closed
\* with nothing on the wire, whatever calls began or went on meanwhile.
ReturnedMeansClosed ==
  (\E k \in Closes : result[k] = "returned") =>
    /\ \A l \in limiters : ~open[l] /\ line[l] = <<>>
    /\ authClosed /\ httpClosed
    /\ \A c \in AllCalls : phase[c] # "wire"

\* Hooks that are told of a new token wait for a call that waits for the refresh
\* that waits for them: one of theirs, or of the beforeRequest hooks of one.
SelfWait ==
  /\ refresh = "hooks"
  /\ \E c \in MadeBy("refresh") : \E d \in {c} \cup MadeBy(c) : phase[d] = "token"

\* A hook that is told of a new token may call the client: it waits for itself
\* only if that token has gone in the meantime, never because of a refresh that
\* began before, a call that waits already, or a close().
NoSelfWait == SelfWait => lost

\* Every call is answered, those of hooks and those made or cut off during
\* close() too, unless hooks wait for themselves; close() is in any case.
EveryCallSettles ==
  /\ \A c \in AllCalls : Pending(c) ~> (phase[c] = "over" \/ SelfWait)
  /\ \A k \in Closes :
       result[k] \in {"running", "draining"} ~> result[k] \in {"returned", "threw"}
=============================================================================
