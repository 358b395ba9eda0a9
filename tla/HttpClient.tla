----------------------------- MODULE HttpClient -----------------------------
(***************************************************************************)
(* src/http/http-client.ts: what happens to a call of request() or         *)
(* requestRaw(), from the rate limiter through plugin hooks, access token, *)
(* exchange with Zoho, timeout and retries to its result, and close().     *)
(*                                                                         *)
(* A step is the code between two awaits.  The rate limiter, ZohoAuth and  *)
(* the plugins appear as what they answer; undici, the HTTP library, is    *)
(* modelled from how it is used: a closed dispatcher rejects new requests  *)
(* and an aborted signal rejects the request, or the read of its body.     *)
(***************************************************************************)
EXTENDS Naturals

CONSTANTS Calls,
          RawCalls,    \* those made through requestRaw()
          MaxRetries,  \* max(0, retry.maxRetries)
          Limited      \* whether a rate limiter is configured

ASSUME HttpAssumption ==
  /\ RawCalls \subseteq Calls
  /\ MaxRetries \in Nat
  /\ Limited \in BOOLEAN

VARIABLES closed,
          timed,             \* calls with a timeout other than 0, by their own
                             \* configuration, a hook's or the client's
          phase,             \* per call: where it is
          attempt,           \* per call: 0, 1 .. MaxRetries
          activeControllers, \* calls whose AbortController is registered
          timers,            \* calls whose timeout is armed
          aborted,           \* per call: what its current signal says
          status,            \* per call: what the current attempt has got
          failure,           \* per call: the error last shown to onError
          outcome,           \* per call: what it has resolved or rejected with
          sends,             \* per call: requests put on the wire
          streams,           \* raw bodies handed out and not yet consumed
          closing            \* the promise of close()

vars == <<closed, timed, phase, attempt, activeControllers, timers, aborted,
          status, failure, outcome, sends, streams, closing>>

\* `server': status 500 and above; `client': any other that is not 2xx;
\* `network': request() failed without having been aborted.
Retryable == {"server", "network"}
Failures == {"closed", "limit", "token", "input", "schema", "client", "timeout"}
            \cup Retryable

\* `lost': a 2xx whose body could not be read; its data is undefined.
Results == {"override", "ok", "lost"}

\* Where the attempt is on the wire.
Wire == {"sent", "body", "errorBody"}
Phases == {"idle", "queued", "before", "token", "rejected", "after", "onError",
           "sleeping", "done"} \cup Wire

Init ==
  /\ closed = FALSE
  /\ timed \in SUBSET Calls
  /\ phase = [c \in Calls |-> "idle"]
  /\ attempt = [c \in Calls |-> 0]
  /\ activeControllers = {} /\ timers = {}
  /\ aborted = [c \in Calls |-> "no"]
  /\ status = [c \in Calls |-> "none"]
  /\ failure = [c \in Calls |-> "none"]
  /\ outcome = [c \in Calls |-> "none"]
  /\ sends = [c \in Calls |-> 0]
  /\ streams = {}
  /\ closing = "no"

Becomes(c, point) == phase' = [phase EXCEPT ![c] = point]
Gets(c, s) == status' = [status EXCEPT ![c] = s]

-----------------------------------------------------------------------------
(* request() and requestRaw(): the loop around the attempts.               *)

ShouldRetryError(e) == e \in Retryable

StopsShort(c) == attempt[c] + 1 >= MaxRetries    \* mutant: maxAttempts - 1 twice
LastAttempt(c) == attempt[c] = MaxRetries

\* The attempt has thrown e.
Throws(c, e) ==
  IF ShouldRetryError(e) /\ ~LastAttempt(c)
  THEN Becomes(c, "sleeping") /\ UNCHANGED outcome
  ELSE /\ Becomes(c, "done")
       /\ outcome' = [outcome EXCEPT ![c] = e]

\* performRequest() up to the beforeRequest hooks.
StartAttempt(c) ==
  IF closed THEN Throws(c, "closed") ELSE Becomes(c, "before") /\ UNCHANGED outcome

\* schedule(), for every attempt anew.
Schedule(c) ==
  IF Limited THEN Becomes(c, "queued") /\ UNCHANGED outcome ELSE StartAttempt(c)

Request(c) ==
  /\ phase[c] = "idle"
  /\ IF closed THEN Throws(c, "closed") ELSE Schedule(c)
  /\ UNCHANGED <<closed, timed, attempt, activeControllers, timers, aborted,
                 status, failure, sends, streams, closing>>

Admitted(c) ==
  /\ phase[c] = "queued"
  /\ StartAttempt(c)
  /\ UNCHANGED <<closed, timed, attempt, activeControllers, timers, aborted,
                 status, failure, sends, streams, closing>>

\* The limiter is full, the attempt has queued for too long, or crm.close()
\* has closed the limiter with this client.
Refused(c) ==
  /\ phase[c] = "queued"
  /\ \/ Throws(c, "limit")
     \/ closed /\ Throws(c, "closed")
  /\ UNCHANGED <<closed, timed, attempt, activeControllers, timers, aborted,
                 status, failure, sends, streams, closing>>

\* The backoff is over; close() does not cut it short.
Wake(c) ==
  /\ phase[c] = "sleeping"
  /\ attempt' = [attempt EXCEPT ![c] = @ + 1]
  /\ Gets(c, "none")
  /\ Schedule(c)
  /\ UNCHANGED <<closed, timed, activeControllers, timers, aborted, failure,
                 sends, streams, closing>>

-----------------------------------------------------------------------------
(* performRequest() and performRequestRaw().                               *)

\* No hook has overridden the response.
HooksPass(c) ==
  /\ phase[c] = "before"
  /\ Becomes(c, "token")
  /\ UNCHANGED <<closed, timed, attempt, activeControllers, timers, aborted,
                 status, failure, outcome, sends, streams, closing>>

\* One has; request() validates what it gave.
HooksOverride(c) ==
  /\ phase[c] = "before"
  /\ \/ Becomes(c, "after") /\ Gets(c, "override") /\ UNCHANGED outcome
     \/ c \notin RawCalls /\ Throws(c, "schema") /\ UNCHANGED status
  /\ UNCHANGED <<closed, timed, attempt, activeControllers, timers, aborted,
                 failure, sends, streams, closing>>

TokenFails(c) ==
  /\ phase[c] = "token"
  /\ Throws(c, "token")
  /\ UNCHANGED <<closed, timed, attempt, activeControllers, timers, aborted,
                 status, failure, sends, streams, closing>>

\* The URL is not secure, or the body no JSON.
InputRefused(c) ==
  /\ phase[c] = "token"
  /\ Throws(c, "input")
  /\ UNCHANGED <<closed, timed, attempt, activeControllers, timers, aborted,
                 status, failure, sends, streams, closing>>

DispatcherStaysOpen == FALSE                     \* mutant: pool not closed
DispatcherClosed == closed

NoTimeout(c) == timers                           \* mutant: timeout not armed
ArmTimeout(c) == IF c \in timed THEN timers \cup {c} ELSE timers

\* The token is there.  Whether the client was closed meanwhile is not asked:
\* only the closed dispatcher keeps the request off the wire.
Send(c) ==
  /\ phase[c] = "token"
  /\ activeControllers' = activeControllers \cup {c}
  /\ timers' = ArmTimeout(c)
  /\ aborted' = [aborted EXCEPT ![c] = "no"]
  /\ IF DispatcherClosed
     THEN Becomes(c, "rejected") /\ UNCHANGED sends
     ELSE Becomes(c, "sent") /\ sends' = [sends EXCEPT ![c] = @ + 1]
  /\ UNCHANGED <<closed, timed, attempt, status, failure, outcome, streams,
                 closing>>

\* The first abort of a controller sets its reason.
TimeoutFires(c) ==
  /\ c \in timers
  /\ timers' = timers \ {c}
  /\ aborted' = [aborted EXCEPT ![c] = IF @ = "no" THEN "timeout" ELSE @]
  /\ UNCHANGED <<closed, timed, phase, attempt, activeControllers, status,
                 failure, outcome, sends, streams, closing>>

TimerOnly(c) == /\ timers' = timers \ {c}        \* mutant: not taken off the set
                /\ UNCHANGED activeControllers
CleanupController(c) == /\ timers' = timers \ {c}
                        /\ activeControllers' = activeControllers \ {c}

\* Off to the onError hooks with e.
Reports(c, e) == Becomes(c, "onError") /\ failure' = [failure EXCEPT ![c] = e]

\* request() rejects: aborted, refused by the dispatcher, or the connection
\* failed, before or after Zoho got to see the request.
RequestFails(c) ==
  /\ phase[c] \in {"sent", "rejected"}
  /\ CleanupController(c)
  /\ Reports(c, IF aborted[c] = "no" THEN "network" ELSE aborted[c])
  /\ UNCHANGED <<closed, timed, attempt, aborted, status, outcome, sends,
                 streams, closing>>

\* request() resolves; one whose signal was aborted rejects.  A raw response is
\* let go of here: neither the timeout nor close() reaches its body.
HeadersArrive(c) ==
  /\ phase[c] = "sent"
  /\ aborted[c] = "no"
  /\ \E s \in {"ok", "client", "server"} :
       /\ Gets(c, s)
       /\ IF c \notin RawCalls
          THEN Becomes(c, "body") /\ UNCHANGED <<activeControllers, timers, streams>>
          ELSE /\ CleanupController(c)
               /\ IF s = "ok"
                  THEN Becomes(c, "after") /\ streams' = streams \cup {c}
                  ELSE Becomes(c, "errorBody") /\ UNCHANGED streams
  /\ UNCHANGED <<closed, timed, attempt, aborted, failure, outcome, sends,
                 closing>>

\* What follows readJsonSafely() in performRequest(), the response being s.
\* Where it was 2xx, the payload, undefined or not, is validated if the call
\* has a schema.
Judge(c, s) ==
  /\ Gets(c, s)
  /\ IF s \in {"ok", "lost"}
     THEN /\ \/ Becomes(c, "after") /\ UNCHANGED outcome
             \/ Throws(c, "schema")
          /\ UNCHANGED failure
     ELSE Reports(c, s) /\ UNCHANGED outcome

BodyRead(c) ==
  /\ phase[c] = "body"
  /\ aborted[c] = "no"
  /\ CleanupController(c)
  /\ Judge(c, status[c])
  /\ UNCHANGED <<closed, timed, attempt, aborted, sends, streams, closing>>

\* The body ends early: readJsonSafely() swallows the error, an abort too.
BodyLost(c) ==
  /\ phase[c] = "body"
  /\ CleanupController(c)
  /\ Judge(c, IF status[c] = "ok" THEN "lost" ELSE status[c])
  /\ UNCHANGED <<closed, timed, attempt, aborted, sends, streams, closing>>

\* performRequestRaw() has read the body of an error, or given up on it.
ErrorBodyRead(c) ==
  /\ phase[c] = "errorBody"
  /\ Reports(c, status[c])
  /\ UNCHANGED <<closed, timed, attempt, activeControllers, timers, aborted,
                 status, outcome, sends, streams, closing>>

OnErrorHooksRun(c) ==
  /\ phase[c] = "onError"
  /\ Throws(c, failure[c])
  /\ UNCHANGED <<closed, timed, attempt, activeControllers, timers, aborted,
                 status, failure, sends, streams, closing>>

AfterResponseHooksRun(c) ==
  /\ phase[c] = "after"
  /\ Becomes(c, "done")
  /\ outcome' = [outcome EXCEPT ![c] = status[c]]
  /\ UNCHANGED <<closed, timed, attempt, activeControllers, timers, aborted,
                 status, failure, sends, streams, closing>>

\* The application has consumed, or destroyed, a raw body.
StreamEnds(c) ==
  /\ c \in streams
  /\ streams' = streams \ {c}
  /\ UNCHANGED <<closed, timed, phase, attempt, activeControllers, timers,
                 aborted, status, failure, outcome, sends, closing>>

-----------------------------------------------------------------------------
(* close().                                                                *)

AbortNone == aborted                             \* mutant: cleared, not aborted
AbortActive ==
  [c \in Calls |-> IF c \in activeControllers /\ aborted[c] = "no"
                   THEN "closed" ELSE aborted[c]]

Close ==
  /\ closed' = TRUE
  /\ aborted' = AbortActive
  /\ activeControllers' = {}
  /\ closing' = "waiting"
  /\ UNCHANGED <<timed, phase, attempt, timers, status, failure, outcome,
                 sends, streams>>

\* dispatcher.close() waits for the exchanges that are under way.
CloseReturns ==
  /\ closing = "waiting"
  /\ streams = {}
  /\ \A c \in Calls : phase[c] \notin Wire
  /\ closing' = "done"
  /\ UNCHANGED <<closed, timed, phase, attempt, activeControllers, timers,
                 aborted, status, failure, outcome, sends, streams>>

-----------------------------------------------------------------------------
\* What the SDK, its limiter, its auth and the hooks bring about in time.
Advance(c) == \/ Admitted(c) \/ Refused(c) \/ Wake(c)
              \/ HooksPass(c) \/ HooksOverride(c)
              \/ TokenFails(c) \/ InputRefused(c) \/ Send(c)
              \/ OnErrorHooksRun(c) \/ AfterResponseHooksRun(c)

\* What the network may do, or never do.
Exchange(c) == RequestFails(c) \/ HeadersArrive(c) \/ BodyRead(c) \/ BodyLost(c)

Next == \/ \E c \in Calls : \/ Request(c) \/ Advance(c) \/ TimeoutFires(c)
                            \/ Exchange(c) \/ ErrorBodyRead(c) \/ StreamEnds(c)
        \/ Close
        \/ CloseReturns

Spec == Init /\ [][Next]_vars

\* The limiter and auth answer (EveryCallSettles, EveryCallReturns), hooks
\* return, timers fire, undici rejects what is aborted or refused and gives
\* bodyTimeout to the bodies without a timer, and applications consume what
\* they download.  Zoho may never answer.
Stopped(c) == aborted[c] # "no" \/ phase[c] = "rejected"
FairSpec ==
  /\ Spec
  /\ \A c \in Calls :
       /\ WF_vars(Advance(c)) /\ WF_vars(TimeoutFires(c))
       /\ WF_vars(Stopped(c) /\ Exchange(c))
       /\ WF_vars(c \in timed /\ ErrorBodyRead(c))
       /\ WF_vars(StreamEnds(c))
  /\ WF_vars(CloseReturns)

-----------------------------------------------------------------------------
(* Properties.                                                             *)

TypeOK ==
  /\ closed \in BOOLEAN
  /\ timed \subseteq Calls
  /\ phase \in [Calls -> Phases]
  /\ attempt \in [Calls -> 0 .. MaxRetries]
  /\ activeControllers \subseteq Calls
  /\ timers \subseteq Calls
  /\ aborted \in [Calls -> {"no", "timeout", "closed"}]
  /\ status \in [Calls -> {"none", "client", "server"} \cup Results]
  /\ failure \in [Calls -> {"none"} \cup Failures]
  /\ outcome \in [Calls -> {"none"} \cup Failures \cup Results]
  /\ sends \in [Calls -> Nat]
  /\ streams \subseteq Calls
  /\ closing \in {"no", "waiting", "done"}

\* close() can stop every request it finds that has a controller: it is
\* registered or already aborted.  Neither controllers nor timers outlive
\* their attempt, whichever way it ends and however often it is retried.
RequestsAreStoppable ==
  /\ \A c \in Calls : phase[c] \in {"sent", "body"} =>
       c \in activeControllers \/ aborted[c] # "no"
  /\ \A c \in activeControllers \cup timers : phase[c] \in {"sent", "body", "rejected"}

\* A call that fails with an error worth a retry has used up its attempts.
RetriesAreUsedUp ==
  \A c \in Calls : outcome[c] \in Retryable => attempt[c] = MaxRetries

\* A call with a timeout settles although Zoho may never answer.
EveryRequestSettles ==
  \A c \in Calls : c \in timed /\ phase[c] # "idle" ~> phase[c] = "done"

\* After close() every call ends that was made through request() or has a
\* timeout, and close() itself returns once nothing else holds it up.
CloseEndsWork ==
  /\ \A c \in Calls : closed /\ c \in timed \cup (Calls \ RawCalls)
                        ~> phase[c] \in {"idle", "done"}
  /\ RawCalls \subseteq timed /\ closing = "waiting" ~> closing = "done"

\* docs/failure-modes.md:5-7: on a timeout the SDK throws RequestError.
TimeoutsThrow ==
  \A c \in Calls : outcome[c] \in {"ok", "lost"} => aborted[c] # "timeout"

\* The client does what RetryingCalls promises: a bound on how often Zoho sees
\* a call, no second request while one is out, none after an answer, a timeout
\* or an abort, which may all have had their effect, and none after close().
Stage(c) ==
  CASE phase[c] = "idle" -> "idle"
    [] phase[c] \in Wire -> "out"
    [] phase[c] \in {"after", "done"} -> "over"
    [] phase[c] = "onError" /\ failure[c] \notin Retryable -> "over"
    [] OTHER -> "ready"
Retrying == INSTANCE RetryingCalls
  WITH MaxSends <- MaxRetries + 1,
       stage <- [c \in Calls |-> Stage(c)],
       sent <- sends,
       open <- ~closed
RetryingSpec == Retrying!Spec
=============================================================================
