-------------------------- MODULE HttpClientProofs --------------------------
(* Proofs about HttpClient, for every value of its constants. *)
EXTENDS HttpClient, TLAPS

(***************************************************************************)
(* The steps that most actions end in.                                     *)
(***************************************************************************)

\* An attempt that has thrown leaves its call asleep, with a retry left, or
\* done; with an error worth a retry only if none is left.
LEMMA ThrowsStep ==
  ASSUME TypeOK, NEW c \in Calls, NEW e \in Failures \cup {"none"}, Throws(c, e)
  PROVE  /\ phase' \in [Calls -> Phases]
         /\ outcome' \in [Calls -> {"none"} \cup Failures \cup Results]
         /\ \A d \in Calls \ {c} : phase'[d] = phase[d] /\ outcome'[d] = outcome[d]
         /\ \/ /\ phase'[c] = "sleeping" /\ outcome'[c] = outcome[c]
               /\ e \in Retryable /\ attempt[c] # MaxRetries
            \/ /\ phase'[c] = "done" /\ outcome'[c] = e
               /\ e \in Retryable => attempt[c] = MaxRetries
<1>1. CASE ShouldRetryError(e) /\ ~LastAttempt(c)
  BY <1>1 DEF Throws, Becomes, TypeOK, ShouldRetryError, LastAttempt, Phases
<1>2. CASE ~(ShouldRetryError(e) /\ ~LastAttempt(c))
  BY <1>2 DEF Throws, Becomes, TypeOK, ShouldRetryError, LastAttempt, Phases
<1>3. QED BY <1>1, <1>2

\* An attempt begins with its hooks, or fails because the client is closed.
LEMMA ScheduleStep ==
  ASSUME TypeOK, NEW c \in Calls, Schedule(c)
  PROVE  /\ phase' \in [Calls -> Phases]
         /\ outcome' \in [Calls -> {"none"} \cup Failures \cup Results]
         /\ \A d \in Calls \ {c} : phase'[d] = phase[d] /\ outcome'[d] = outcome[d]
         /\ \/ phase'[c] \in {"queued", "before"} /\ outcome'[c] = outcome[c]
            \/ phase'[c] = "done" /\ outcome'[c] = "closed"
<1>1. CASE Limited \/ ~closed
  BY <1>1 DEF Schedule, StartAttempt, Becomes, TypeOK, Phases
<1>2. CASE ~Limited /\ closed
  <2>1. Throws(c, "closed") BY <1>2 DEF Schedule, StartAttempt
  <2>2. "closed" \in Failures /\ "closed" \notin Retryable BY DEF Failures, Retryable
  <2>3. QED BY <2>1, <2>2, ThrowsStep
<1>3. QED BY <1>1, <1>2

\* Admitted by the limiter, it does the same.
LEMMA StartAttemptStep ==
  ASSUME TypeOK, NEW c \in Calls, StartAttempt(c)
  PROVE  /\ phase' \in [Calls -> Phases]
         /\ outcome' \in [Calls -> {"none"} \cup Failures \cup Results]
         /\ \A d \in Calls \ {c} : phase'[d] = phase[d] /\ outcome'[d] = outcome[d]
         /\ \/ phase'[c] = "before" /\ outcome'[c] = outcome[c]
            \/ phase'[c] = "done" /\ outcome'[c] = "closed"
<1>1. CASE ~closed
  BY <1>1 DEF StartAttempt, Becomes, TypeOK, Phases
<1>2. CASE closed
  <2>1. Throws(c, "closed") BY <1>2 DEF StartAttempt
  <2>2. "closed" \in Failures /\ "closed" \notin Retryable BY DEF Failures, Retryable
  <2>3. QED BY <2>1, <2>2, ThrowsStep
<1>3. QED BY <1>1, <1>2

(***************************************************************************)
(* The inductive invariant: what the properties rest on.                   *)
(***************************************************************************)

\* Only a call with an attempt left goes to sleep, and only one that is done
\* has an outcome; what an attempt has got fits where it is.
Bookkeeping ==
  \A c \in Calls :
    /\ phase[c] = "sleeping" => attempt[c] < MaxRetries
    /\ phase[c] = "after" => status[c] \in Results
    /\ phase[c] = "body" => status[c] \in {"ok", "client", "server"}
    /\ phase[c] = "errorBody" => status[c] \in {"client", "server"}
    /\ phase[c] = "onError" => failure[c] \in Failures
    /\ outcome[c] # "none" => phase[c] = "done"

\* An attempt sends once at most, and has not until it has its token.
SendsCounted ==
  \A c \in Calls :
    /\ sends[c] <= attempt[c] + 1
    /\ phase[c] \in {"queued", "before", "token"} => sends[c] <= attempt[c]
    /\ phase[c] = "idle" => sends[c] = 0

Inv == TypeOK /\ Bookkeeping /\ SendsCounted /\ RequestsAreStoppable /\ RetriesAreUsedUp

LEMMA InitInv == Init => Inv
<1> SUFFICES ASSUME Init PROVE Inv
  OBVIOUS
<1>0. \A c \in Calls : sends[c] = 0 /\ attempt[c] = 0 BY DEF Init
<1>1. TypeOK
  <2>1. attempt \in [Calls -> 0 .. MaxRetries] /\ sends \in [Calls -> Nat]
    <3>1. 0 \in 0 .. MaxRetries /\ 0 \in Nat BY HttpAssumption
    <3>2. QED BY <3>1 DEF Init
  <2>2. phase \in [Calls -> Phases] BY DEF Init, Phases
  <2>3. QED BY <2>1, <2>2 DEF Init, TypeOK
<1>2. Bookkeeping BY DEF Init, Bookkeeping
<1>3. SendsCounted
  <2>1. 0 <= 0 + 1 /\ 0 <= 0 OBVIOUS
  <2>2. QED BY <1>0, <2>1, Zenon DEF SendsCounted
<1>4. RequestsAreStoppable BY DEF Init, RequestsAreStoppable
<1>5. RetriesAreUsedUp BY DEF Init, RetriesAreUsedUp, Retryable
<1>6. QED BY <1>1, <1>2, <1>3, <1>4, <1>5 DEF Inv

LEMMA StepInv == Inv /\ [Next]_vars => Inv'
<1> SUFFICES ASSUME Inv, [Next]_vars PROVE Inv'
  OBVIOUS
<1> USE HttpAssumption DEF Inv, Retryable, Failures, Results, Phases, Wire
<1>1. ASSUME NEW c \in Calls, Request(c) PROVE Inv'
  <2>1. /\ phase' \in [Calls -> Phases]
        /\ outcome' \in [Calls -> {"none"} \cup Failures \cup Results]
        /\ \A d \in Calls \ {c} : phase'[d] = phase[d] /\ outcome'[d] = outcome[d]
        /\ \/ phase'[c] \in {"queued", "before"} /\ outcome'[c] = outcome[c]
           \/ phase'[c] = "done" /\ outcome'[c] = "closed"
    <3>1. CASE closed BY <1>1, <3>1, ThrowsStep DEF Request
    <3>2. CASE ~closed BY <1>1, <3>2, ScheduleStep DEF Request
    <3>3. QED BY <3>1, <3>2
  <2>2. QED BY <1>1, <2>1 DEF Request, TypeOK, Bookkeeping, SendsCounted,
               RequestsAreStoppable, RetriesAreUsedUp
<1>2. ASSUME NEW c \in Calls, Admitted(c) PROVE Inv'
  BY <1>2, StartAttemptStep DEF Admitted, TypeOK, Bookkeeping, SendsCounted,
     RequestsAreStoppable, RetriesAreUsedUp
<1>3. ASSUME NEW c \in Calls, NEW e \in {"limit", "closed", "token", "input"},
             phase[c] \in {"queued", "token"}, Throws(c, e),
             UNCHANGED <<closed, timed, attempt, activeControllers, timers, aborted,
                         status, failure, sends, streams, closing>>
      PROVE  Inv'
  BY <1>3, ThrowsStep DEF TypeOK, Bookkeeping, SendsCounted,
     RequestsAreStoppable, RetriesAreUsedUp
<1>4. ASSUME NEW c \in Calls, Wake(c) PROVE Inv'
  BY <1>4, ScheduleStep DEF Wake, Gets, TypeOK, Bookkeeping, SendsCounted,
     RequestsAreStoppable, RetriesAreUsedUp
<1>5. ASSUME NEW c \in Calls, HooksPass(c) PROVE Inv'
  BY <1>5 DEF HooksPass, Becomes, TypeOK, Bookkeeping, SendsCounted,
     RequestsAreStoppable, RetriesAreUsedUp
<1>6. ASSUME NEW c \in Calls, HooksOverride(c) PROVE Inv'
  <2>1. CASE Throws(c, "schema") /\ UNCHANGED status
    BY <1>6, <2>1, ThrowsStep DEF HooksOverride, TypeOK, Bookkeeping,
       SendsCounted, RequestsAreStoppable, RetriesAreUsedUp
  <2>2. CASE Becomes(c, "after") /\ Gets(c, "override") /\ UNCHANGED outcome
    BY <1>6, <2>2 DEF HooksOverride, Becomes, Gets, TypeOK, Bookkeeping,
       SendsCounted, RequestsAreStoppable, RetriesAreUsedUp
  <2>3. QED BY <1>6, <2>1, <2>2 DEF HooksOverride
<1>7. ASSUME NEW c \in Calls, Send(c) PROVE Inv'
  <2>1. CASE closed
    BY <1>7, <2>1 DEF Send, DispatcherClosed, ArmTimeout, Becomes, TypeOK,
       Bookkeeping, SendsCounted, RequestsAreStoppable, RetriesAreUsedUp
  <2>2. CASE ~closed
    BY <1>7, <2>2 DEF Send, DispatcherClosed, ArmTimeout, Becomes, TypeOK,
       Bookkeeping, SendsCounted, RequestsAreStoppable, RetriesAreUsedUp
  <2>3. QED BY <2>1, <2>2
<1>8. ASSUME NEW c \in Calls, TimeoutFires(c) PROVE Inv'
  BY <1>8 DEF TimeoutFires, TypeOK, Bookkeeping, SendsCounted,
     RequestsAreStoppable, RetriesAreUsedUp
<1>9. ASSUME NEW c \in Calls, RequestFails(c) PROVE Inv'
  BY <1>9 DEF RequestFails, CleanupController, Reports, Becomes, TypeOK,
     Bookkeeping, SendsCounted, RequestsAreStoppable, RetriesAreUsedUp
<1>10. ASSUME NEW c \in Calls, HeadersArrive(c) PROVE Inv'
  <2>1. PICK s \in {"ok", "client", "server"} :
          /\ Gets(c, s)
          /\ IF c \notin RawCalls
             THEN Becomes(c, "body") /\ UNCHANGED <<activeControllers, timers, streams>>
             ELSE /\ CleanupController(c)
                  /\ IF s = "ok"
                     THEN Becomes(c, "after") /\ streams' = streams \cup {c}
                     ELSE Becomes(c, "errorBody") /\ UNCHANGED streams
    BY <1>10 DEF HeadersArrive
  <2>2. CASE c \notin RawCalls
    BY <1>10, <2>1, <2>2 DEF HeadersArrive, Gets, Becomes, TypeOK, Bookkeeping,
       SendsCounted, RequestsAreStoppable, RetriesAreUsedUp
  <2>3. CASE c \in RawCalls
    BY <1>10, <2>1, <2>3 DEF HeadersArrive, Gets, Becomes, CleanupController,
       TypeOK, Bookkeeping, SendsCounted, RequestsAreStoppable, RetriesAreUsedUp
  <2>4. QED BY <2>2, <2>3
<1>11. ASSUME NEW c \in Calls, NEW s \in {"ok", "lost", "client", "server"},
              phase[c] = "body", CleanupController(c), Judge(c, s),
              UNCHANGED <<closed, timed, attempt, aborted, sends, streams, closing>>
       PROVE  Inv'
  <2>1. CASE s \in {"ok", "lost"} /\ Throws(c, "schema")
    BY <1>11, <2>1, ThrowsStep DEF Judge, Gets, CleanupController, TypeOK,
       Bookkeeping, SendsCounted, RequestsAreStoppable, RetriesAreUsedUp
  <2>2. CASE s \in {"ok", "lost"} /\ Becomes(c, "after") /\ UNCHANGED outcome
    BY <1>11, <2>2 DEF Judge, Gets, Becomes, CleanupController, TypeOK,
       Bookkeeping, SendsCounted, RequestsAreStoppable, RetriesAreUsedUp
  <2>3. CASE s \in {"client", "server"}
    BY <1>11, <2>3 DEF Judge, Gets, Reports, Becomes, CleanupController, TypeOK,
       Bookkeeping, SendsCounted, RequestsAreStoppable, RetriesAreUsedUp
  <2>4. QED BY <1>11, <2>1, <2>2, <2>3 DEF Judge
<1>12. ASSUME NEW c \in Calls, ErrorBodyRead(c) PROVE Inv'
  BY <1>12 DEF ErrorBodyRead, Reports, Becomes, TypeOK, Bookkeeping,
     SendsCounted, RequestsAreStoppable, RetriesAreUsedUp
<1>13. ASSUME NEW c \in Calls, OnErrorHooksRun(c) PROVE Inv'
  <2>1. failure[c] \in Failures BY <1>13 DEF OnErrorHooksRun, Bookkeeping
  <2>2. QED BY <1>13, <2>1, ThrowsStep DEF OnErrorHooksRun, TypeOK,
               Bookkeeping, SendsCounted, RequestsAreStoppable, RetriesAreUsedUp
<1>14. ASSUME NEW c \in Calls, AfterResponseHooksRun(c) PROVE Inv'
  BY <1>14 DEF AfterResponseHooksRun, Becomes, TypeOK, Bookkeeping,
     SendsCounted, RequestsAreStoppable, RetriesAreUsedUp
<1>15. ASSUME NEW c \in Calls, StreamEnds(c) PROVE Inv'
  BY <1>15 DEF StreamEnds, TypeOK, Bookkeeping, SendsCounted,
     RequestsAreStoppable, RetriesAreUsedUp
<1>16. ASSUME Close PROVE Inv'
  BY <1>16 DEF Close, AbortActive, TypeOK, Bookkeeping, SendsCounted,
     RequestsAreStoppable, RetriesAreUsedUp
<1>17. ASSUME CloseReturns PROVE Inv'
  BY <1>17 DEF CloseReturns, TypeOK, Bookkeeping, SendsCounted,
     RequestsAreStoppable, RetriesAreUsedUp
<1>18. ASSUME UNCHANGED vars PROVE Inv'
  BY <1>18 DEF vars, TypeOK, Bookkeeping, SendsCounted, RequestsAreStoppable,
     RetriesAreUsedUp
<1>19. ASSUME NEW c \in Calls, Refused(c) PROVE Inv'
  BY <1>3, <1>19 DEF Refused
<1>20. ASSUME NEW c \in Calls, TokenFails(c) \/ InputRefused(c) PROVE Inv'
  BY <1>3, <1>20 DEF TokenFails, InputRefused
<1>21. ASSUME NEW c \in Calls, BodyRead(c) \/ BodyLost(c) PROVE Inv'
  <2>1. status[c] \in {"ok", "client", "server"}
    BY <1>21 DEF BodyRead, BodyLost, Bookkeeping
  <2>2. CASE BodyRead(c) BY <1>11, <2>1, <2>2 DEF BodyRead
  <2>3. CASE BodyLost(c)
    <3>1. (IF status[c] = "ok" THEN "lost" ELSE status[c]) \in {"lost", "client", "server"}
      BY <2>1
    <3>2. QED BY <1>11, <2>3, <3>1 DEF BodyLost
  <2>4. QED BY <1>21, <2>2, <2>3
<1> QED
  BY <1>1, <1>2, <1>4, <1>5, <1>6, <1>7, <1>8, <1>9, <1>10, <1>12, <1>13, <1>14,
     <1>15, <1>16, <1>17, <1>18, <1>19, <1>20, <1>21 DEF Next, Advance, Exchange

(***************************************************************************)
(* The properties.                                                         *)
(***************************************************************************)

LEMMA InvHolds == Spec => []Inv
<1>1. Init => Inv BY InitInv
<1>2. Inv /\ [Next]_vars => Inv' BY StepInv
<1>3. QED BY <1>1, <1>2, PTL DEF Spec

\* The variables keep their types.
THEOREM TypeCorrect == Spec => []TypeOK
<1>1. Inv => TypeOK BY DEF Inv
<1>2. QED BY <1>1, InvHolds, PTL

\* close() finds the controller of every request it has to abort, whatever the
\* number of calls and of retries; no controller and no timer outlives its
\* attempt.
THEOREM RequestsStayStoppable == Spec => []RequestsAreStoppable
<1>1. Inv => RequestsAreStoppable BY DEF Inv
<1>2. QED BY <1>1, InvHolds, PTL

\* No call gives up on a server or network error with an attempt left.
THEOREM RetriesAreSpent == Spec => []RetriesAreUsedUp
<1>1. Inv => RetriesAreUsedUp BY DEF Inv
<1>2. QED BY <1>1, InvHolds, PTL

(***************************************************************************)
(* The client implements RetryingCalls.                                    *)
(***************************************************************************)

\* A step that moves one call, and leaves the others, moves it between stages.
LEMMA StageStep ==
  ASSUME NEW c \in Calls, NEW to, Stage(c)' = to,
         \A d \in Calls \ {c} : phase'[d] = phase[d] /\ failure'[d] = failure[d]
  PROVE  [d \in Calls |-> Stage(d)'] = [[d \in Calls |-> Stage(d)] EXCEPT ![c] = to]
<1>1. \A d \in Calls \ {c} : Stage(d)' = Stage(d) BY DEF Stage
<1>2. QED BY <1>1

LEMMA RetryingInit == Init => Retrying!Init
BY DEF Init, Retrying!Init, Stage, Wire

LEMMA RetryingStep == Inv /\ [Next]_vars => [Retrying!Next]_Retrying!vars
<1> SUFFICES ASSUME Inv, [Next]_vars PROVE [Retrying!Next]_Retrying!vars
  OBVIOUS
<1> DEFINE stages == [c \in Calls |-> Stage(c)]
\* A call that is not sent stays in its stage or moves on as the abstract one may.
<1>1. ASSUME NEW c \in Calls,
             \A d \in Calls \ {c} : phase'[d] = phase[d] /\ failure'[d] = failure[d],
             UNCHANGED <<sends, closed>>,
             \/ Stage(c)' = Stage(c)
             \/ Stage(c)' = "over"
             \/ Stage(c) \in {"idle", "out"} /\ Stage(c)' = "ready"
      PROVE  [Retrying!Next]_Retrying!vars
  <2>1. stages' = [stages EXCEPT ![c] = Stage(c)'] BY <1>1, StageStep
  <2>2. stages[c] = Stage(c) /\ stages[c] \in {"idle", "ready", "out", "over"}
    BY DEF Stage
  <2>3. QED
    BY <1>1, <2>1, <2>2 DEF Retrying!Next, Retrying!vars, Retrying!Begin,
       Retrying!ComeBack, Retrying!End, Retrying!Moves
<1>2. ASSUME NEW c \in Calls, NEW e \in Failures, Throws(c, e),
             Stage(c) \in {"ready", "out"} \/ e \notin Retryable,
             UNCHANGED <<sends, closed, failure>>
      PROVE  [Retrying!Next]_Retrying!vars
  <2>1. phase'[c] \in {"sleeping", "done"} /\ (e \notin Retryable => phase'[c] = "done")
    BY <1>2, ThrowsStep DEF Inv
  <2>2. CASE phase'[c] = "done"
    <3>1. Stage(c)' = "over" BY <2>2 DEF Stage, Wire
    <3>2. QED BY <1>1, <1>2, <3>1, ThrowsStep DEF Inv
  <2>3. CASE phase'[c] = "sleeping"
    <3>1. Stage(c)' = "ready" BY <2>3 DEF Stage, Wire
    <3>2. Stage(c) \in {"ready", "out"} BY <1>2, <2>1, <2>3
    <3>3. QED BY <1>1, <1>2, <3>1, <3>2, ThrowsStep DEF Inv
  <2>4. QED BY <2>1, <2>2, <2>3
<1>3. ASSUME NEW c \in Calls, Request(c) PROVE [Retrying!Next]_Retrying!vars
  <2>1. Stage(c) = "idle" BY <1>3 DEF Request, Stage, Wire
  <2>2. CASE closed
    BY <1>2, <1>3, <2>2 DEF Request, Failures, Retryable
  <2>3. CASE ~closed
    <3>1. phase'[c] \in {"queued", "before", "done"} BY <1>3, <2>3, ScheduleStep DEF Request, Inv
    <3>2. Stage(c)' \in {"ready", "over"} BY <3>1 DEF Stage, Wire
    <3>3. QED BY <1>1, <1>3, <2>1, <2>3, <3>2, ScheduleStep DEF Request, Inv
  <2>4. QED BY <2>2, <2>3
<1>4. ASSUME NEW c \in Calls, Admitted(c) PROVE [Retrying!Next]_Retrying!vars
  <2>1. Stage(c) = "ready" BY <1>4 DEF Admitted, Stage, Wire
  <2>2. phase'[c] \in {"before", "done"} BY <1>4, StartAttemptStep DEF Admitted, Inv
  <2>3. Stage(c)' \in {"ready", "over"} BY <2>2 DEF Stage, Wire
  <2>4. QED BY <1>1, <1>4, <2>1, <2>3, StartAttemptStep DEF Admitted, Inv
<1>5. ASSUME NEW c \in Calls, Refused(c) PROVE [Retrying!Next]_Retrying!vars
  BY <1>2, <1>5 DEF Refused, Failures, Retryable
<1>6. ASSUME NEW c \in Calls, Wake(c) PROVE [Retrying!Next]_Retrying!vars
  <2>1. Stage(c) = "ready" BY <1>6 DEF Wake, Stage, Wire
  <2>2. phase'[c] \in {"queued", "before", "done"} BY <1>6, ScheduleStep DEF Wake, Inv
  <2>3. Stage(c)' \in {"ready", "over"} BY <2>2 DEF Stage, Wire
  <2>4. QED BY <1>1, <1>6, <2>1, <2>3, ScheduleStep DEF Wake, Inv
<1>7. ASSUME NEW c \in Calls, TokenFails(c) \/ InputRefused(c)
      PROVE  [Retrying!Next]_Retrying!vars
  BY <1>2, <1>7 DEF TokenFails, InputRefused, Failures, Retryable
\* A step that only moves its call to `point', and does not send it.
<1>8. ASSUME NEW c \in Calls, NEW point \in Phases,
             phase[c] \in {"before", "after"} \cup Wire,
             Becomes(c, point), UNCHANGED <<sends, closed>>,
             \A d \in Calls \ {c} : failure'[d] = failure[d],
             \/ phase[c] \in Wire /\ point \in Wire
             \/ phase[c] \in Wire /\ point \in {"after", "onError"}
             \/ phase[c] = "before" /\ point \in {"token", "after"}
             \/ phase[c] = "after" /\ point = "done"
      PROVE  [Retrying!Next]_Retrying!vars
  <2>1. /\ phase'[c] = point
        /\ \A d \in Calls \ {c} : phase'[d] = phase[d]
    BY <1>8 DEF Becomes, Inv, TypeOK
  <2>2. \/ Stage(c)' = Stage(c)
        \/ Stage(c)' = "over"
        \/ Stage(c) = "out" /\ Stage(c)' = "ready"
    <3>1. CASE point \in Wire \/ point = "token"
      BY <1>8, <2>1, <3>1 DEF Stage, Wire
    <3>2. CASE point \in {"after", "done"}
      BY <1>8, <2>1, <3>2 DEF Stage, Wire
    <3>3. CASE point = "onError"
      BY <1>8, <2>1, <3>3 DEF Stage, Wire
    <3>4. QED BY <1>8, <3>1, <3>2, <3>3
  <2>3. QED BY <1>1, <1>8, <2>1, <2>2
<1>9. ASSUME NEW c \in Calls, HooksPass(c) PROVE [Retrying!Next]_Retrying!vars
  BY <1>8, <1>9 DEF HooksPass, Phases
<1>10. ASSUME NEW c \in Calls, HooksOverride(c) PROVE [Retrying!Next]_Retrying!vars
  <2>1. CASE Becomes(c, "after")
    BY <1>8, <1>10, <2>1 DEF HooksOverride, Phases
  <2>2. CASE Throws(c, "schema")
    BY <1>2, <1>10, <2>2 DEF HooksOverride, Failures, Retryable
  <2>3. QED BY <1>10, <2>1, <2>2 DEF HooksOverride
<1>11. ASSUME NEW c \in Calls, Send(c) PROVE [Retrying!Next]_Retrying!vars
  <2>1. Stage(c) = "ready" /\ sends[c] <= attempt[c] /\ phase[c] = "token"
    BY <1>11 DEF Send, Stage, Wire, Inv, SendsCounted
  <2>2. CASE closed
    <3>1. Becomes(c, "rejected") /\ UNCHANGED <<sends, closed, failure>>
      BY <1>11, <2>2 DEF Send, DispatcherClosed
    <3>2. phase'[c] = "rejected" /\ \A d \in Calls \ {c} : phase'[d] = phase[d]
      BY <3>1 DEF Becomes, Inv, TypeOK
    <3>3. Stage(c)' = "ready" BY <3>2 DEF Stage, Wire
    <3>4. QED BY <1>1, <2>1, <3>1, <3>2, <3>3
  <2>3. CASE ~closed
    <3>1. /\ Becomes(c, "sent") /\ UNCHANGED <<closed, failure>>
          /\ sends' = [sends EXCEPT ![c] = @ + 1]
      BY <1>11, <2>3 DEF Send, DispatcherClosed
    <3>2. phase'[c] = "sent" /\ \A d \in Calls \ {c} : phase'[d] = phase[d]
      BY <3>1 DEF Becomes, Inv, TypeOK
    <3>3. Stage(c)' = "out" BY <3>2 DEF Stage, Wire
    <3>4. stages' = [stages EXCEPT ![c] = "out"] BY <3>1, <3>2, <3>3, StageStep
    <3>5. sends[c] < MaxRetries + 1
      BY <2>1, HttpAssumption DEF Inv, TypeOK
    <3>6. QED BY <2>1, <2>3, <3>1, <3>4, <3>5 DEF Retrying!Next, Retrying!Send,
                 Retrying!Moves
  <2>4. QED BY <2>2, <2>3
<1>12. ASSUME NEW c \in Calls, RequestFails(c) PROVE [Retrying!Next]_Retrying!vars
  <2>1. /\ Becomes(c, "onError") /\ UNCHANGED <<sends, closed>>
        /\ \A d \in Calls \ {c} : failure'[d] = failure[d]
    BY <1>12 DEF RequestFails, Reports, Inv, TypeOK
  <2>2. CASE phase[c] = "sent"
    BY <1>8, <2>1, <2>2 DEF Phases, Wire
  <2>3. CASE phase[c] = "rejected"
    <3>1. phase'[c] = "onError" /\ \A d \in Calls \ {c} : phase'[d] = phase[d]
      BY <2>1 DEF Becomes, Inv, TypeOK
    <3>2. Stage(c) = "ready" /\ Stage(c)' \in {"ready", "over"}
      BY <2>3, <3>1 DEF Stage, Wire
    <3>3. QED BY <1>1, <2>1, <3>1, <3>2
  <2>4. QED BY <1>12, <2>2, <2>3 DEF RequestFails
<1>13. ASSUME NEW c \in Calls, HeadersArrive(c) PROVE [Retrying!Next]_Retrying!vars
  <2>1. \E point \in {"body", "after", "errorBody"} : Becomes(c, point)
    BY <1>13 DEF HeadersArrive
  <2>2. QED BY <1>8, <1>13, <2>1 DEF HeadersArrive, Phases, Wire
<1>14. ASSUME NEW c \in Calls, BodyRead(c) \/ BodyLost(c)
       PROVE  [Retrying!Next]_Retrying!vars
  <2>1. PICK s : Judge(c, s) BY <1>14 DEF BodyRead, BodyLost
  <2>2. phase[c] = "body" /\ UNCHANGED <<sends, closed>>
    BY <1>14 DEF BodyRead, BodyLost
  <2>3. CASE Throws(c, "schema") /\ UNCHANGED failure
    BY <1>2, <2>2, <2>3 DEF Failures, Retryable
  <2>4. CASE Becomes(c, "after") /\ UNCHANGED failure
    BY <1>8, <2>2, <2>4 DEF Phases, Wire
  <2>5. CASE Reports(c, s)
    BY <1>8, <2>2, <2>5 DEF Reports, Phases, Wire, Inv, TypeOK
  <2>6. QED BY <2>1, <2>3, <2>4, <2>5 DEF Judge
<1>15. ASSUME NEW c \in Calls, ErrorBodyRead(c) PROVE [Retrying!Next]_Retrying!vars
  BY <1>8, <1>15 DEF ErrorBodyRead, Reports, Phases, Wire, Inv, TypeOK
<1>16. ASSUME NEW c \in Calls, OnErrorHooksRun(c) PROVE [Retrying!Next]_Retrying!vars
  <2>1. failure[c] \in Failures BY <1>16 DEF OnErrorHooksRun, Inv, Bookkeeping
  <2>2. failure[c] \in Retryable => Stage(c) = "ready"
    BY <1>16 DEF OnErrorHooksRun, Stage, Wire
  <2>3. QED BY <1>2, <1>16, <2>1, <2>2 DEF OnErrorHooksRun
<1>17. ASSUME NEW c \in Calls, AfterResponseHooksRun(c)
       PROVE  [Retrying!Next]_Retrying!vars
  BY <1>8, <1>17 DEF AfterResponseHooksRun, Phases
<1>18. ASSUME UNCHANGED <<phase, failure, sends, closed>>
       PROVE  [Retrying!Next]_Retrying!vars
  <2>1. stages' = stages BY <1>18 DEF Stage
  <2>2. QED BY <1>18, <2>1 DEF Retrying!vars
<1>19. ASSUME Close PROVE [Retrying!Next]_Retrying!vars
  <2>1. stages' = stages BY <1>19 DEF Close, Stage
  <2>2. QED BY <1>19, <2>1 DEF Close, Retrying!Next, Retrying!Shut
<1>20. ASSUME CloseReturns \/ UNCHANGED vars
              \/ \E c \in Calls : TimeoutFires(c) \/ StreamEnds(c)
       PROVE  [Retrying!Next]_Retrying!vars
  BY <1>18, <1>20 DEF CloseReturns, vars, TimeoutFires, StreamEnds
<1>21. QED
  BY <1>3, <1>4, <1>5, <1>6, <1>7, <1>9, <1>10, <1>11, <1>12, <1>13, <1>14,
     <1>15, <1>16, <1>17, <1>19, <1>20 DEF Next, Advance, Exchange

\* For any number of calls and retries: Zoho sees a call maxRetries + 1 times
\* at most, one request at a time, none after an answer, a timeout or an abort
\* and none after close().
THEOREM ImplementsRetryingCalls == Spec => RetryingSpec
<1>1. Init => Retrying!Init BY RetryingInit
<1>2. Inv /\ [Next]_vars => [Retrying!Next]_Retrying!vars BY RetryingStep
<1>3. QED BY <1>1, <1>2, InvHolds, PTL DEF Spec, RetryingSpec, Retrying!Spec
============================================================================
