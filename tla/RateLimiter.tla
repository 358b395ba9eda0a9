----------------------------- MODULE RateLimiter -----------------------------
(***************************************************************************)
(* src/rate-limiter.ts: the sliding-window limiter in front of every API   *)
(* request and of every bulk download.                                     *)
(*                                                                         *)
(* JavaScript runs one call stack at a time, so what interleaves is not    *)
(* threads but the code the limiter calls back: onQueueChange and          *)
(* onWarning run in the middle of schedule(), close() and drainQueue(),    *)
(* and may themselves call schedule() or close(), or throw.  `stack' holds *)
(* the limiter's activations that are inside such a callback or inside the *)
(* drain loop.  Timers, microtasks and the passing of time wait until it   *)
(* is empty.                                                               *)
(*                                                                         *)
(* There are two clocks.  setTimeout and an outside observer go by `real', *)
(* which only advances; the code reads Date.now(), the wall clock, which   *)
(* the operating system may set back: `skew' is by how much it has been.   *)
(***************************************************************************)
EXTENDS Integers, SequencesExt

CONSTANTS Requests,        \* calls of schedule(), each made at most once
          None,            \* undefined
          MaxRequests,     \* maxRequestsPerInterval
          IntervalMs,
          MaxQueue,
          MaxQueueWaitMs,  \* a number, or None when not configured
          WarnAt,          \* ceil(maxQueue * warnAtFraction)
          HooksMayThrow,   \* whether onQueueChange and onWarning may throw
          MaxDepth,        \* bound: activations nested through callbacks
          MaxSkew,         \* bound: how far the wall clock is set back
          MaxLate,         \* bound: how late the event loop fires a timer
          LastArrival,     \* bound: no call after this time
          MaxTime          \* bound: end of time

ASSUME LimiterAssumption ==
  /\ None \notin Requests /\ None \notin Int
  /\ MaxRequests \in Nat
  /\ IntervalMs \in Nat
  /\ MaxQueue \in Nat
  /\ MaxQueueWaitMs \in Nat \cup {None}
  /\ WarnAt \in Nat
  /\ HooksMayThrow \in BOOLEAN
  /\ {MaxDepth, MaxSkew, MaxLate, LastArrival, MaxTime} \subseteq Nat

VARIABLES real,        \* monotonic time
          skew,        \* real - Date.now()
          timestamps,  \* wall-clock times of the admissions not yet trimmed
          queue,       \* entries [req, enqueuedAt]
          timer,       \* ms until the timer is due (negative: late), or None
          closed,
          processing,
          stack,       \* activations, the innermost last
          jobs,        \* microtasks that will call entry.fn(), in order
          running,     \* requests whose fn() has been called and not ended
          outcome,     \* what the promise of schedule(r) has come to
          log          \* history: every admission [req, at, wall]

vars == <<real, skew, timestamps, queue, timer, closed, processing, stack,
          jobs, running, outcome, log>>

now == real - skew

\* With maxRequests = 0 the second half of calculateDelay's condition still
\* lets one request through per interval.
Cap == IF MaxRequests = 0 THEN 1 ELSE MaxRequests

Settled == {"resolved", "closed", "full", "expired", "threw"}
Outcomes == {"none", "pending"} \cup Settled

\* Where an activation stands: inside a callback of schedule(), of close() or
\* of drainQueue(), or at the head of the drain loop.
ScheduleHooks == {"scheduleEmit", "scheduleWarn"}
DrainHooks    == {"expiredEmit", "admittedEmit"}
Hooks         == ScheduleHooks \cup DrainHooks \cup {"refuseWarn", "closeEmit"}
Draining      == {"drain"} \cup DrainHooks

\* `caller' is the schedule() call at the bottom of the activation, whose
\* promise executor catches what is thrown; None for close() and the timer.
\* `entry' is the request just taken from the queue.
Frame(at, caller, entry) == [at |-> at, caller |-> caller, entry |-> entry]
Frames ==
       [at : ScheduleHooks \cup {"refuseWarn"}, caller : Requests, entry : {None}]
  \cup [at : {"drain", "expiredEmit"}, caller : Requests \cup {None}, entry : {None}]
  \cup [at : {"admittedEmit"}, caller : Requests \cup {None}, entry : Requests]
  \cup [at : {"closeEmit"}, caller : {None}, entry : {None}]

Goto(f) == Append(Front(stack), f)

At(p) == stack # <<>> /\ Last(stack).at = p
top == Last(stack)
Idle == stack = <<>>

\* Code of the SDK's user has control: nothing runs, or a callback does.
UserCode == IF Idle THEN TRUE ELSE top.at \in Hooks

\* A promise is settled by the first resolve() or reject() only.
Settle(r, how) == IF outcome[r] = "pending"
                  THEN [outcome EXCEPT ![r] = how] ELSE outcome

-----------------------------------------------------------------------------
Init ==
  /\ real = 0 /\ skew = 0
  /\ timestamps = <<>> /\ queue = <<>> /\ timer = None
  /\ closed = FALSE /\ processing = FALSE
  /\ stack = <<>> /\ jobs = <<>> /\ running = {}
  /\ outcome = [r \in Requests |-> "none"]
  /\ log = <<>>

AcceptsAlways == TRUE                             \* mutant: no closed check
Accepts == ~closed

EnqueuedFirst(r) == <<[req |-> r, enqueuedAt |-> now]>> \o queue  \* mutant: unshift
Enqueued(r) == Append(queue, [req |-> r, enqueuedAt |-> now])

\* What becomes of the promises when close() rejects every entry.
SettleNone == outcome                             \* mutant: entries just dropped
RejectQueued ==
  [r \in Requests |-> IF /\ \E i \in DOMAIN queue : queue[i].req = r
                         /\ outcome[r] = "pending"
                      THEN "closed" ELSE outcome[r]]

MayCall(r) == /\ UserCode
              /\ Len(stack) < MaxDepth
              /\ real <= LastArrival
              /\ outcome[r] = "none"

\* schedule() on a closed limiter.
RefuseClosed(r) ==
  /\ MayCall(r)
  /\ ~Accepts
  /\ outcome' = [outcome EXCEPT ![r] = "closed"]
  /\ UNCHANGED <<real, skew, timestamps, queue, timer, closed, processing,
                 stack, jobs, running, log>>

\* schedule() with a full queue, up to its onWarning.
RefuseFull(r) ==
  /\ MayCall(r)
  /\ Accepts
  /\ Len(queue) >= MaxQueue
  /\ outcome' = [outcome EXCEPT ![r] = "pending"]
  /\ stack' = Append(stack, Frame("refuseWarn", r, None))
  /\ UNCHANGED <<real, skew, timestamps, queue, timer, closed, processing,
                 jobs, running, log>>

\* schedule() up to its onQueueChange.
Enqueue(r) ==
  /\ MayCall(r)
  /\ Accepts
  /\ Len(queue) < MaxQueue
  /\ outcome' = [outcome EXCEPT ![r] = "pending"]
  /\ queue' = Enqueued(r)
  /\ stack' = Append(stack, Frame("scheduleEmit", r, None))
  /\ UNCHANGED <<real, skew, timestamps, timer, closed, processing, jobs,
                 running, log>>

Schedule(r) == RefuseClosed(r) \/ RefuseFull(r) \/ Enqueue(r)

\* close() up to its onQueueChange.  A second close() finds nothing to do.
Close ==
  /\ UserCode
  /\ Len(stack) < MaxDepth
  /\ ~closed
  /\ closed' = TRUE
  /\ timer' = None
  /\ queue' = <<>>
  /\ outcome' = RejectQueued
  /\ stack' = Append(stack, Frame("closeEmit", None, None))
  /\ UNCHANGED <<real, skew, timestamps, processing, jobs, running, log>>

-----------------------------------------------------------------------------
(* Callbacks that return.                                                  *)

\* process(), the last thing schedule() does: start a drain loop unless one
\* is marked as running, or the limiter has been closed meanwhile.
Process ==
  IF processing \/ closed
  THEN stack' = Front(stack) /\ UNCHANGED processing
  ELSE stack' = Goto(Frame("drain", top.caller, None)) /\ processing' = TRUE

AfterScheduleEmit ==
  /\ At("scheduleEmit")
  /\ IF Len(queue) >= WarnAt
     THEN stack' = Goto(Frame("scheduleWarn", top.caller, None)) /\ UNCHANGED processing
     ELSE Process
  /\ UNCHANGED <<real, skew, timestamps, queue, timer, closed, jobs, running,
                 outcome, log>>

AfterScheduleWarn ==
  /\ At("scheduleWarn")
  /\ Process
  /\ UNCHANGED <<real, skew, timestamps, queue, timer, closed, jobs, running,
                 outcome, log>>

AfterRefuseWarn ==
  /\ At("refuseWarn")
  /\ outcome' = Settle(top.caller, "full")
  /\ stack' = Front(stack)
  /\ UNCHANGED <<real, skew, timestamps, queue, timer, closed, processing,
                 jobs, running, log>>

AfterExpiredEmit ==
  /\ At("expiredEmit")
  /\ stack' = Goto(Frame("drain", top.caller, None))
  /\ UNCHANGED <<real, skew, timestamps, queue, timer, closed, processing,
                 jobs, running, outcome, log>>

\* Only now is the admitted request's fn() put on the microtask queue.
AfterAdmittedEmit ==
  /\ At("admittedEmit")
  /\ jobs' = Append(jobs, top.entry)
  /\ stack' = Goto(Frame("drain", top.caller, None))
  /\ UNCHANGED <<real, skew, timestamps, queue, timer, closed, processing,
                 running, outcome, log>>

AfterCloseEmit ==
  /\ At("closeEmit")
  /\ stack' = Front(stack)
  /\ UNCHANGED <<real, skew, timestamps, queue, timer, closed, processing,
                 jobs, running, outcome, log>>

\* A callback throws: the activation is abandoned where it stands.  The
\* promise executor of schedule() turns the exception into a rejection; a
\* refused schedule(), and close(), throw it at their caller.
HookThrows ==
  /\ HooksMayThrow
  /\ ~Idle /\ top.at \in Hooks
  /\ outcome' = IF top.caller = None THEN outcome ELSE Settle(top.caller, "threw")
  /\ stack' = Front(stack)
  /\ UNCHANGED <<real, skew, timestamps, queue, timer, closed, processing,
                 jobs, running, log>>

-----------------------------------------------------------------------------
(* The drain loop.                                                         *)

\* trim(): the first n timestamps are the ones it shifts out.
Trims(n) ==
  /\ \A i \in 1 .. n : timestamps[i] <= now - IntervalMs
  /\ n < Len(timestamps) => timestamps[n + 1] > now - IntervalMs

Live(n) == SubSeq(timestamps, n + 1, Len(timestamps))

DelayOffByOne(ts) ==                              \* mutant: <= for <
  IF Len(ts) <= MaxRequests \/ ts = <<>> THEN 0
  ELSE LET wait == ts[1] + IntervalMs - now IN IF wait > 0 THEN wait ELSE 0

\* calculateDelay() for trimmed timestamps.
Delay(ts) ==
  IF Len(ts) < MaxRequests \/ ts = <<>> THEN 0
  ELSE LET wait == ts[1] + IntervalMs - now IN IF wait > 0 THEN wait ELSE 0

\* scheduleTimer()
ArmNothing(delay) == UNCHANGED timer              \* mutant: no timer
ArmTimer(delay) == timer' = IF timer = None THEN delay ELSE timer

Peeked == queue                                   \* mutant: queue[0] for shift()
Shifted == Tail(queue)

WaitedTooLong(entry) ==
  /\ MaxQueueWaitMs # None
  /\ now - entry.enqueuedAt > MaxQueueWaitMs

DrainDone ==
  /\ At("drain")
  /\ queue = <<>>
  /\ processing' = FALSE
  /\ stack' = Front(stack)
  /\ UNCHANGED <<real, skew, timestamps, queue, timer, closed, jobs, running,
                 outcome, log>>

\* No slot: leave the loop and let the timer resume it.
DrainWaits ==
  /\ At("drain")
  /\ queue # <<>>
  /\ \E n \in 0 .. Len(timestamps) :
       /\ Trims(n)
       /\ Delay(Live(n)) > 0
       /\ timestamps' = Live(n)
       /\ ArmTimer(Delay(Live(n)))
  /\ processing' = FALSE
  /\ stack' = Front(stack)
  /\ UNCHANGED <<real, skew, queue, closed, jobs, running, outcome, log>>

\* A slot, but its taker has been in the queue for too long.
DrainExpires ==
  /\ At("drain")
  /\ queue # <<>>
  /\ WaitedTooLong(Head(queue))
  /\ \E n \in 0 .. Len(timestamps) :
       /\ Trims(n)
       /\ Delay(Live(n)) = 0
       /\ timestamps' = Live(n)
  /\ queue' = Shifted
  /\ outcome' = Settle(Head(queue).req, "expired")
  /\ stack' = Goto(Frame("expiredEmit", top.caller, None))
  /\ UNCHANGED <<real, skew, timer, closed, processing, jobs, running, log>>

DrainAdmits ==
  /\ At("drain")
  /\ queue # <<>>
  /\ ~WaitedTooLong(Head(queue))
  /\ \E n \in 0 .. Len(timestamps) :
       /\ Trims(n)
       /\ Delay(Live(n)) = 0
       /\ timestamps' = Append(Live(n), now)
  /\ queue' = Shifted
  /\ log' = Append(log, [req |-> Head(queue).req, at |-> real, wall |-> now])
  /\ stack' = Goto(Frame("admittedEmit", top.caller, Head(queue).req))
  /\ UNCHANGED <<real, skew, timer, closed, processing, jobs, running, outcome>>

-----------------------------------------------------------------------------
(* The event loop.                                                         *)

\* The timer callback runs drainQueue() itself, without setting `processing':
\* a callback of this drain that calls schedule() starts a second, nested one.
TimerFires ==
  /\ Idle /\ jobs = <<>>
  /\ timer # None /\ timer <= 0
  /\ timer' = None
  /\ IF closed THEN processing' = FALSE /\ UNCHANGED stack
               ELSE stack' = <<Frame("drain", None, None)>> /\ UNCHANGED processing
  /\ UNCHANGED <<real, skew, timestamps, queue, closed, jobs, running,
                 outcome, log>>

StartJob ==
  /\ Idle
  /\ jobs # <<>>
  /\ jobs' = Tail(jobs)
  /\ running' = running \cup {Head(jobs)}
  /\ UNCHANGED <<real, skew, timestamps, queue, timer, closed, processing,
                 stack, outcome, log>>

\* fn() has settled, either way, and its caller is told.
JobEnds(r) ==
  /\ Idle
  /\ r \in running
  /\ running' = running \ {r}
  /\ outcome' = Settle(r, "resolved")
  /\ UNCHANGED <<real, skew, timestamps, queue, timer, closed, processing,
                 stack, jobs, log>>

\* Synchronous code takes no time; a due timer is at most MaxLate late.
Tick ==
  /\ Idle /\ jobs = <<>>
  /\ real < MaxTime
  /\ timer # None => timer > -MaxLate
  /\ real' = real + 1
  /\ timer' = IF timer = None THEN None ELSE timer - 1
  /\ UNCHANGED <<skew, timestamps, queue, closed, processing, stack, jobs,
                 running, outcome, log>>

\* The wall clock is set back by one.
ClockStepsBack ==
  /\ skew < MaxSkew
  /\ skew' = skew + 1
  /\ UNCHANGED <<real, timestamps, queue, timer, closed, processing, stack,
                 jobs, running, outcome, log>>

HookReturns == \/ AfterScheduleEmit \/ AfterScheduleWarn \/ AfterRefuseWarn
               \/ AfterExpiredEmit \/ AfterAdmittedEmit \/ AfterCloseEmit

Drain == DrainDone \/ DrainWaits \/ DrainExpires \/ DrainAdmits

\* Everything the limiter and the event loop do on their own.
Run == HookReturns \/ Drain \/ TimerFires \/ StartJob \/ \E r \in Requests : JobEnds(r)

\* All calls have been answered and time is up.
Over == /\ Idle /\ jobs = <<>> /\ running = {} /\ timer = None
        /\ real = MaxTime
        /\ UNCHANGED vars

Next == \/ \E r \in Requests : Schedule(r)
        \/ Close
        \/ HookThrows
        \/ Run
        \/ Tick
        \/ ClockStepsBack
        \/ Over

Spec == Init /\ [][Next]_vars

\* The event loop turns, callbacks return and fn() settles: the HTTP client
\* gives every attempt a timeout.
FairSpec == Spec /\ WF_vars(Run) /\ WF_vars(Tick)
            /\ \A r \in Requests : WF_vars(JobEnds(r))

-----------------------------------------------------------------------------
(* Properties.                                                             *)

TypeOK ==
  /\ real \in Nat /\ skew \in Nat
  /\ timestamps \in Seq(Int)
  /\ queue \in Seq([req : Requests, enqueuedAt : Int])
  /\ timer \in Int \cup {None}
  /\ closed \in BOOLEAN /\ processing \in BOOLEAN
  /\ stack \in Seq(Frames)
  /\ jobs \in Seq(Requests)
  /\ running \subseteq Requests
  /\ outcome \in [Requests -> Outcomes]
  /\ log \in Seq([req : Requests, at : Nat, wall : Int])

\* The limit itself, by a clock that cannot be set back: among any Cap + 1
\* consecutive admissions the last comes an interval after the first, whatever
\* the callbacks do and although the code trusts the wall clock.
RateLimited ==
  \A i \in 1 .. Len(log) - Cap : log[i + Cap].at - log[i].at >= IntervalMs

\* close() leaves nothing behind that could admit a request later: no entry
\* and no timer, at any depth of the call stack.
ClosedIsQuiescent == closed => queue = <<>> /\ timer = None

\* With nobody inside the limiter, a request that waits has a timer that will
\* come for it.
NoLostWakeup == Idle /\ queue # <<>> => timer # None

\* Work is done once, and only for a caller that has not been told it failed.
WorkIsWanted ==
  /\ \A i, j \in DOMAIN log : log[i].req = log[j].req => i = j
  /\ \A r \in running : outcome[r] = "pending"
  /\ \A i \in DOMAIN jobs : outcome[jobs[i]] = "pending" /\ jobs[i] \notin running

\* Every call of schedule() is answered.
EveryCallSettles ==
  \A r \in Requests : outcome[r] = "pending" ~> outcome[r] \in Settled

\* The limiter does what AdmissionControl promises.
Admission == INSTANCE AdmissionControl
  WITH Interval <- IntervalMs,
       answer <- outcome,
       line   <- [i \in DOMAIN queue |-> queue[i].req],
       grants <- [i \in DOMAIN log |-> [req |-> log[i].req, at |-> log[i].at]],
       clock  <- real,
       open   <- ~closed
AdmissionSpec == Admission!Spec
=============================================================================
