------------------------- MODULE RateLimiterProofs -------------------------
(***************************************************************************)
(* Proofs about RateLimiter, for every value of its constants: rate,       *)
(* close() and wakeups first, then where each request is kept, and that    *)
(* the limiter implements AdmissionControl.                                *)
(*                                                                         *)
(* The latter two are about callbacks that do not throw.  One that throws  *)
(* out of schedule() leaves the entry in the queue of a caller who has     *)
(* been told that the call failed.                                         *)
(***************************************************************************)
EXTENDS RateLimiter, SequenceTheorems, TLAPS

(***************************************************************************)
(* Sequences.                                                              *)
(***************************************************************************)

\* Popping the innermost activation leaves a stack.
LEMMA FrontType ==
  ASSUME NEW S, NEW s \in Seq(S), s # <<>>
  PROVE  /\ Front(s) \in Seq(S)
         /\ Last(s) \in S
         /\ Len(Front(s)) = Len(s) - 1
         /\ \A i \in 1 .. Len(s) - 1 : Front(s)[i] = s[i]
         /\ \A f \in S : Append(Front(s), f) \in Seq(S)
<1>1. Len(s) \in Nat \ {0} /\ Len(s) \in 1 .. Len(s) BY EmptySeq
<1>2. \A i \in 1 .. Len(s) : s[i] \in S BY ElementOfSeq
<1>3. \A i \in 1 .. Len(s) - 1 : s[i] \in S BY <1>1, <1>2
<1>4. /\ SubSeq(s, 1, Len(s) - 1) \in Seq(S)
      /\ Len(SubSeq(s, 1, Len(s) - 1)) = IF 1 <= Len(s) - 1 THEN Len(s) - 1 - 1 + 1 ELSE 0
      /\ \A i \in 1 .. Len(s) - 1 - 1 + 1 : SubSeq(s, 1, Len(s) - 1)[i] = s[1 + i - 1]
  BY <1>1, <1>3, SubSeqProperties, SMT
<1>0. \A n \in Nat \ {0} : (IF 1 <= n - 1 THEN n - 1 - 1 + 1 ELSE 0) = n - 1
  OBVIOUS
<1>5. Len(SubSeq(s, 1, Len(s) - 1)) = Len(s) - 1
  <2> DEFINE p == SubSeq(s, 1, Len(s) - 1)
             n == Len(s)
  <2>1. Len(p) = IF 1 <= n - 1 THEN n - 1 - 1 + 1 ELSE 0 BY <1>4
  <2>2. n \in Nat \ {0} BY <1>1
  <2> HIDE DEF p, n
  <2>3. Len(p) = n - 1 BY <1>0, <2>1, <2>2
  <2>4. QED BY <2>3 DEF p, n
<1>6. \A i \in 1 .. Len(s) - 1 : SubSeq(s, 1, Len(s) - 1)[i] = s[i]
  BY <1>1, <1>4, SMT
<1>7. \A t \in Seq(S), f \in S : Append(t, f) \in Seq(S)
  BY AppendProperties
<1>8. QED BY <1>1, <1>2, <1>4, <1>5, <1>6, <1>7 DEF Front, Last

\* What trim() keeps is a sequence of times.
LEMMA LiveType ==
  ASSUME timestamps \in Seq(Int), NEW n \in 0 .. Len(timestamps)
  PROVE  /\ Live(n) \in Seq(Int)
         /\ Len(Live(n)) = Len(timestamps) - n
         /\ \A i \in 1 .. Len(timestamps) - n : Live(n)[i] = timestamps[n + i]
BY DEF Live

\* A positive delay is a number of milliseconds.
LEMMA DelayType ==
  ASSUME NEW ts \in Seq(Int), real \in Nat, skew \in Nat
  PROVE  Delay(ts) \in Nat
BY LimiterAssumption DEF Delay, now

\* Settling a promise keeps the outcomes well typed.
LEMMA SettleType ==
  ASSUME outcome \in [Requests -> Outcomes], NEW r \in Requests, NEW how \in Settled
  PROVE  Settle(r, how) \in [Requests -> Outcomes]
BY DEF Settle, Outcomes

(***************************************************************************)
(* Type correctness.                                                       *)
(***************************************************************************)
LEMMA InitType == Init => TypeOK
<1> SUFFICES ASSUME Init PROVE TypeOK
  OBVIOUS
<1>1. \A S : <<>> \in Seq(S) BY EmptySeq
<1>2. outcome \in [Requests -> Outcomes] BY DEF Init, Outcomes
<1>3. real \in Nat /\ skew \in Nat /\ running \subseteq Requests
  BY DEF Init
<1>4. QED BY <1>1, <1>2, <1>3 DEF Init, TypeOK

LEMMA NextType == TypeOK /\ [Next]_vars => TypeOK'
<1> SUFFICES ASSUME TypeOK, [Next]_vars PROVE TypeOK'
  OBVIOUS
<1> USE DEF TypeOK
<1>1. ASSUME NEW r \in Requests, Schedule(r) PROVE TypeOK'
  <2>1. CASE RefuseClosed(r)
    BY <2>1 DEF RefuseClosed, Outcomes, Settled
  <2>2. CASE RefuseFull(r)
    BY <2>2 DEF RefuseFull, Outcomes, Frame, Frames, Accepts
  <2>3. CASE Enqueue(r)
    BY <2>3 DEF Enqueue, Outcomes, Frame, Frames, ScheduleHooks, now, Accepts, Enqueued
  <2>4. QED BY <1>1, <2>1, <2>2, <2>3 DEF Schedule
<1>2. ASSUME Close PROVE TypeOK'
  BY <1>2 DEF Close, Outcomes, Settled, Frame, Frames, RejectQueued
<1>3. ASSUME HookThrows PROVE TypeOK'
  <2>1. stack # <<>> BY <1>3 DEF HookThrows, Idle
  <2>2. Front(stack) \in Seq(Frames) /\ top \in Frames BY <2>1, FrontType DEF top
  <2>3. top.caller \in Requests \cup {None} BY <2>2 DEF Frames
  <2>4. outcome' \in [Requests -> Outcomes]
    BY <1>3, <2>3, SettleType DEF HookThrows, Settled
  <2>5. QED BY <1>3, <2>2, <2>4 DEF HookThrows
<1>4. ASSUME HookReturns PROVE TypeOK'
  <2>1. stack # <<>> BY <1>4 DEF HookReturns, AfterScheduleEmit, AfterScheduleWarn,
          AfterRefuseWarn, AfterExpiredEmit, AfterAdmittedEmit, AfterCloseEmit, At
  <2>2. /\ Front(stack) \in Seq(Frames) /\ top \in Frames
        /\ \A f \in Frames : Goto(f) \in Seq(Frames)
    BY <2>1, FrontType DEF top, Goto
  <2>3. ASSUME Process, top.at \in ScheduleHooks
        PROVE  stack' \in Seq(Frames) /\ processing' \in BOOLEAN
    <3>1. Frame("drain", top.caller, None) \in Frames
      BY <2>2, <2>3 DEF Frames, Frame, ScheduleHooks
    <3>2. QED BY <2>2, <2>3, <3>1 DEF Process
  <2>4. CASE AfterScheduleEmit
    <3>1. top.at \in ScheduleHooks BY <2>4 DEF AfterScheduleEmit, At, top, ScheduleHooks
    <3>2. Frame("scheduleWarn", top.caller, None) \in Frames
      BY <2>2, <3>1 DEF Frames, Frame, ScheduleHooks
    <3>3. stack' \in Seq(Frames) /\ processing' \in BOOLEAN
      BY <2>2, <2>3, <2>4, <3>1, <3>2 DEF AfterScheduleEmit
    <3>4. QED BY <2>4, <3>3 DEF AfterScheduleEmit
  <2>5. CASE AfterScheduleWarn
    <3>1. top.at \in ScheduleHooks BY <2>5 DEF AfterScheduleWarn, At, top, ScheduleHooks
    <3>2. stack' \in Seq(Frames) /\ processing' \in BOOLEAN
      BY <2>3, <2>5, <3>1 DEF AfterScheduleWarn
    <3>3. QED BY <2>5, <3>2 DEF AfterScheduleWarn
  <2>6. CASE AfterRefuseWarn
    <3>1. top.caller \in Requests
      BY <2>2, <2>6 DEF AfterRefuseWarn, At, top, Frames, ScheduleHooks
    <3>2. outcome' \in [Requests -> Outcomes]
      BY <2>6, <3>1, SettleType DEF AfterRefuseWarn, Settled
    <3>3. QED BY <2>2, <2>6, <3>2 DEF AfterRefuseWarn
  <2>7. CASE AfterExpiredEmit
    <3>1. Frame("drain", top.caller, None) \in Frames
      BY <2>2, <2>7 DEF Frames, Frame, ScheduleHooks, AfterExpiredEmit, At, top
    <3>2. QED BY <2>2, <2>7, <3>1 DEF AfterExpiredEmit
  <2>8. CASE AfterAdmittedEmit
    <3>1. /\ Frame("drain", top.caller, None) \in Frames
          /\ top.entry \in Requests
      BY <2>2, <2>8 DEF Frames, Frame, ScheduleHooks, AfterAdmittedEmit, At, top
    <3>2. QED BY <2>2, <2>8, <3>1 DEF AfterAdmittedEmit
  <2>9. CASE AfterCloseEmit
    BY <2>2, <2>9 DEF AfterCloseEmit
  <2>10. QED BY <1>4, <2>4, <2>5, <2>6, <2>7, <2>8, <2>9 DEF HookReturns
<1>5. ASSUME Drain PROVE TypeOK'
  <2>1. /\ stack # <<>>
        /\ top.at = "drain"
    BY <1>5 DEF Drain, DrainDone, DrainWaits, DrainExpires, DrainAdmits, At, top, ArmTimer, Shifted
  <2>2. /\ Front(stack) \in Seq(Frames) /\ top \in Frames
        /\ \A f \in Frames : Goto(f) \in Seq(Frames)
    BY <2>1, FrontType DEF top, Goto
  <2>3. top.caller \in Requests \cup {None}
    BY <2>2 DEF Frames
  <2>4. CASE DrainDone
    BY <2>2, <2>4 DEF DrainDone
  <2>5. CASE DrainWaits
    <3>1. PICK n \in 0 .. Len(timestamps) :
            /\ timestamps' = Live(n)
            /\ timer' = IF timer = None THEN Delay(Live(n)) ELSE timer
      BY <2>5 DEF DrainWaits, ArmTimer
    <3>2. Live(n) \in Seq(Int) BY LiveType
    <3>3. Delay(Live(n)) \in Nat BY <3>2, DelayType
    <3>4. timer' \in Int \cup {None}
      BY <3>1, <3>3
    <3>5. QED BY <2>2, <2>5, <3>1, <3>2, <3>4 DEF DrainWaits, ArmTimer
  <2>6. CASE DrainExpires
    <3>1. timestamps' \in Seq(Int)
      BY <2>6, LiveType DEF DrainExpires, Shifted
    <3>2. /\ Head(queue) \in [req : Requests, enqueuedAt : Int]
          /\ queue' \in Seq([req : Requests, enqueuedAt : Int])
      BY <2>6, HeadTailProperties DEF DrainExpires, Shifted
    <3>3. outcome' \in [Requests -> Outcomes]
      BY <2>6, <3>2, SettleType DEF DrainExpires, Settled, Shifted
    <3>4. Frame("expiredEmit", top.caller, None) \in Frames
      BY <2>3 DEF Frames, Frame
    <3>5. QED BY <2>2, <2>6, <3>1, <3>2, <3>3, <3>4 DEF DrainExpires, Shifted
  <2>7. CASE DrainAdmits
    <3>1. now \in Int BY DEF now
    <3>2. timestamps' \in Seq(Int)
      BY <2>7, <3>1, LiveType DEF DrainAdmits, Shifted
    <3>3. /\ Head(queue) \in [req : Requests, enqueuedAt : Int]
          /\ queue' \in Seq([req : Requests, enqueuedAt : Int])
      BY <2>7, HeadTailProperties DEF DrainAdmits, Shifted
    <3>4. log' \in Seq([req : Requests, at : Nat, wall : Int])
      BY <2>7, <3>1, <3>3, AppendProperties DEF DrainAdmits, Shifted
    <3>5. Frame("admittedEmit", top.caller, Head(queue).req) \in Frames
      BY <2>3, <3>3 DEF Frames, Frame
    <3>6. QED BY <2>2, <2>7, <3>2, <3>3, <3>4, <3>5 DEF DrainAdmits, Shifted
  <2>8. QED BY <1>5, <2>4, <2>5, <2>6, <2>7 DEF Drain
<1>6. ASSUME TimerFires PROVE TypeOK'
  <2>1. <<Frame("drain", None, None)>> \in Seq(Frames) BY DEF Frames, Frame
  <2>2. QED BY <1>6, <2>1 DEF TimerFires
<1>7. ASSUME StartJob PROVE TypeOK'
  BY <1>7 DEF StartJob
<1>8. ASSUME NEW r \in Requests, JobEnds(r) PROVE TypeOK'
  <2>1. outcome' \in [Requests -> Outcomes]
    BY <1>8, SettleType DEF JobEnds, Settled
  <2>2. QED BY <1>8, <2>1 DEF JobEnds
<1>9. ASSUME Tick PROVE TypeOK'
  BY <1>9 DEF Tick
<1>10. ASSUME ClockStepsBack PROVE TypeOK'
  BY <1>10 DEF ClockStepsBack
<1>11. CASE UNCHANGED vars
  BY <1>11 DEF vars
<1>12. QED
  BY <1>1, <1>2, <1>3, <1>4, <1>5, <1>6, <1>7, <1>8, <1>9, <1>10, <1>11
  DEF Next, Run, Over

\* The state of the limiter always has its type; in particular an admitted
\* entry is a request and the timer a number.
THEOREM TypeCorrect == Spec => []TypeOK
BY InitType, NextType, PTL DEF Spec

(***************************************************************************)
(* The rate limit.  The timestamps the code keeps are the wall-clock times *)
(* of the latest admissions, and every older admission is an interval ago. *)
(* Since the wall clock is only ever set back, an interval by it is at     *)
(* least an interval.                                                      *)
(***************************************************************************)
Window(ts, lg, time) ==
  /\ Len(ts) <= Len(lg)
  /\ \A j \in 1 .. Len(ts) : ts[j] = lg[Len(lg) - Len(ts) + j].wall
  /\ \A i \in 1 .. Len(lg) - Len(ts) : lg[i].at + IntervalMs <= time

LogInPast ==
  \A i \in 1 .. Len(log) : /\ log[i].at <= real
                          /\ log[i].at - log[i].wall <= skew

RateInv == Window(timestamps, log, real) /\ LogInPast /\ RateLimited

\* The history has its type, entry by entry.
LEMMA LogType ==
  ASSUME TypeOK
  PROVE  /\ Len(log) \in Nat
         /\ \A i \in 1 .. Len(log) : log[i].at \in Nat /\ log[i].wall \in Int
<1>1. \A i \in 1 .. Len(log) : log[i] \in [req : Requests, at : Nat, wall : Int]
  BY ElementOfSeq DEF TypeOK
<1>2. QED BY <1>1, LenProperties DEF TypeOK

\* Trimming drops only admissions that are an interval ago.
LEMMA TrimKeepsWindow ==
  ASSUME TypeOK, RateInv, NEW n \in 0 .. Len(timestamps), Trims(n)
  PROVE  Window(Live(n), log, real)
<1> DEFINE L == Len(log)
           T == Len(timestamps)
<1>1. /\ L \in Nat /\ T \in Nat /\ T <= L
      /\ real \in Nat /\ skew \in Nat /\ IntervalMs \in Nat
  BY LimiterAssumption DEF TypeOK, RateInv, Window
<1>2. /\ Len(Live(n)) = T - n
      /\ \A i \in 1 .. T - n : Live(n)[i] = timestamps[n + i]
  BY LiveType DEF TypeOK
<1>3. \A i \in 1 .. L : log[i].at \in Nat /\ log[i].wall \in Int
  BY LogType
<1>4. \A j \in 1 .. T : timestamps[j] = log[L - T + j].wall
  BY DEF RateInv, Window
<1>5. ASSUME NEW j \in 1 .. T - n
      PROVE  Live(n)[j] = log[L - (T - n) + j].wall
  <2>1. n + j \in 1 .. T BY <1>1
  <2>2. timestamps[n + j] = log[L - T + (n + j)].wall BY <1>4, <2>1
  <2>3. L - T + (n + j) = L - (T - n) + j BY <1>1
  <2>4. QED BY <1>2, <2>2, <2>3
<1>6. ASSUME NEW i \in 1 .. L - (T - n)
      PROVE  log[i].at + IntervalMs <= real
  <2>1. CASE i <= L - T
    BY <2>1, <1>1 DEF RateInv, Window
  <2>2. CASE i > L - T
    <3>1. PICK k \in 1 .. n : i = L - T + k
      <4>1. i - (L - T) \in 1 .. n BY <1>1, <2>2
      <4>2. i = L - T + (i - (L - T)) BY <1>1
      <4>3. QED BY <4>1, <4>2
    <3>2. timestamps[k] = log[i].wall BY <1>1, <1>4, <3>1
    <3>3. log[i].wall <= real - skew - IntervalMs
      BY <3>2 DEF Trims, now
    <3>4. i \in 1 .. L BY <1>1
    <3>5. log[i].at - log[i].wall <= skew BY <3>4 DEF RateInv, LogInPast
    <3>6. QED BY <1>1, <1>3, <3>3, <3>4, <3>5
  <2>3. QED BY <1>1, <2>1, <2>2
<1>7. QED BY <1>1, <1>2, <1>5, <1>6 DEF Window

\* When the code sees no delay, less than a full interval's admissions are left.
LEMMA RoomUnderCap ==
  ASSUME TypeOK, NEW n \in 0 .. Len(timestamps), Trims(n), Delay(Live(n)) = 0
  PROVE  Len(Live(n)) < Cap
<1> DEFINE K == Len(Live(n))
<1>1. /\ Live(n) \in Seq(Int) /\ K \in Nat /\ now \in Int /\ IntervalMs \in Nat
      /\ Len(timestamps) \in Nat /\ K = Len(timestamps) - n
      /\ \A i \in 1 .. Len(timestamps) - n : Live(n)[i] = timestamps[n + i]
  BY LiveType, LimiterAssumption DEF TypeOK, now
<1>2. CASE Len(Live(n)) < MaxRequests \/ Live(n) = <<>>
  BY <1>1, <1>2, LimiterAssumption DEF Cap
<1>3. CASE ~(Len(Live(n)) < MaxRequests \/ Live(n) = <<>>)
  <2>1. K \in Nat \ {0} BY <1>1, <1>3, EmptySeq
  <2>2. n + 1 \in 1 .. Len(timestamps) /\ Live(n)[1] = timestamps[n + 1]
    BY <1>1, <2>1
  <2>3. Live(n)[1] > now - IntervalMs BY <2>2 DEF Trims
  <2>4. Live(n)[1] \in Int BY <1>1, <2>1, ElementOfSeq
  <2>5. Live(n)[1] + IntervalMs - now > 0 BY <1>1, <2>3, <2>4
  <2>6. QED BY <1>3, <2>5 DEF Delay
<1>4. QED BY <1>2, <1>3

\* An admission through a window with room keeps the limit.
LEMMA AdmitKeepsRate ==
  ASSUME TypeOK, RateInv, TypeOK',
         NEW n \in 0 .. Len(timestamps), Trims(n), Delay(Live(n)) = 0,
         NEW r \in Requests,
         timestamps' = Append(Live(n), now),
         log' = Append(log, [req |-> r, at |-> real, wall |-> now]),
         UNCHANGED <<real, skew>>
  PROVE  RateInv'
<1> DEFINE L == Len(log)
           K == Len(Live(n))
<1>1. /\ L \in Nat /\ K \in Nat
      /\ real \in Nat /\ skew \in Nat /\ IntervalMs \in Nat
      /\ Live(n) \in Seq(Int) /\ now \in Int
      /\ Cap \in Nat \ {0}
  <2>1. Live(n) \in Seq(Int) BY LiveType DEF TypeOK
  <2>2. K \in Nat BY <2>1
  <2>3. Cap \in Nat \ {0} BY LimiterAssumption DEF Cap
  <2>4. QED BY <2>1, <2>2, <2>3, LimiterAssumption DEF TypeOK, now
<1>2. Window(Live(n), log, real) BY TrimKeepsWindow
<1>3. /\ Len(log') = L + 1 /\ log'[L + 1].at = real /\ log'[L + 1].wall = now
      /\ \A i \in 1 .. L : log'[i] = log[i]
  BY <1>1, AppendProperties DEF TypeOK
<1>4. /\ Len(timestamps') = K + 1 /\ timestamps'[K + 1] = now
      /\ \A i \in 1 .. K : timestamps'[i] = Live(n)[i]
  BY <1>1
<1>5. \A i \in 1 .. L : log[i].at \in Nat /\ log[i].wall \in Int
  BY LogType
<1>6. K < Cap BY RoomUnderCap
<1>7. Window(timestamps', log', real)
  <2>1. K + 1 <= L + 1 BY <1>1, <1>2 DEF Window
  <2>2. ASSUME NEW j \in 1 .. K + 1
        PROVE  timestamps'[j] = log'[(L + 1) - (K + 1) + j].wall
    <3>1. CASE j = K + 1
      BY <1>1, <1>3, <1>4, <3>1
    <3>2. CASE j \in 1 .. K
      <4>1. Live(n)[j] = log[L - K + j].wall BY <1>2, <3>2 DEF Window
      <4>2. (L + 1) - (K + 1) + j = L - K + j /\ L - K + j \in 1 .. L
        BY <1>1, <2>1, <3>2
      <4>3. QED BY <1>3, <1>4, <3>2, <4>1, <4>2
    <3>3. j = K + 1 \/ j \in 1 .. K BY <1>1
    <3>4. QED BY <3>1, <3>2, <3>3
  <2>3. ASSUME NEW i \in 1 .. (L + 1) - (K + 1)
        PROVE  log'[i].at + IntervalMs <= real
    <3>1. i \in 1 .. L - K /\ i \in 1 .. L BY <1>1, <2>1
    <3>2. QED BY <1>2, <1>3, <3>1 DEF Window
  <2>4. Len(timestamps') = K + 1 /\ Len(log') = L + 1 BY <1>3, <1>4
  <2>5. Len(timestamps') <= Len(log') BY <2>1, <2>4
  <2>6. \A j \in 1 .. Len(timestamps') :
          timestamps'[j] = log'[Len(log') - Len(timestamps') + j].wall
    <3> HIDE DEF K, L
    <3>1. QED BY <2>2, <2>4
  <2>7. \A i \in 1 .. Len(log') - Len(timestamps') :
          log'[i].at + IntervalMs <= real
    <3> HIDE DEF K, L
    <3>1. QED BY <2>3, <2>4
  <2>8. QED BY Zenon, <2>5, <2>6, <2>7 DEF Window
<1>8. LogInPast'
  BY <1>1, <1>3, <1>5 DEF RateInv, LogInPast, now
<1>9. RateLimited'
  <2> SUFFICES ASSUME NEW i \in 1 .. (L + 1) - Cap
               PROVE  log'[i + Cap].at - log'[i].at >= IntervalMs
    BY <1>3 DEF RateLimited, Cap
  <2>1. CASE i + Cap = L + 1
    <3>1. i \in 1 .. L - K /\ i \in 1 .. L BY <1>1, <1>2, <1>6, <2>1 DEF Window
    <3>2. log[i].at + IntervalMs <= real BY <1>2, <3>1 DEF Window
    <3>3. QED BY <1>1, <1>3, <1>5, <2>1, <3>1, <3>2
  <2>2. CASE i + Cap <= L
    <3>1. i \in 1 .. L - Cap /\ i \in 1 .. L /\ i + Cap \in 1 .. L BY <1>1, <2>2
    <3>2. QED BY <1>3, <3>1 DEF RateInv, RateLimited
  <2>3. i + Cap = L + 1 \/ i + Cap <= L BY <1>1
  <2>4. QED BY <2>1, <2>2, <2>3
<1>10. QED BY <1>7, <1>8, <1>9 DEF RateInv

LEMMA InitRate == Init => RateInv
<1> SUFFICES ASSUME Init PROVE RateInv
  OBVIOUS
<1>1. Len(timestamps) = 0 /\ Len(log) = 0 /\ real = 0 /\ Cap \in Nat \ {0}
  BY EmptySeq, LimiterAssumption DEF Init, Cap
<1>2. QED BY <1>1 DEF RateInv, Window, LogInPast, RateLimited

\* Steps that neither admit nor trim.
LEMMA TimePassesKeepsRate ==
  ASSUME TypeOK, RateInv, UNCHANGED <<timestamps, log>>,
         real' \in Nat, skew' \in Nat, real' >= real, skew' >= skew
  PROVE  RateInv'
<1>1. /\ real \in Nat /\ skew \in Nat /\ IntervalMs \in Nat
      /\ Len(log) \in Nat /\ Len(timestamps) \in Nat
  BY LogType, LimiterAssumption DEF TypeOK
<1>2. \A i \in 1 .. Len(log) : log[i].at \in Nat /\ log[i].wall \in Int
  BY LogType
<1>3. Window(timestamps, log, real')
  <2>1. ASSUME NEW i \in 1 .. Len(log) - Len(timestamps)
        PROVE  log[i].at + IntervalMs <= real'
    <3>1. i \in 1 .. Len(log) BY <1>1
    <3>2. log[i].at + IntervalMs <= real BY DEF RateInv, Window
    <3>3. QED BY <1>1, <1>2, <3>1, <3>2
  <2>2. QED BY <2>1 DEF RateInv, Window
<1>4. LogInPast' BY <1>1, <1>2 DEF RateInv, LogInPast
<1>5. RateLimited' BY DEF RateInv, RateLimited, Cap
<1>6. QED BY <1>3, <1>4, <1>5 DEF RateInv

LEMMA NextRate == TypeOK /\ TypeOK' /\ RateInv /\ [Next]_vars => RateInv'
<1> SUFFICES ASSUME TypeOK, TypeOK', RateInv, [Next]_vars PROVE RateInv'
  OBVIOUS
<1>0. real \in Nat /\ skew \in Nat /\ real' \in Nat /\ skew' \in Nat
  BY DEF TypeOK
<1>1. CASE UNCHANGED <<timestamps, log>> /\ real' >= real /\ skew' >= skew
  BY <1>0, <1>1, TimePassesKeepsRate
<1>2. ASSUME NEW r \in Requests, Schedule(r) PROVE RateInv'
  BY <1>0, <1>1, <1>2 DEF Schedule, RefuseClosed, RefuseFull, Enqueue, Accepts, Enqueued
<1>3. CASE Close \/ HookThrows
  BY <1>0, <1>1, <1>3 DEF Close, HookThrows, RejectQueued
<1>4. CASE HookReturns
  BY <1>0, <1>1, <1>4 DEF HookReturns, AfterScheduleEmit, AfterScheduleWarn,
     AfterRefuseWarn, AfterExpiredEmit, AfterAdmittedEmit, AfterCloseEmit
<1>5. CASE DrainDone
  BY <1>0, <1>1, <1>5 DEF DrainDone
<1>6. CASE DrainWaits \/ DrainExpires
  <2>1. PICK n \in 0 .. Len(timestamps) : Trims(n) /\ timestamps' = Live(n)
    BY <1>6 DEF DrainWaits, DrainExpires, ArmTimer, Shifted
  <2>2. UNCHANGED <<log, real, skew>>
    BY <1>6 DEF DrainWaits, DrainExpires, ArmTimer, Shifted
  <2>3. Window(timestamps', log', real') BY <2>1, <2>2, TrimKeepsWindow
  <2>4. QED BY <2>2, <2>3 DEF RateInv, LogInPast, RateLimited, Cap
<1>7. CASE DrainAdmits
  <2>1. PICK n \in 0 .. Len(timestamps) :
          /\ Trims(n) /\ Delay(Live(n)) = 0
          /\ timestamps' = Append(Live(n), now)
    BY <1>7 DEF DrainAdmits, Shifted
  <2>2. Head(queue).req \in Requests
    BY <1>7, HeadTailProperties DEF DrainAdmits, TypeOK, Shifted
  <2>3. /\ log' = Append(log, [req |-> Head(queue).req, at |-> real, wall |-> now])
        /\ UNCHANGED <<real, skew>>
    BY <1>7 DEF DrainAdmits, Shifted
  <2>4. QED BY <2>1, <2>2, <2>3, AdmitKeepsRate
<1>8. CASE TimerFires \/ StartJob
  BY <1>0, <1>1, <1>8 DEF TimerFires, StartJob
<1>9. ASSUME NEW r \in Requests, JobEnds(r) PROVE RateInv'
  BY <1>0, <1>1, <1>9 DEF JobEnds
<1>10. CASE Tick
  BY <1>0, <1>1, <1>10 DEF Tick
<1>11. CASE ClockStepsBack
  BY <1>0, <1>1, <1>11 DEF ClockStepsBack
<1>12. CASE UNCHANGED vars
  BY <1>0, <1>1, <1>12 DEF vars
<1>13. QED
  BY <1>2, <1>3, <1>4, <1>5, <1>6, <1>7, <1>8, <1>9, <1>10, <1>11, <1>12
  DEF Next, Run, Drain, Over

\* In no interval of real time are more than Cap requests admitted.
THEOREM RateIsLimited == Spec => []RateLimited
<1>1. TypeOK /\ RateInv => RateLimited BY DEF RateInv
<1>2. QED BY TypeCorrect, InitRate, NextRate, <1>1, PTL DEF Spec

(***************************************************************************)
(* close() and lost wake-ups.                                              *)
(***************************************************************************)

\* A closed limiter holds no request and no timer, also in the middle of a
\* drain that a callback closed it from.
THEOREM ClosedStaysQuiescent == Spec => []ClosedIsQuiescent
<1>1. Init => ClosedIsQuiescent BY DEF Init, ClosedIsQuiescent
<1>2. ClosedIsQuiescent /\ [Next]_vars => ClosedIsQuiescent'
  <2> SUFFICES ASSUME ClosedIsQuiescent, [Next]_vars PROVE ClosedIsQuiescent'
    OBVIOUS
  <2> USE DEF ClosedIsQuiescent
  <2>1. ASSUME NEW r \in Requests, Schedule(r) PROVE ClosedIsQuiescent'
    BY <2>1 DEF Schedule, RefuseClosed, RefuseFull, Enqueue, Accepts, Enqueued
  <2>2. CASE Close
    BY <2>2 DEF Close, RejectQueued
  <2>3. CASE HookThrows \/ HookReturns
    BY <2>3 DEF HookThrows, HookReturns, AfterScheduleEmit, AfterScheduleWarn,
       AfterRefuseWarn, AfterExpiredEmit, AfterAdmittedEmit, AfterCloseEmit
  <2>4. CASE Drain
    BY <2>4 DEF Drain, DrainDone, DrainWaits, DrainExpires, DrainAdmits, ArmTimer, Shifted
  <2>5. CASE TimerFires \/ StartJob \/ \E r \in Requests : JobEnds(r)
    BY <2>5 DEF TimerFires, StartJob, JobEnds
  <2>6. CASE Tick \/ ClockStepsBack
    BY <2>6 DEF Tick, ClockStepsBack
  <2>7. CASE UNCHANGED vars
    BY <2>7 DEF vars
  <2>8. QED BY <2>1, <2>2, <2>3, <2>4, <2>5, <2>6, <2>7 DEF Next, Run, Over
<1>3. QED BY <1>1, <1>2, PTL DEF Spec

\* Some activation stands at one of the points P.
SomeAt(s, P) == \E i \in 1 .. Len(s) : s[i].at \in P

\* The loop is marked as running only while it runs, and a request that waits
\* is waited for by the timer, the loop, or a schedule() that will start it.
WakeInv ==
  /\ processing => SomeAt(stack, Draining)
  /\ queue # <<>> => timer # None \/ SomeAt(stack, Draining \cup ScheduleHooks)

\* Pushing an activation hides none.
LEMMA PushKeeps ==
  ASSUME NEW s \in Seq(Frames), NEW f \in Frames, NEW P
  PROVE  /\ SomeAt(s, P) => SomeAt(Append(s, f), P)
         /\ f.at \in P => SomeAt(Append(s, f), P)
<1>1. Len(s) \in Nat /\ Len(Append(s, f)) = Len(s) + 1
  OBVIOUS
<1>2. \A i \in 1 .. Len(s) : Append(s, f)[i] = s[i]
  OBVIOUS
<1>3. Append(s, f)[Len(s) + 1] = f
  OBVIOUS
<1>4. QED BY <1>1, <1>2, <1>3 DEF SomeAt

\* Leaving the innermost activation hides only that one.
LEMMA PopKeeps ==
  ASSUME NEW s \in Seq(Frames), s # <<>>, NEW P, Last(s).at \notin P
  PROVE  SomeAt(s, P) => SomeAt(Front(s), P)
<1>1. /\ Len(s) \in Nat /\ Len(Front(s)) = Len(s) - 1
      /\ \A i \in 1 .. Len(s) - 1 : Front(s)[i] = s[i]
  BY FrontType
<1>2. ASSUME NEW i \in 1 .. Len(s), s[i].at \in P
      PROVE  SomeAt(Front(s), P)
  <2>1. i # Len(s) BY <1>2 DEF Last
  <2>2. i \in 1 .. Len(s) - 1 BY <1>1, <2>1
  <2>3. QED BY <1>1, <1>2, <2>2 DEF SomeAt
<1>3. QED BY <1>2 DEF SomeAt

\* An activation that moves on to f hides itself only where f is not.
LEMMA GotoKeeps ==
  ASSUME TypeOK, stack # <<>>, NEW f \in Frames, NEW P
  PROVE  /\ f.at \in P => SomeAt(Goto(f), P)
         /\ top.at \notin P /\ SomeAt(stack, P) => SomeAt(Goto(f), P)
<1>1. Front(stack) \in Seq(Frames) BY FrontType DEF TypeOK
<1>2. QED BY <1>1, PopKeeps, PushKeeps DEF Goto, top, TypeOK

LEMMA NextWake ==
  ASSUME ~HooksMayThrow, TypeOK, ClosedIsQuiescent, WakeInv, [Next]_vars
  PROVE  WakeInv'
<1> DEFINE Coming == Draining \cup ScheduleHooks
<1>0. stack \in Seq(Frames) BY DEF TypeOK
<1>1. ASSUME NEW r \in Requests, Schedule(r) PROVE WakeInv'
  <2>1. CASE RefuseClosed(r)
    BY <2>1 DEF RefuseClosed, WakeInv
  <2>2. CASE RefuseFull(r)
    <3>1. Frame("refuseWarn", r, None) \in Frames BY DEF Frame, Frames
    <3>2. QED BY <1>0, <2>2, <3>1, PushKeeps DEF RefuseFull, WakeInv, Accepts
  <2>3. CASE Enqueue(r)
    <3>1. /\ Frame("scheduleEmit", r, None) \in Frames
          /\ Frame("scheduleEmit", r, None).at \in Coming
      BY DEF Frame, Frames, ScheduleHooks
    <3>2. QED BY <1>0, <2>3, <3>1, PushKeeps DEF Enqueue, WakeInv, Accepts, Enqueued
  <2>4. QED BY <1>1, <2>1, <2>2, <2>3 DEF Schedule
<1>2. CASE Close
  <2>1. Frame("closeEmit", None, None) \in Frames BY DEF Frame, Frames
  <2>2. QED BY <1>0, <1>2, <2>1, PushKeeps DEF Close, WakeInv, RejectQueued
<1>3. ASSUME HookReturns PROVE WakeInv'
  <2>1. stack # <<>> BY <1>3 DEF HookReturns, AfterScheduleEmit, AfterScheduleWarn,
          AfterRefuseWarn, AfterExpiredEmit, AfterAdmittedEmit, AfterCloseEmit, At
  <2>2. top \in Frames BY <1>0, <2>1, FrontType DEF top
  <2>3. ASSUME NEW q \in {"drain"} \cup ScheduleHooks, top.at \in ScheduleHooks
        PROVE  Frame(q, top.caller, None) \in Frames
    BY <2>2, <2>3 DEF Frame, Frames, ScheduleHooks
  <2>4. ASSUME Process, top.at \in ScheduleHooks, UNCHANGED <<queue, timer, closed>>
        PROVE  WakeInv'
    <3>1. CASE processing
      <4>1. SomeAt(stack, Draining) BY <3>1 DEF WakeInv
      <4>2. top.at \notin Draining BY <2>4 DEF ScheduleHooks, Draining, DrainHooks
      <4>3. SomeAt(stack', Draining)
        BY <1>0, <2>1, <2>4, <3>1, <4>1, <4>2, PopKeeps DEF Process, top
      <4>4. SomeAt(stack', Coming) BY <4>3 DEF SomeAt
      <4>5. QED BY <4>3, <4>4 DEF WakeInv
    <3>2. CASE closed /\ ~processing
      BY <2>4, <3>2 DEF Process, WakeInv, ClosedIsQuiescent
    <3>3. CASE ~closed /\ ~processing
      <4>1. /\ Frame("drain", top.caller, None) \in Frames
            /\ Frame("drain", top.caller, None).at \in Draining
        BY <2>3, <2>4 DEF Frame, Draining
      <4>2. SomeAt(stack', Draining)
        BY <2>1, <2>4, <3>3, <4>1, GotoKeeps DEF Process
      <4>3. SomeAt(stack', Coming) BY <4>2 DEF SomeAt
      <4>4. QED BY <4>2, <4>3 DEF WakeInv
    <3>4. QED BY <3>1, <3>2, <3>3
  <2>5. CASE AfterScheduleEmit
    <3>1. top.at \in ScheduleHooks BY <2>5 DEF AfterScheduleEmit, At, top, ScheduleHooks
    <3>2. CASE Len(queue) >= WarnAt
      <4>1. /\ Frame("scheduleWarn", top.caller, None) \in Frames
            /\ Frame("scheduleWarn", top.caller, None).at \in Coming
        BY <2>3, <3>1 DEF ScheduleHooks, Frame
      <4>2. top.at \notin Draining BY <3>1 DEF ScheduleHooks, Draining, DrainHooks
      <4>3. /\ stack' = Goto(Frame("scheduleWarn", top.caller, None))
            /\ UNCHANGED <<processing, queue, timer>>
        BY <2>5, <3>2 DEF AfterScheduleEmit
      <4>4. SomeAt(stack', Coming) BY <2>1, <4>1, <4>3, GotoKeeps
      <4>5. SomeAt(stack, Draining) => SomeAt(stack', Draining)
        BY <2>1, <4>1, <4>2, <4>3, GotoKeeps
      <4>6. QED BY <4>3, <4>4, <4>5 DEF WakeInv
    <3>3. CASE ~(Len(queue) >= WarnAt)
      BY <2>4, <2>5, <3>1, <3>3 DEF AfterScheduleEmit
    <3>4. QED BY <3>2, <3>3
  <2>6. CASE AfterScheduleWarn
    <3>1. top.at \in ScheduleHooks BY <2>6 DEF AfterScheduleWarn, At, top, ScheduleHooks
    <3>2. QED BY <2>4, <2>6, <3>1 DEF AfterScheduleWarn
  <2>7. CASE AfterRefuseWarn \/ AfterCloseEmit
    <3>1. top.at \notin Coming /\ top.at \notin Draining
      BY <2>7 DEF AfterRefuseWarn, AfterCloseEmit, At, top, ScheduleHooks, Draining, DrainHooks
    <3>2. stack' = Front(stack) /\ UNCHANGED <<processing, queue, timer>>
      BY <2>7 DEF AfterRefuseWarn, AfterCloseEmit
    <3>3. /\ SomeAt(stack, Draining) => SomeAt(stack', Draining)
          /\ SomeAt(stack, Coming) => SomeAt(stack', Coming)
      BY <1>0, <2>1, <3>1, <3>2, PopKeeps DEF top
    <3>4. QED BY <3>2, <3>3 DEF WakeInv
  <2>8. CASE AfterExpiredEmit \/ AfterAdmittedEmit
    <3>1. /\ Frame("drain", top.caller, None) \in Frames
          /\ Frame("drain", top.caller, None).at \in Draining
      BY <2>2, <2>8 DEF Frame, Frames, Draining, ScheduleHooks,
         AfterExpiredEmit, AfterAdmittedEmit, At, top
    <3>2. SomeAt(stack', Draining)
      BY <2>1, <2>8, <3>1, GotoKeeps DEF AfterExpiredEmit, AfterAdmittedEmit
    <3>3. SomeAt(stack', Coming) BY <3>2 DEF SomeAt
    <3>4. QED BY <3>2, <3>3 DEF WakeInv
  <2>9. QED BY <1>3, <2>5, <2>6, <2>7, <2>8 DEF HookReturns
<1>4. ASSUME Drain PROVE WakeInv'
  <2>1. stack # <<>> /\ top.at = "drain"
    BY <1>4 DEF Drain, DrainDone, DrainWaits, DrainExpires, DrainAdmits, At, top, ArmTimer, Shifted
  <2>2. top.caller \in Requests \cup {None}
    BY <1>0, <2>1, FrontType DEF top, Frames
  <2>3. CASE DrainDone
    BY <2>3 DEF DrainDone, WakeInv
  <2>4. CASE DrainWaits
    <3>1. timer' # None
      <4>1. PICK n \in 0 .. Len(timestamps) :
              timer' = IF timer = None THEN Delay(Live(n)) ELSE timer
        BY <2>4 DEF DrainWaits, ArmTimer
      <4>2. Delay(Live(n)) \in Nat BY LiveType, DelayType DEF TypeOK
      <4>3. QED BY <4>1, <4>2, LimiterAssumption
    <3>2. QED BY <2>4, <3>1 DEF DrainWaits, WakeInv, ArmTimer
  <2>5. CASE DrainExpires \/ DrainAdmits
    <3>1. PICK f \in Frames : f.at \in Draining /\ stack' = Goto(f)
      <4>1. Head(queue).req \in Requests
        <5>1. queue # <<>> BY <2>5 DEF DrainExpires, DrainAdmits, Shifted
        <5>2. queue \in Seq([req : Requests, enqueuedAt : Int]) BY DEF TypeOK
        <5>3. Head(queue) \in [req : Requests, enqueuedAt : Int]
          BY <5>1, <5>2, HeadTailProperties
        <5>4. QED BY <5>3
      <4>2. /\ Frame("expiredEmit", top.caller, None) \in Frames
            /\ Frame("admittedEmit", top.caller, Head(queue).req) \in Frames
        BY <2>2, <4>1 DEF Frame, Frames
      <4>3. /\ Frame("expiredEmit", top.caller, None).at \in Draining
            /\ Frame("admittedEmit", top.caller, Head(queue).req).at \in Draining
        BY DEF Frame, Draining, DrainHooks
      <4>4. QED BY <2>5, <4>2, <4>3 DEF DrainExpires, DrainAdmits, Shifted
    <3>2. SomeAt(stack', Draining) BY <2>1, <3>1, GotoKeeps
    <3>3. SomeAt(stack', Coming) BY <3>2 DEF SomeAt
    <3>4. QED BY <3>2, <3>3 DEF WakeInv
  <2>6. QED BY <1>4, <2>3, <2>4, <2>5 DEF Drain
<1>5. CASE TimerFires
  <2>1. CASE closed
    BY <1>5, <2>1 DEF TimerFires, WakeInv, ClosedIsQuiescent
  <2>2. CASE ~closed
    <3>1. stack' = <<Frame("drain", None, None)>> BY <1>5, <2>2 DEF TimerFires
    <3>2. Len(stack') = 1 /\ stack'[1].at \in Draining BY <3>1 DEF Frame, Draining
    <3>3. SomeAt(stack', Draining) /\ SomeAt(stack', Coming)
      BY <3>2 DEF SomeAt
    <3>4. QED BY <3>3 DEF WakeInv
  <2>3. QED BY <2>1, <2>2
<1>6. CASE StartJob \/ \E r \in Requests : JobEnds(r)
  BY <1>6 DEF StartJob, JobEnds, WakeInv
<1>7. CASE Tick
  <2>1. timer # None => timer - 1 \in Int BY DEF TypeOK
  <2>2. UNCHANGED <<stack, queue, processing>> /\ (timer # None => timer' # None)
    BY <1>7, <2>1, LimiterAssumption DEF Tick
  <2>3. QED BY <2>2 DEF WakeInv
<1>8. CASE ClockStepsBack
  BY <1>8 DEF ClockStepsBack, WakeInv
<1>9. CASE UNCHANGED vars
  BY <1>9 DEF vars, WakeInv
<1>10. QED
  BY <1>1, <1>2, <1>3, <1>4, <1>5, <1>6, <1>7, <1>8, <1>9
  DEF Next, Run, HookThrows, Over

\* If its callbacks do not throw, the limiter never goes idle over a waiting
\* request without a timer that will resume it.
THEOREM NoWakeupIsLost ==
  ASSUME ~HooksMayThrow
  PROVE  Spec => []NoLostWakeup
<1>1. Init => WakeInv BY DEF Init, WakeInv
<1>2. TypeOK /\ ClosedIsQuiescent /\ WakeInv /\ [Next]_vars => WakeInv'
  BY NextWake
<1>3. WakeInv => NoLostWakeup
  BY EmptySeq DEF WakeInv, NoLostWakeup, SomeAt, Idle
<1>4. QED BY TypeCorrect, ClosedStaysQuiescent, <1>1, <1>2, <1>3, PTL DEF Spec

(***************************************************************************)
(* A request is in one place: nowhere, at a door it is being refused at,   *)
(* in the queue, or admitted; and an admitted one is in an activation that *)
(* is announcing it, among the microtasks, running, or resolved.           *)
(***************************************************************************)
Waits(r)   == \E i \in 1 .. Len(queue) : queue[i].req = r
Granted(r) == \E i \in 1 .. Len(log) : log[i].req = r
IsJob(r)   == \E i \in 1 .. Len(jobs) : jobs[i] = r

\* The activation at f is refusing, or announcing, r.
Refuses(f, r)   == f.at = "refuseWarn" /\ f.caller = r
Announces(f, r) == f.at = "admittedEmit" /\ f.entry = r
Refused(r)   == \E i \in 1 .. Len(stack) : Refuses(stack[i], r)
Announced(r) == \E i \in 1 .. Len(stack) : Announces(stack[i], r)

\* An entry of the queue is there once, unanswered, and has not been admitted.
WaitInv ==
  /\ \A i, j \in 1 .. Len(queue) : queue[i].req = queue[j].req => i = j
  /\ \A r \in Requests : Waits(r) => outcome[r] = "pending" /\ ~Granted(r)

GrantInv ==
  /\ \A i, j \in 1 .. Len(log) : log[i].req = log[j].req => i = j
  /\ \A r \in Requests : Granted(r) => outcome[r] \in {"pending", "resolved"}

RefuseInv ==
  /\ \A r \in Requests, i, j \in 1 .. Len(stack) :
       Refuses(stack[i], r) /\ Refuses(stack[j], r) => i = j
  /\ \A r \in Requests, i \in 1 .. Len(stack) :
       Refuses(stack[i], r) => outcome[r] = "pending" /\ ~Waits(r) /\ ~Granted(r)

AnnounceInv ==
  /\ \A r \in Requests, i, j \in 1 .. Len(stack) :
       Announces(stack[i], r) /\ Announces(stack[j], r) => i = j
  /\ \A r \in Requests :
       Announced(r) => Granted(r) /\ outcome[r] = "pending" /\ ~IsJob(r) /\ r \notin running

JobInv ==
  /\ \A i, j \in 1 .. Len(jobs) : jobs[i] = jobs[j] => i = j
  /\ \A r \in Requests :
       IsJob(r) => Granted(r) /\ outcome[r] = "pending" /\ r \notin running

RunInv == \A r \in running : Granted(r) /\ outcome[r] = "pending"

PlaceInv == WaitInv /\ GrantInv /\ RefuseInv /\ AnnounceInv /\ JobInv /\ RunInv

-----------------------------------------------------------------------------
(* What the steps do to the places.                                        *)

\* No activation has come to refuse or to announce a request.
Unmoved ==
  \A i \in 1 .. Len(stack') :
    \/ i \in 1 .. Len(stack) /\ stack'[i] = stack[i]
    \/ stack'[i].at \notin {"refuseWarn", "admittedEmit"}

\* Pushing, leaving or moving on an activation, unless to such a place.
LEMMA PushUnmoved ==
  ASSUME TypeOK, NEW f \in Frames, f.at \notin {"refuseWarn", "admittedEmit"},
         stack' = Append(stack, f)
  PROVE  Unmoved
<1>1. /\ Len(stack') = Len(stack) + 1 /\ Len(stack) \in Nat
      /\ \A i \in 1 .. Len(stack) : stack'[i] = stack[i]
      /\ stack'[Len(stack) + 1] = f
  BY AppendProperties, LenProperties DEF TypeOK
<1>2. QED BY <1>1 DEF Unmoved

LEMMA PopUnmoved ==
  ASSUME TypeOK, stack # <<>>, stack' = Front(stack)
  PROVE  Unmoved
<1>1. /\ Len(stack') = Len(stack) - 1 /\ Len(stack) \in Nat
      /\ \A i \in 1 .. Len(stack) - 1 : stack'[i] = stack[i]
  BY FrontType, LenProperties DEF TypeOK
<1>2. QED BY <1>1 DEF Unmoved

\* An activation that moves on is the innermost one.
LEMMA GotoStack ==
  ASSUME TypeOK, stack # <<>>, NEW f \in Frames, stack' = Goto(f)
  PROVE  /\ Len(stack) \in Nat \ {0} /\ Len(stack') = Len(stack)
         /\ \A i \in 1 .. Len(stack) - 1 : stack'[i] = stack[i]
         /\ stack'[Len(stack)] = f
         /\ top = stack[Len(stack)]
<1>1. /\ Front(stack) \in Seq(Frames) /\ Len(Front(stack)) = Len(stack) - 1
      /\ Len(stack) \in Nat \ {0}
      /\ \A i \in 1 .. Len(stack) - 1 : Front(stack)[i] = stack[i]
  BY FrontType, EmptySeq DEF TypeOK
<1>2. /\ Len(stack') = Len(Front(stack)) + 1
      /\ \A i \in 1 .. Len(Front(stack)) : stack'[i] = Front(stack)[i]
      /\ stack'[Len(Front(stack)) + 1] = f
  BY <1>1, AppendProperties DEF Goto
<1>3. QED BY <1>1, <1>2 DEF top, Last

LEMMA GotoUnmoved ==
  ASSUME TypeOK, stack # <<>>, NEW f \in Frames,
         f.at \notin {"refuseWarn", "admittedEmit"}, stack' = Goto(f)
  PROVE  Unmoved
BY GotoStack DEF Unmoved

\* The places of a step that moves no activation are among those before it.
LEMMA UnmovedPlaces ==
  ASSUME TypeOK, TypeOK', Unmoved, NEW r \in Requests
  PROVE  /\ \A i \in 1 .. Len(stack') :
              Refuses(stack'[i], r) => i \in 1 .. Len(stack) /\ Refuses(stack[i], r)
         /\ \A i \in 1 .. Len(stack') :
              Announces(stack'[i], r) => i \in 1 .. Len(stack) /\ Announces(stack[i], r)
         /\ Announced(r)' => Announced(r)
         /\ Refused(r)' => Refused(r)
BY DEF Unmoved, Refuses, Announces, Announced, Refused

\* Joining and leaving the queue.
LEMMA Enqueues ==
  ASSUME TypeOK, NEW e \in [req : Requests, enqueuedAt : Int],
         queue' = Append(queue, e)
  PROVE  /\ \A r \in Requests : Waits(r)' <=> Waits(r) \/ r = e.req
         /\ WaitInv /\ ~Waits(e.req) =>
              \A i, j \in 1 .. Len(queue') : queue'[i].req = queue'[j].req => i = j
<1>1. /\ Len(queue') = Len(queue) + 1 /\ Len(queue) \in Nat
      /\ \A i \in 1 .. Len(queue) : queue'[i] = queue[i]
      /\ queue'[Len(queue) + 1] = e
  BY AppendProperties, LenProperties DEF TypeOK
<1>2. \A i \in 1 .. Len(queue) + 1 : i \in 1 .. Len(queue) \/ i = Len(queue) + 1
  BY <1>1
<1>3. ASSUME NEW r \in Requests PROVE Waits(r)' <=> Waits(r) \/ r = e.req
  <2>1. ASSUME Waits(r)' PROVE Waits(r) \/ r = e.req
    BY <1>1, <1>2, <2>1 DEF Waits
  <2>2. ASSUME Waits(r) PROVE Waits(r)'
    BY <1>1, <2>2 DEF Waits
  <2>3. ASSUME r = e.req PROVE Waits(r)'
    BY <1>1, <2>3 DEF Waits
  <2>4. QED BY <2>1, <2>2, <2>3
<1>4. QED BY <1>1, <1>2, <1>3 DEF WaitInv, Waits

LEMMA Shifts ==
  ASSUME TypeOK, WaitInv, queue # <<>>, queue' = Shifted
  PROVE  /\ Head(queue).req \in Requests
         /\ Waits(Head(queue).req)
         /\ \A r \in Requests : Waits(r)' <=> Waits(r) /\ r # Head(queue).req
         /\ \A i, j \in 1 .. Len(queue') : queue'[i].req = queue'[j].req => i = j
<1>1. /\ Len(queue') = Len(queue) - 1 /\ Len(queue) \in Nat \ {0}
      /\ \A i \in 1 .. Len(queue) - 1 : queue'[i] = queue[i + 1]
      /\ Head(queue) = queue[1] /\ queue[1].req \in Requests
  <2>1. queue \in Seq([req : Requests, enqueuedAt : Int]) BY DEF TypeOK
  <2>2. Len(queue) \in Nat \ {0} BY <2>1, EmptySeq
  <2>3. queue[1] \in [req : Requests, enqueuedAt : Int]
    <3>1. 1 \in 1 .. Len(queue) BY <2>2
    <3>2. QED BY <2>1, <3>1, ElementOfSeq
  <2>4. /\ Len(queue') = Len(queue) - 1
        /\ \A i \in 1 .. Len(queue') : queue'[i] = queue[i + 1]
    BY <2>1, HeadTailProperties DEF Shifted
  <2>5. Head(queue) = queue[1] BY <2>1
  <2>6. QED BY <2>2, <2>3, <2>4, <2>5
<1>2. \A i, j \in 1 .. Len(queue) : queue[i].req = queue[j].req => i = j
  BY DEF WaitInv
<1>3. Waits(Head(queue).req) BY <1>1 DEF Waits
<1>4. ASSUME NEW r \in Requests PROVE Waits(r)' <=> Waits(r) /\ r # Head(queue).req
  <2>1. ASSUME Waits(r)' PROVE Waits(r) /\ r # Head(queue).req
    <3>1. PICK i \in 1 .. Len(queue) - 1 : queue[i + 1].req = r
      BY <1>1, <2>1 DEF Waits
    <3>2. i + 1 \in 1 .. Len(queue) /\ i + 1 # 1 /\ 1 \in 1 .. Len(queue) BY <1>1
    <3>3. QED BY <1>1, <1>2, <3>1, <3>2 DEF Waits
  <2>2. ASSUME Waits(r), r # Head(queue).req PROVE Waits(r)'
    <3>1. PICK i \in 1 .. Len(queue) : queue[i].req = r
      BY <2>2 DEF Waits
    <3>2. i # 1 /\ i - 1 \in 1 .. Len(queue) - 1 /\ (i - 1) + 1 = i
      BY <1>1, <2>2, <3>1
    <3>3. QED BY <1>1, <3>1, <3>2 DEF Waits
  <2>3. QED BY <2>1, <2>2
<1>5. ASSUME NEW i \in 1 .. Len(queue'), NEW j \in 1 .. Len(queue'),
             queue'[i].req = queue'[j].req
      PROVE  i = j
  <2>1. i + 1 \in 1 .. Len(queue) /\ j + 1 \in 1 .. Len(queue) BY <1>1
  <2>2. queue[i + 1].req = queue[j + 1].req BY <1>1, <1>5
  <2>3. i + 1 = j + 1 BY <1>2, <2>1, <2>2
  <2>4. QED BY <1>1, <2>3
<1>6. QED BY <1>1, <1>3, <1>4, <1>5

\* The history grows by one admission.
LEMMA Grants ==
  ASSUME TypeOK, NEW e \in [req : Requests, at : Nat, wall : Int],
         log' = Append(log, e)
  PROVE  /\ \A r \in Requests : Granted(r)' <=> Granted(r) \/ r = e.req
         /\ GrantInv /\ ~Granted(e.req) =>
              \A i, j \in 1 .. Len(log') : log'[i].req = log'[j].req => i = j
<1>1. /\ Len(log') = Len(log) + 1 /\ Len(log) \in Nat
      /\ \A i \in 1 .. Len(log) : log'[i] = log[i]
      /\ log'[Len(log) + 1] = e
  BY AppendProperties, LenProperties DEF TypeOK
<1>2. \A i \in 1 .. Len(log) + 1 : i \in 1 .. Len(log) \/ i = Len(log) + 1
  BY <1>1
<1>3. ASSUME NEW r \in Requests PROVE Granted(r)' <=> Granted(r) \/ r = e.req
  <2>1. ASSUME Granted(r)' PROVE Granted(r) \/ r = e.req
    BY <1>1, <1>2, <2>1 DEF Granted
  <2>2. ASSUME Granted(r) PROVE Granted(r)'
    BY <1>1, <2>2 DEF Granted
  <2>3. ASSUME r = e.req PROVE Granted(r)'
    BY <1>1, <2>3 DEF Granted
  <2>4. QED BY <2>1, <2>2, <2>3
<1>4. QED BY <1>1, <1>2, <1>3 DEF GrantInv, Granted

\* The microtasks are run in the order they were queued.
LEMMA QueuesJob ==
  ASSUME TypeOK, NEW e \in Requests, jobs' = Append(jobs, e)
  PROVE  /\ \A r \in Requests : IsJob(r)' <=> IsJob(r) \/ r = e
         /\ JobInv /\ ~IsJob(e) =>
              \A i, j \in 1 .. Len(jobs') : jobs'[i] = jobs'[j] => i = j
<1>1. /\ Len(jobs') = Len(jobs) + 1 /\ Len(jobs) \in Nat
      /\ \A i \in 1 .. Len(jobs) : jobs'[i] = jobs[i]
      /\ jobs'[Len(jobs) + 1] = e
  BY AppendProperties, LenProperties DEF TypeOK
<1>2. \A i \in 1 .. Len(jobs) + 1 : i \in 1 .. Len(jobs) \/ i = Len(jobs) + 1
  BY <1>1
<1>3. ASSUME NEW r \in Requests PROVE IsJob(r)' <=> IsJob(r) \/ r = e
  <2>1. ASSUME IsJob(r)' PROVE IsJob(r) \/ r = e
    BY <1>1, <1>2, <2>1 DEF IsJob
  <2>2. ASSUME IsJob(r) PROVE IsJob(r)'
    BY <1>1, <2>2 DEF IsJob
  <2>3. ASSUME r = e PROVE IsJob(r)'
    BY <1>1, <2>3 DEF IsJob
  <2>4. QED BY <2>1, <2>2, <2>3
<1>4. QED BY <1>1, <1>2, <1>3 DEF JobInv, IsJob

LEMMA TakesJob ==
  ASSUME TypeOK, JobInv, jobs # <<>>, jobs' = Tail(jobs)
  PROVE  /\ Head(jobs) \in Requests /\ IsJob(Head(jobs))
         /\ \A r \in Requests : IsJob(r)' <=> IsJob(r) /\ r # Head(jobs)
         /\ \A i, j \in 1 .. Len(jobs') : jobs'[i] = jobs'[j] => i = j
<1>1. /\ Len(jobs') = Len(jobs) - 1 /\ Len(jobs) \in Nat \ {0}
      /\ \A i \in 1 .. Len(jobs) - 1 : jobs'[i] = jobs[i + 1]
      /\ Head(jobs) = jobs[1] /\ jobs[1] \in Requests
  BY HeadTailProperties, EmptySeq, ElementOfSeq DEF TypeOK
<1>2. \A i, j \in 1 .. Len(jobs) : jobs[i] = jobs[j] => i = j
  BY DEF JobInv
<1>3. IsJob(Head(jobs)) BY <1>1 DEF IsJob
<1>4. ASSUME NEW r \in Requests PROVE IsJob(r)' <=> IsJob(r) /\ r # Head(jobs)
  <2>1. ASSUME IsJob(r)' PROVE IsJob(r) /\ r # Head(jobs)
    <3>1. PICK i \in 1 .. Len(jobs) - 1 : jobs[i + 1] = r
      BY <1>1, <2>1 DEF IsJob
    <3>2. i + 1 \in 1 .. Len(jobs) /\ i + 1 # 1 /\ 1 \in 1 .. Len(jobs) BY <1>1
    <3>3. QED BY <1>1, <1>2, <3>1, <3>2 DEF IsJob
  <2>2. ASSUME IsJob(r), r # Head(jobs) PROVE IsJob(r)'
    <3>1. PICK i \in 1 .. Len(jobs) : jobs[i] = r
      BY <2>2 DEF IsJob
    <3>2. i # 1 /\ i - 1 \in 1 .. Len(jobs) - 1 /\ (i - 1) + 1 = i
      BY <1>1, <2>2, <3>1
    <3>3. QED BY <1>1, <3>1, <3>2 DEF IsJob
  <2>3. QED BY <2>1, <2>2
<1>5. ASSUME NEW i \in 1 .. Len(jobs'), NEW j \in 1 .. Len(jobs'), jobs'[i] = jobs'[j]
      PROVE  i = j
  <2>1. i + 1 \in 1 .. Len(jobs) /\ j + 1 \in 1 .. Len(jobs) BY <1>1
  <2>2. jobs[i + 1] = jobs[j + 1] BY <1>1, <1>5
  <2>3. i + 1 = j + 1 BY <1>2, <2>1, <2>2
  <2>4. QED BY <1>1, <2>3
<1>6. QED BY <1>1, <1>3, <1>4, <1>5
-----------------------------------------------------------------------------
(* Steps that put no request in a new place.                               *)

\* A request somewhere on its way, which its caller is waiting for.
Placed(r) == Waits(r) \/ Refused(r) \/ Announced(r) \/ IsJob(r) \/ r \in running

LEMMA PlacedPending ==
  ASSUME PlaceInv, NEW r \in Requests
  PROVE  /\ Placed(r) => outcome[r] = "pending"
         /\ Granted(r) => outcome[r] \in {"pending", "resolved"}
         /\ Announced(r) \/ IsJob(r) \/ r \in running => Granted(r)
         /\ Waits(r) \/ Refused(r) => ~Granted(r)
         /\ Waits(r) => ~Refused(r)
BY DEF PlaceInv, WaitInv, GrantInv, RefuseInv, AnnounceInv, JobInv, RunInv, Placed,
       Refused, Announced

LEMMA PlacesKept ==
  ASSUME TypeOK, TypeOK', PlaceInv, Unmoved, UNCHANGED <<log, jobs>>,
         running' \subseteq running,
         \A i, j \in 1 .. Len(queue') : queue'[i].req = queue'[j].req => i = j,
         \A r \in Requests : Waits(r)' => Waits(r),
         \A r \in Requests : Placed(r)' => outcome'[r] = outcome[r],
         \A r \in Requests : Granted(r) => outcome'[r] \in {"pending", "resolved"}
  PROVE  PlaceInv'
<1>0. /\ WaitInv /\ GrantInv /\ RefuseInv /\ AnnounceInv /\ JobInv /\ RunInv
      /\ running \subseteq Requests /\ running' \subseteq Requests
  BY DEF PlaceInv, TypeOK
<1>1. \A r \in Requests : /\ Granted(r)' <=> Granted(r)
                          /\ IsJob(r)' <=> IsJob(r)
                          /\ Refused(r)' => Refused(r)
                          /\ Announced(r)' => Announced(r)
  BY UnmovedPlaces DEF Granted, IsJob
<1>2. \A r \in Requests : Placed(r)' => outcome'[r] = "pending"
  <2> SUFFICES ASSUME NEW r \in Requests, Placed(r)' PROVE outcome'[r] = "pending"
    OBVIOUS
  <2>1. Placed(r) BY <1>1 DEF Placed
  <2>2. QED BY <2>1, PlacedPending
<1>3. WaitInv' BY <1>0, <1>1, <1>2 DEF WaitInv, Placed
<1>4. GrantInv' BY <1>0, <1>1 DEF GrantInv
<1>5. RefuseInv'
  <2>1. ASSUME NEW r \in Requests, NEW i \in 1 .. Len(stack'), NEW j \in 1 .. Len(stack'),
               Refuses(stack'[i], r), Refuses(stack'[j], r)
        PROVE  i = j
    BY <1>0, <2>1, UnmovedPlaces DEF RefuseInv
  <2>2. ASSUME NEW r \in Requests, NEW i \in 1 .. Len(stack'), Refuses(stack'[i], r)
        PROVE  outcome'[r] = "pending" /\ ~Waits(r)' /\ ~Granted(r)'
    <3>1. i \in 1 .. Len(stack) /\ Refuses(stack[i], r) BY <2>2, UnmovedPlaces
    <3>2. Placed(r)' BY <2>2 DEF Placed, Refused
    <3>3. QED BY <1>0, <1>1, <1>2, <3>1, <3>2 DEF RefuseInv
  <2>3. QED BY <2>1, <2>2 DEF RefuseInv
<1>6. AnnounceInv'
  <2>1. ASSUME NEW r \in Requests, NEW i \in 1 .. Len(stack'), NEW j \in 1 .. Len(stack'),
               Announces(stack'[i], r), Announces(stack'[j], r)
        PROVE  i = j
    BY <1>0, <2>1, UnmovedPlaces DEF AnnounceInv
  <2>2. ASSUME NEW r \in Requests, Announced(r)'
        PROVE  Granted(r)' /\ outcome'[r] = "pending" /\ ~IsJob(r)' /\ r \notin running'
    BY <1>0, <1>1, <1>2, <2>2 DEF AnnounceInv, Placed
  <2>3. QED BY <2>1, <2>2 DEF AnnounceInv
<1>7. JobInv' BY <1>0, <1>1, <1>2 DEF JobInv, Placed
<1>8. RunInv' BY <1>0, <1>1, <1>2 DEF RunInv, Placed
<1>9. QED BY <1>3, <1>4, <1>5, <1>6, <1>7, <1>8 DEF PlaceInv

\* In particular those that change the stack only.
LEMMA OnlyActivations ==
  ASSUME TypeOK, TypeOK', PlaceInv, Unmoved,
         UNCHANGED <<queue, log, jobs, running, outcome>>
  PROVE  PlaceInv'
<1>1. \A r \in Requests : Waits(r)' => Waits(r) BY DEF Waits
<1>2. \A i, j \in 1 .. Len(queue') : queue'[i].req = queue'[j].req => i = j
  BY DEF PlaceInv, WaitInv
<1>3. \A r \in Requests : Granted(r) => outcome'[r] \in {"pending", "resolved"}
  BY PlacedPending
<1>4. QED BY <1>1, <1>2, <1>3, PlacesKept

-----------------------------------------------------------------------------
(* Steps that do.                                                          *)

LEMMA RefuseFullPlaces ==
  ASSUME TypeOK, TypeOK', PlaceInv, NEW r \in Requests, RefuseFull(r)
  PROVE  PlaceInv'
<1>0. /\ WaitInv /\ GrantInv /\ RefuseInv /\ AnnounceInv /\ JobInv /\ RunInv
      /\ UNCHANGED <<queue, log, jobs, running>>
      /\ outcome[r] = "none" /\ running \subseteq Requests
  BY DEF PlaceInv, RefuseFull, MayCall, TypeOK
<1>1. ~Placed(r) /\ ~Granted(r) BY <1>0, PlacedPending
<1>2. \A q \in Requests : outcome'[q] = IF q = r THEN "pending" ELSE outcome[q]
  BY DEF RefuseFull, TypeOK
<1>3. /\ Len(stack') = Len(stack) + 1 /\ Len(stack) \in Nat
      /\ \A i \in 1 .. Len(stack) : stack'[i] = stack[i]
      /\ stack'[Len(stack) + 1] = Frame("refuseWarn", r, None)
  <2>1. Frame("refuseWarn", r, None) \in Frames BY DEF Frame, Frames
  <2>2. QED BY <2>1, AppendProperties, LenProperties DEF TypeOK, RefuseFull
<1>4. ASSUME NEW q \in Requests, NEW i \in 1 .. Len(stack')
      PROVE  /\ Announces(stack'[i], q) => i \in 1 .. Len(stack) /\ Announces(stack[i], q)
             /\ Refuses(stack'[i], q) => \/ i \in 1 .. Len(stack) /\ Refuses(stack[i], q)
                                         \/ i = Len(stack) + 1 /\ q = r
  <2>1. i \in 1 .. Len(stack) \/ i = Len(stack) + 1 BY <1>3
  <2>2. QED BY <1>3, <2>1 DEF Announces, Refuses, Frame
<1>5. \A q \in Requests : /\ Granted(q)' <=> Granted(q)
                          /\ IsJob(q)' <=> IsJob(q)
                          /\ Waits(q)' <=> Waits(q)
                          /\ Announced(q)' => Announced(q)
  BY <1>0, <1>4 DEF Granted, IsJob, Waits, Announced
<1>6. WaitInv' /\ GrantInv'
  BY <1>0, <1>1, <1>2, <1>5 DEF WaitInv, GrantInv
<1>7. RefuseInv'
  <2>1. ASSUME NEW q \in Requests, NEW i \in 1 .. Len(stack'), NEW j \in 1 .. Len(stack'),
               Refuses(stack'[i], q), Refuses(stack'[j], q)
        PROVE  i = j
    <3>1. q # r \/ (i = Len(stack) + 1 /\ j = Len(stack) + 1)
      BY <1>1, <1>4, <2>1 DEF Placed, Refused
    <3>2. QED BY <1>0, <1>4, <2>1, <3>1 DEF RefuseInv
  <2>2. ASSUME NEW q \in Requests, NEW i \in 1 .. Len(stack'), Refuses(stack'[i], q)
        PROVE  outcome'[q] = "pending" /\ ~Waits(q)' /\ ~Granted(q)'
    <3>1. CASE q = r BY <1>1, <1>2, <1>5, <3>1 DEF Placed
    <3>2. CASE q # r BY <1>0, <1>2, <1>4, <1>5, <2>2, <3>2 DEF RefuseInv
    <3>3. QED BY <3>1, <3>2
  <2>3. QED BY <2>1, <2>2 DEF RefuseInv
<1>8. AnnounceInv'
  <2>1. ASSUME NEW q \in Requests, NEW i \in 1 .. Len(stack'), NEW j \in 1 .. Len(stack'),
               Announces(stack'[i], q), Announces(stack'[j], q)
        PROVE  i = j
    BY <1>0, <1>4, <2>1 DEF AnnounceInv
  <2>2. ASSUME NEW q \in Requests, Announced(q)'
        PROVE  Granted(q)' /\ outcome'[q] = "pending" /\ ~IsJob(q)' /\ q \notin running'
    BY <1>0, <1>2, <1>5, <2>2 DEF AnnounceInv
  <2>3. QED BY <2>1, <2>2 DEF AnnounceInv
<1>9. JobInv' /\ RunInv' BY <1>0, <1>2, <1>5 DEF JobInv, RunInv
<1>10. QED BY <1>6, <1>7, <1>8, <1>9 DEF PlaceInv

LEMMA EnqueuePlaces ==
  ASSUME TypeOK, TypeOK', PlaceInv, NEW r \in Requests, Enqueue(r)
  PROVE  PlaceInv'
<1>0. /\ WaitInv /\ GrantInv /\ RefuseInv /\ AnnounceInv /\ JobInv /\ RunInv
      /\ UNCHANGED <<log, jobs, running>>
      /\ outcome[r] = "none" /\ running \subseteq Requests
  BY DEF PlaceInv, Enqueue, MayCall, TypeOK
<1>1. ~Placed(r) /\ ~Granted(r) BY <1>0, PlacedPending
<1>2. \A q \in Requests : outcome'[q] = IF q = r THEN "pending" ELSE outcome[q]
  BY DEF Enqueue, TypeOK
<1>3. Unmoved
  <2>1. /\ Frame("scheduleEmit", r, None) \in Frames
        /\ Frame("scheduleEmit", r, None).at = "scheduleEmit"
    BY DEF Frame, Frames, ScheduleHooks
  <2>2. QED BY <2>1, PushUnmoved DEF Enqueue
<1>4. /\ \A q \in Requests : Waits(q)' <=> Waits(q) \/ q = r
      /\ \A i, j \in 1 .. Len(queue') : queue'[i].req = queue'[j].req => i = j
  <2>1. [req |-> r, enqueuedAt |-> now] \in [req : Requests, enqueuedAt : Int]
    BY DEF now, TypeOK
  <2>2. queue' = Append(queue, [req |-> r, enqueuedAt |-> now])
    BY DEF Enqueue, Enqueued
  <2>3. QED BY <1>0, <1>1, <2>1, <2>2, Enqueues DEF Placed
<1>5. \A q \in Requests : /\ Granted(q)' <=> Granted(q)
                          /\ IsJob(q)' <=> IsJob(q)
                          /\ Announced(q)' => Announced(q)
                          /\ Refused(q)' => Refused(q)
  BY <1>0, <1>3, UnmovedPlaces DEF Granted, IsJob
<1>6. WaitInv' /\ GrantInv'
  BY <1>0, <1>1, <1>2, <1>4, <1>5 DEF WaitInv, GrantInv
<1>7. RefuseInv'
  <2>1. ASSUME NEW q \in Requests, NEW i \in 1 .. Len(stack'), NEW j \in 1 .. Len(stack'),
               Refuses(stack'[i], q), Refuses(stack'[j], q)
        PROVE  i = j
    BY <1>0, <1>3, <2>1, UnmovedPlaces DEF RefuseInv
  <2>2. ASSUME NEW q \in Requests, NEW i \in 1 .. Len(stack'), Refuses(stack'[i], q)
        PROVE  outcome'[q] = "pending" /\ ~Waits(q)' /\ ~Granted(q)'
    <3>1. i \in 1 .. Len(stack) /\ Refuses(stack[i], q) BY <1>3, <2>2, UnmovedPlaces
    <3>2. q # r BY <1>1, <3>1 DEF Placed, Refused
    <3>3. QED BY <1>0, <1>2, <1>4, <1>5, <3>1, <3>2 DEF RefuseInv
  <2>3. QED BY <2>1, <2>2 DEF RefuseInv
<1>8. AnnounceInv'
  <2>1. ASSUME NEW q \in Requests, NEW i \in 1 .. Len(stack'), NEW j \in 1 .. Len(stack'),
               Announces(stack'[i], q), Announces(stack'[j], q)
        PROVE  i = j
    BY <1>0, <1>3, <2>1, UnmovedPlaces DEF AnnounceInv
  <2>2. ASSUME NEW q \in Requests, Announced(q)'
        PROVE  Granted(q)' /\ outcome'[q] = "pending" /\ ~IsJob(q)' /\ q \notin running'
    BY <1>0, <1>2, <1>5, <2>2 DEF AnnounceInv
  <2>3. QED BY <2>1, <2>2 DEF AnnounceInv
<1>9. JobInv' /\ RunInv' BY <1>0, <1>2, <1>5 DEF JobInv, RunInv
<1>10. QED BY <1>6, <1>7, <1>8, <1>9 DEF PlaceInv
LEMMA AdmitPlaces ==
  ASSUME TypeOK, TypeOK', PlaceInv, DrainAdmits
  PROVE  PlaceInv'
<1> DEFINE h == Head(queue).req
           f == Frame("admittedEmit", top.caller, h)
<1>0. /\ WaitInv /\ GrantInv /\ RefuseInv /\ AnnounceInv /\ JobInv /\ RunInv
      /\ UNCHANGED <<jobs, running, outcome>> /\ running \subseteq Requests
      /\ queue # <<>> /\ queue' = Shifted
      /\ stack # <<>> /\ stack' = Goto(f) /\ top.at = "drain"
      /\ log' = Append(log, [req |-> h, at |-> real, wall |-> now])
  BY DEF PlaceInv, DrainAdmits, TypeOK, At, top
<1>1. /\ h \in Requests /\ Waits(h)
      /\ \A q \in Requests : Waits(q)' <=> Waits(q) /\ q # h
      /\ \A i, j \in 1 .. Len(queue') : queue'[i].req = queue'[j].req => i = j
  BY <1>0, Shifts
<1>2. /\ outcome[h] = "pending" /\ ~Granted(h) /\ ~Refused(h)
      /\ ~Announced(h) /\ ~IsJob(h) /\ h \notin running
  BY <1>0, <1>1, PlacedPending DEF WaitInv
<1>3. /\ \A q \in Requests : Granted(q)' <=> Granted(q) \/ q = h
      /\ \A i, j \in 1 .. Len(log') : log'[i].req = log'[j].req => i = j
  <2>1. [req |-> h, at |-> real, wall |-> now] \in [req : Requests, at : Nat, wall : Int]
    BY <1>1 DEF now, TypeOK
  <2>2. QED BY <1>0, <1>2, <2>1, Grants
<1>4. \A q \in Requests : IsJob(q)' <=> IsJob(q)
  BY <1>0 DEF IsJob
<1>5. /\ Len(stack) \in Nat \ {0} /\ Len(stack') = Len(stack)
      /\ \A i \in 1 .. Len(stack) - 1 : stack'[i] = stack[i]
      /\ stack'[Len(stack)] = f
  <2>1. top \in Frames BY <1>0, FrontType DEF top, TypeOK
  <2>2. top.caller \in Requests \cup {None} BY <2>1 DEF Frames
  <2>3. f \in Frames BY <1>1, <2>2 DEF Frame, Frames
  <2>4. QED BY <1>0, <2>3, GotoStack
<1>6. ASSUME NEW q \in Requests, NEW i \in 1 .. Len(stack')
      PROVE  /\ Refuses(stack'[i], q) => i \in 1 .. Len(stack) /\ Refuses(stack[i], q)
             /\ Announces(stack'[i], q) => \/ i \in 1 .. Len(stack) /\ Announces(stack[i], q)
                                           \/ i = Len(stack) /\ q = h
  <2>1. i \in 1 .. Len(stack) - 1 \/ i = Len(stack) BY <1>5
  <2>2. QED BY <1>5, <2>1 DEF Announces, Refuses, Frame
<1>7. WaitInv' /\ GrantInv'
  BY <1>0, <1>1, <1>2, <1>3 DEF WaitInv, GrantInv
<1>8. RefuseInv'
  <2>1. ASSUME NEW q \in Requests, NEW i \in 1 .. Len(stack'), NEW j \in 1 .. Len(stack'),
               Refuses(stack'[i], q), Refuses(stack'[j], q)
        PROVE  i = j
    BY <1>0, <1>6, <2>1 DEF RefuseInv
  <2>2. ASSUME NEW q \in Requests, NEW i \in 1 .. Len(stack'), Refuses(stack'[i], q)
        PROVE  outcome'[q] = "pending" /\ ~Waits(q)' /\ ~Granted(q)'
    <3>1. i \in 1 .. Len(stack) /\ Refuses(stack[i], q) BY <1>6, <2>2
    <3>2. q # h BY <1>2, <3>1 DEF Refused
    <3>3. QED BY <1>0, <1>1, <1>3, <3>1, <3>2 DEF RefuseInv
  <2>3. QED BY <2>1, <2>2 DEF RefuseInv
<1>9. AnnounceInv'
  <2>1. ASSUME NEW q \in Requests, NEW i \in 1 .. Len(stack'), NEW j \in 1 .. Len(stack'),
               Announces(stack'[i], q), Announces(stack'[j], q)
        PROVE  i = j
    <3>1. q # h \/ (i = Len(stack) /\ j = Len(stack))
      BY <1>2, <1>6, <2>1 DEF Announced
    <3>2. QED BY <1>0, <1>6, <2>1, <3>1 DEF AnnounceInv
  <2>2. ASSUME NEW q \in Requests, Announced(q)'
        PROVE  Granted(q)' /\ outcome'[q] = "pending" /\ ~IsJob(q)' /\ q \notin running'
    <3>1. Announced(q) \/ q = h BY <1>6, <2>2 DEF Announced
    <3>2. QED BY <1>0, <1>2, <1>3, <1>4, <3>1 DEF AnnounceInv
  <2>3. QED BY <2>1, <2>2 DEF AnnounceInv
<1>10. JobInv' /\ RunInv' BY <1>0, <1>3, <1>4 DEF JobInv, RunInv
<1>11. QED BY <1>7, <1>8, <1>9, <1>10 DEF PlaceInv

LEMMA AdmittedEmitPlaces ==
  ASSUME TypeOK, TypeOK', PlaceInv, AfterAdmittedEmit
  PROVE  PlaceInv'
<1> DEFINE f == Frame("drain", top.caller, None)
<1>1. top.entry \in Requests /\ top.caller \in Requests \cup {None}
  <2>1. stack # <<>> /\ top.at = "admittedEmit" BY DEF AfterAdmittedEmit, At, top
  <2>2. top \in Frames BY <2>1, FrontType DEF top, TypeOK
  <2>3. QED BY <2>1, <2>2 DEF Frames, ScheduleHooks
<1> PICK e \in Requests : e = top.entry BY <1>1
<1>0. /\ WaitInv /\ GrantInv /\ RefuseInv /\ AnnounceInv /\ JobInv /\ RunInv
      /\ UNCHANGED <<queue, log, running, outcome>> /\ running \subseteq Requests
      /\ stack # <<>> /\ stack' = Goto(f) /\ top.at = "admittedEmit"
      /\ jobs' = Append(jobs, e)
  BY DEF PlaceInv, AfterAdmittedEmit, TypeOK, At, top
<1>2. f \in Frames /\ f.at = "drain"
  BY <1>1 DEF Frame, Frames
<1>3. /\ Len(stack) \in Nat \ {0} /\ Len(stack') = Len(stack)
      /\ \A i \in 1 .. Len(stack) - 1 : stack'[i] = stack[i]
      /\ stack'[Len(stack)] = f /\ top = stack[Len(stack)]
  BY <1>0, <1>2, GotoStack
<1>4. Unmoved BY <1>0, <1>2, GotoUnmoved
<1>5. Announces(stack[Len(stack)], e) /\ Announced(e)
  BY <1>0, <1>3 DEF Announces, Announced
<1>6. /\ Granted(e) /\ outcome[e] = "pending" /\ ~IsJob(e) /\ e \notin running
  BY <1>0, <1>1, <1>5 DEF AnnounceInv
<1>7. ~Announced(e)'
  <2>1. ASSUME NEW i \in 1 .. Len(stack'), Announces(stack'[i], e) PROVE FALSE
    <3>1. i \in 1 .. Len(stack) /\ Announces(stack[i], e) BY <1>1, <1>4, <2>1, UnmovedPlaces
    <3>2. i = Len(stack) BY <1>0, <1>1, <1>3, <1>5, <3>1 DEF AnnounceInv
    <3>3. QED BY <1>2, <1>3, <2>1, <3>2 DEF Announces
  <2>2. QED BY <2>1 DEF Announced
<1>8. /\ \A q \in Requests : IsJob(q)' <=> IsJob(q) \/ q = e
      /\ \A i, j \in 1 .. Len(jobs') : jobs'[i] = jobs'[j] => i = j
  BY <1>0, <1>1, <1>6, QueuesJob
<1>9. \A q \in Requests : /\ Granted(q)' <=> Granted(q)
                          /\ Waits(q)' <=> Waits(q)
                          /\ Announced(q)' => Announced(q)
  BY <1>0, <1>4, UnmovedPlaces DEF Granted, Waits
<1>10. WaitInv' /\ GrantInv'
  BY <1>0, <1>9 DEF WaitInv, GrantInv
<1>11. RefuseInv'
  BY <1>0, <1>4, <1>9, UnmovedPlaces DEF RefuseInv
<1>12. AnnounceInv'
  <2>1. ASSUME NEW q \in Requests, NEW i \in 1 .. Len(stack'), NEW j \in 1 .. Len(stack'),
               Announces(stack'[i], q), Announces(stack'[j], q)
        PROVE  i = j
    BY <1>0, <1>4, <2>1, UnmovedPlaces DEF AnnounceInv
  <2>2. ASSUME NEW q \in Requests, Announced(q)'
        PROVE  Granted(q)' /\ outcome'[q] = "pending" /\ ~IsJob(q)' /\ q \notin running'
    BY <1>0, <1>7, <1>8, <1>9, <2>2 DEF AnnounceInv
  <2>3. QED BY <2>1, <2>2 DEF AnnounceInv
<1>13. JobInv' /\ RunInv'
  BY <1>0, <1>6, <1>8, <1>9 DEF JobInv, RunInv
<1>14. QED BY <1>10, <1>11, <1>12, <1>13 DEF PlaceInv

LEMMA StartJobPlaces ==
  ASSUME TypeOK, TypeOK', PlaceInv, StartJob
  PROVE  PlaceInv'
<1> DEFINE h == Head(jobs)
<1>0. /\ WaitInv /\ GrantInv /\ RefuseInv /\ AnnounceInv /\ JobInv /\ RunInv
      /\ UNCHANGED <<queue, log, stack, outcome>> /\ running \subseteq Requests
      /\ jobs # <<>> /\ jobs' = Tail(jobs) /\ running' = running \cup {h}
  BY DEF PlaceInv, StartJob, TypeOK
<1>1. /\ h \in Requests /\ IsJob(h)
      /\ \A q \in Requests : IsJob(q)' <=> IsJob(q) /\ q # h
      /\ \A i, j \in 1 .. Len(jobs') : jobs'[i] = jobs'[j] => i = j
  BY <1>0, TakesJob
<1>2. Granted(h) /\ outcome[h] = "pending" BY <1>0, <1>1 DEF JobInv
<1>3. ~Announced(h) BY <1>0, <1>1 DEF AnnounceInv
<1>4. \A q \in Requests : /\ Granted(q)' <=> Granted(q)
                          /\ Waits(q)' <=> Waits(q)
                          /\ Announced(q)' <=> Announced(q)
  BY <1>0 DEF Granted, Waits, Announced
<1>5. WaitInv' /\ GrantInv' /\ RefuseInv'
  BY <1>0, <1>4 DEF WaitInv, GrantInv, RefuseInv
<1>6. AnnounceInv'
  BY <1>0, <1>1, <1>3, <1>4 DEF AnnounceInv
<1>7. JobInv' BY <1>0, <1>1, <1>4 DEF JobInv
<1>8. RunInv' BY <1>0, <1>1, <1>2, <1>4 DEF RunInv
<1>9. QED BY <1>5, <1>6, <1>7, <1>8 DEF PlaceInv

\* Of a request that leaves its place, the caller is told.
LEMMA AnswerPlaces ==
  ASSUME TypeOK, TypeOK', PlaceInv, Unmoved, UNCHANGED <<log, jobs>>,
         running' \subseteq running,
         \A i, j \in 1 .. Len(queue') : queue'[i].req = queue'[j].req => i = j,
         \A r \in Requests : Waits(r)' => Waits(r),
         NEW h \in Requests, ~Placed(h)', NEW how \in Outcomes,
         outcome' = [outcome EXCEPT ![h] = how],
         Granted(h) => how = "resolved"
  PROVE  PlaceInv'
<1>1. \A r \in Requests : outcome'[r] = IF r = h THEN how ELSE outcome[r]
  BY DEF TypeOK
<1>2. \A r \in Requests : Placed(r)' => outcome'[r] = outcome[r] BY <1>1
<1>3. \A r \in Requests : Granted(r) => outcome'[r] \in {"pending", "resolved"}
  BY <1>1, PlacedPending
<1>4. QED BY <1>2, <1>3, PlacesKept
LEMMA ClosePlaces ==
  ASSUME TypeOK, TypeOK', PlaceInv, Close
  PROVE  PlaceInv'
<1>1. Unmoved
  <2>1. /\ Frame("closeEmit", None, None) \in Frames
        /\ Frame("closeEmit", None, None).at = "closeEmit"
    BY DEF Frame, Frames
  <2>2. QED BY <2>1, PushUnmoved DEF Close
<1>2. UNCHANGED <<log, jobs, running>> /\ queue' = <<>> BY DEF Close
<1>3. \A r \in Requests : ~Waits(r)' BY <1>2 DEF Waits
<1>4. \A r \in Requests : outcome'[r] = IF Waits(r) /\ outcome[r] = "pending"
                                        THEN "closed" ELSE outcome[r]
  <2>1. DOMAIN queue = 1 .. Len(queue) BY DEF TypeOK
  <2>2. QED BY <2>1 DEF Close, RejectQueued, Waits
<1>5. ASSUME NEW r \in Requests, Placed(r)' PROVE outcome'[r] = outcome[r]
  <2>1. Refused(r) \/ Announced(r) \/ IsJob(r) \/ r \in running
    BY <1>1, <1>2, <1>3, <1>5, UnmovedPlaces DEF Placed, IsJob
  <2>2. ~Waits(r) BY <2>1, PlacedPending
  <2>3. QED BY <1>4, <2>2
<1>6. \A r \in Requests : Granted(r) => outcome'[r] \in {"pending", "resolved"}
  BY <1>4, PlacedPending
<1>7. \A i, j \in 1 .. Len(queue') : queue'[i].req = queue'[j].req => i = j
  BY <1>2
<1>8. QED BY <1>1, <1>2, <1>3, <1>5, <1>6, <1>7, PlacesKept

LEMMA RefuseClosedPlaces ==
  ASSUME TypeOK, TypeOK', PlaceInv, NEW r \in Requests, RefuseClosed(r)
  PROVE  PlaceInv'
<1>1. /\ UNCHANGED <<queue, log, jobs, running, stack>>
      /\ outcome[r] = "none" /\ outcome' = [outcome EXCEPT ![r] = "closed"]
  BY DEF RefuseClosed, MayCall
<1>2. ~Placed(r) /\ ~Granted(r) BY <1>1, PlacedPending
<1>3. Unmoved BY <1>1 DEF Unmoved
<1>4. ~Placed(r)'
  BY <1>1, <1>2 DEF Placed, Waits, Refused, Announced, IsJob
<1>5. \A q \in Requests : Waits(q)' => Waits(q) BY <1>1 DEF Waits
<1>6. \A i, j \in 1 .. Len(queue') : queue'[i].req = queue'[j].req => i = j
  BY <1>1 DEF PlaceInv, WaitInv
<1>7. "closed" \in Outcomes BY DEF Outcomes, Settled
<1>8. QED BY <1>1, <1>2, <1>3, <1>4, <1>5, <1>6, <1>7, AnswerPlaces

\* The activation that refuses a request leaves, and nobody else refuses it.
LEMMA RefuseWarnPlaces ==
  ASSUME TypeOK, TypeOK', PlaceInv, AfterRefuseWarn
  PROVE  /\ PlaceInv'
         /\ \E r \in Requests : /\ outcome[r] = "pending" /\ ~Waits(r) /\ ~Granted(r)
                                /\ outcome' = [outcome EXCEPT ![r] = "full"]
<1>1. /\ stack # <<>> /\ stack' = Front(stack) /\ top.at = "refuseWarn"
      /\ UNCHANGED <<queue, log, jobs, running>>
      /\ outcome' = Settle(top.caller, "full")
  BY DEF AfterRefuseWarn, At, top
<1>2. top.caller \in Requests
  <2>1. top \in Frames BY <1>1, FrontType DEF top, TypeOK
  <2>2. QED BY <1>1, <2>1 DEF Frames, ScheduleHooks
<1> PICK h \in Requests : h = top.caller BY <1>2
<1>3. /\ Len(stack) \in Nat \ {0} /\ Len(stack') = Len(stack) - 1
      /\ \A i \in 1 .. Len(stack) - 1 : stack'[i] = stack[i]
      /\ top = stack[Len(stack)]
  BY <1>1, FrontType, EmptySeq DEF TypeOK, top, Last
<1>4. Len(stack) \in 1 .. Len(stack) /\ Refuses(stack[Len(stack)], h)
  BY <1>1, <1>3 DEF Refuses
<1>5. /\ outcome[h] = "pending" /\ ~Waits(h) /\ ~Granted(h)
      /\ \A i \in 1 .. Len(stack) : Refuses(stack[i], h) => i = Len(stack)
  BY <1>4 DEF PlaceInv, RefuseInv
<1>6. Unmoved BY <1>1, PopUnmoved
<1>7. ~Refused(h)'
  <2>1. ASSUME NEW i \in 1 .. Len(stack'), Refuses(stack'[i], h) PROVE FALSE
    <3>1. i \in 1 .. Len(stack) - 1 /\ Refuses(stack[i], h) BY <1>3, <2>1
    <3>2. i \in 1 .. Len(stack) /\ i # Len(stack) BY <1>3, <3>1
    <3>3. QED BY <1>5, <3>1, <3>2
  <2>2. QED BY <2>1 DEF Refused
<1>8. ~Placed(h)'
  <2>1. ~(Announced(h) \/ IsJob(h) \/ h \in running) BY <1>5, PlacedPending
  <2>2. ~(Waits(h)' \/ Announced(h)' \/ IsJob(h)' \/ h \in running')
    BY <1>1, <1>5, <1>6, <2>1, UnmovedPlaces DEF Waits, IsJob
  <2>3. QED BY <1>7, <2>2 DEF Placed
<1>9. \A q \in Requests : Waits(q)' => Waits(q) BY <1>1 DEF Waits
<1>10. \A i, j \in 1 .. Len(queue') : queue'[i].req = queue'[j].req => i = j
  BY <1>1 DEF PlaceInv, WaitInv
<1>11. outcome' = [outcome EXCEPT ![h] = "full"] BY <1>1, <1>5 DEF Settle
<1>12. "full" \in Outcomes BY DEF Outcomes, Settled
<1>13. PlaceInv'
  BY <1>1, <1>5, <1>6, <1>8, <1>9, <1>10, <1>11, <1>12, AnswerPlaces
<1>14. QED BY <1>5, <1>11, <1>13

LEMMA ExpirePlaces ==
  ASSUME TypeOK, TypeOK', PlaceInv, DrainExpires
  PROVE  /\ PlaceInv'
         /\ outcome' = [outcome EXCEPT ![Head(queue).req] = "expired"]
<1>1. /\ stack # <<>> /\ stack' = Goto(Frame("expiredEmit", top.caller, None))
      /\ queue # <<>> /\ queue' = Shifted /\ UNCHANGED <<log, jobs, running>>
      /\ outcome' = Settle(Head(queue).req, "expired") /\ WaitInv
  BY DEF DrainExpires, At, PlaceInv
<1>2. Head(queue).req \in Requests BY <1>1, Shifts
<1> PICK h \in Requests : h = Head(queue).req BY <1>2
<1>3. /\ Waits(h)
      /\ \A q \in Requests : Waits(q)' <=> Waits(q) /\ q # h
      /\ \A i, j \in 1 .. Len(queue') : queue'[i].req = queue'[j].req => i = j
  BY <1>1, Shifts
<1>4. outcome[h] = "pending" /\ ~Granted(h) /\ ~Refused(h)
  BY <1>3, PlacedPending DEF Placed
<1>5. Unmoved
  <2>1. top \in Frames BY <1>1, FrontType DEF top, TypeOK
  <2>2. top.caller \in Requests \cup {None} BY <2>1 DEF Frames
  <2>3. /\ Frame("expiredEmit", top.caller, None) \in Frames
        /\ Frame("expiredEmit", top.caller, None).at = "expiredEmit"
    BY <2>2 DEF Frame, Frames
  <2>4. QED BY <1>1, <2>3, GotoUnmoved
<1>6. ~Placed(h)'
  <2>1. ~(Announced(h) \/ IsJob(h) \/ h \in running) BY <1>4, PlacedPending
  <2>2. ~(Refused(h)' \/ Announced(h)' \/ IsJob(h)' \/ h \in running')
    BY <1>1, <1>4, <1>5, <2>1, UnmovedPlaces DEF IsJob
  <2>3. QED BY <1>3, <2>2 DEF Placed
<1>7. outcome' = [outcome EXCEPT ![h] = "expired"] BY <1>1, <1>4 DEF Settle
<1>8. "expired" \in Outcomes BY DEF Outcomes, Settled
<1>9. PlaceInv' BY <1>1, <1>3, <1>4, <1>5, <1>6, <1>7, <1>8, AnswerPlaces
<1>10. QED BY <1>7, <1>9

LEMMA JobEndsPlaces ==
  ASSUME TypeOK, TypeOK', PlaceInv, NEW r \in Requests, JobEnds(r)
  PROVE  /\ PlaceInv'
         /\ outcome[r] = "pending" /\ Granted(r)
         /\ outcome' = [outcome EXCEPT ![r] = "resolved"]
<1>1. /\ UNCHANGED <<queue, log, jobs, stack>> /\ r \in running /\ running' = running \ {r}
      /\ outcome' = Settle(r, "resolved")
  BY DEF JobEnds
<1>2. outcome[r] = "pending" /\ Granted(r) /\ ~IsJob(r) /\ ~Announced(r)
  BY <1>1 DEF PlaceInv, RunInv, JobInv, AnnounceInv
<1>3. ~Waits(r) /\ ~Refused(r) BY <1>2, PlacedPending
<1>4. ~Placed(r)'
  BY <1>1, <1>2, <1>3 DEF Placed, Waits, Refused, IsJob, Announced
<1>5. Unmoved BY <1>1 DEF Unmoved
<1>6. \A q \in Requests : Waits(q)' => Waits(q) BY <1>1 DEF Waits
<1>7. \A i, j \in 1 .. Len(queue') : queue'[i].req = queue'[j].req => i = j
  BY <1>1 DEF PlaceInv, WaitInv
<1>8. outcome' = [outcome EXCEPT ![r] = "resolved"] BY <1>1, <1>2 DEF Settle
<1>9. "resolved" \in Outcomes BY DEF Outcomes, Settled
<1>10. PlaceInv' BY <1>1, <1>2, <1>4, <1>5, <1>6, <1>7, <1>8, <1>9, AnswerPlaces
<1>11. QED BY <1>2, <1>8, <1>10

\* The steps that only move activations about.
LEMMA MovesUnmoved ==
  ASSUME TypeOK,
         \/ AfterScheduleEmit \/ AfterScheduleWarn \/ AfterExpiredEmit \/ AfterCloseEmit
         \/ DrainDone \/ DrainWaits
  PROVE  Unmoved /\ UNCHANGED <<queue, log, jobs, running, outcome>>
<1>1. /\ stack # <<>>
      /\ UNCHANGED <<queue, log, jobs, running, outcome>>
      /\ \/ stack' = Front(stack)
         \/ /\ stack' = Goto(Frame("scheduleWarn", top.caller, None))
            /\ top.at = "scheduleEmit"
         \/ stack' = Goto(Frame("drain", top.caller, None))
  BY DEF AfterScheduleEmit, AfterScheduleWarn, AfterExpiredEmit, AfterCloseEmit,
         DrainDone, DrainWaits, ArmTimer, Process, At, top
<1>2. CASE stack' = Front(stack) BY <1>1, <1>2, PopUnmoved
<1>3. top \in Frames BY <1>1, FrontType DEF top, TypeOK
<1>4. CASE stack' = Goto(Frame("drain", top.caller, None))
  <2>1. top.caller \in Requests \cup {None} BY <1>3 DEF Frames
  <2>2. /\ Frame("drain", top.caller, None) \in Frames
        /\ Frame("drain", top.caller, None).at = "drain"
    BY <2>1 DEF Frame, Frames
  <2>3. QED BY <1>1, <1>4, <2>2, GotoUnmoved
<1>5. CASE /\ stack' = Goto(Frame("scheduleWarn", top.caller, None))
           /\ top.at = "scheduleEmit"
  <2>1. top.caller \in Requests BY <1>3, <1>5 DEF Frames
  <2>2. /\ Frame("scheduleWarn", top.caller, None) \in Frames
        /\ Frame("scheduleWarn", top.caller, None).at = "scheduleWarn"
    BY <2>1 DEF Frame, Frames, ScheduleHooks
  <2>3. QED BY <1>1, <1>5, <2>2, GotoUnmoved
<1>6. QED BY <1>1, <1>2, <1>4, <1>5

\* And those of the event loop that leave every request where it is.
LEMMA LoopUnmoved ==
  ASSUME TypeOK, TimerFires \/ Tick \/ ClockStepsBack \/ UNCHANGED vars
  PROVE  Unmoved /\ UNCHANGED <<queue, log, jobs, running, outcome>>
<1>1. CASE TimerFires
  <2>1. stack = <<>> /\ (stack' = stack \/ stack' = <<Frame("drain", None, None)>>)
    BY <1>1 DEF TimerFires, Idle
  <2>2. QED BY <1>1, <2>1 DEF TimerFires, Unmoved, Frame
<1>2. CASE Tick \/ ClockStepsBack \/ UNCHANGED vars
  BY <1>2 DEF Tick, ClockStepsBack, vars, Unmoved
<1>3. QED BY <1>1, <1>2

LEMMA InitPlaces == Init => PlaceInv
<1> SUFFICES ASSUME Init PROVE PlaceInv
  OBVIOUS
<1>1. Len(queue) = 0 /\ Len(log) = 0 /\ Len(stack) = 0 /\ Len(jobs) = 0 /\ running = {}
  BY EmptySeq DEF Init
<1>2. QED
  BY <1>1 DEF PlaceInv, WaitInv, GrantInv, RefuseInv, AnnounceInv, JobInv, RunInv,
              Waits, Granted, IsJob, Announced

LEMMA NextPlaces ==
  ASSUME ~HooksMayThrow, TypeOK, TypeOK', PlaceInv, [Next]_vars
  PROVE  PlaceInv'
<1>1. ASSUME NEW r \in Requests, Schedule(r) PROVE PlaceInv'
  BY <1>1, RefuseClosedPlaces, RefuseFullPlaces, EnqueuePlaces DEF Schedule
<1>2. CASE Close BY <1>2, ClosePlaces
<1>3. CASE HookReturns
  BY <1>3, MovesUnmoved, OnlyActivations, RefuseWarnPlaces, AdmittedEmitPlaces DEF HookReturns
<1>4. CASE Drain
  BY <1>4, MovesUnmoved, OnlyActivations, ExpirePlaces, AdmitPlaces DEF Drain
<1>5. CASE StartJob BY <1>5, StartJobPlaces
<1>6. ASSUME NEW r \in Requests, JobEnds(r) PROVE PlaceInv'
  BY <1>6, JobEndsPlaces
<1>7. CASE TimerFires \/ Tick \/ ClockStepsBack \/ UNCHANGED vars
  BY <1>7, LoopUnmoved, OnlyActivations
<1>8. QED
  BY <1>1, <1>2, <1>3, <1>4, <1>5, <1>6, <1>7 DEF Next, Run, HookThrows, Over

\* If callbacks do not throw, no request is admitted twice, and fn() is called
\* and runs only for a caller who still waits for its result: never for one
\* that close(), a full queue or the waiting time has already rejected.
THEOREM OnlyWantedWork ==
  ASSUME ~HooksMayThrow
  PROVE  Spec => []WorkIsWanted
<1>1. TypeOK /\ TypeOK' /\ PlaceInv /\ [Next]_vars => PlaceInv'
  BY NextPlaces
<1>2. TypeOK /\ PlaceInv => WorkIsWanted
  <2> SUFFICES ASSUME TypeOK, PlaceInv PROVE WorkIsWanted
    OBVIOUS
  <2>1. DOMAIN log = 1 .. Len(log) /\ DOMAIN jobs = 1 .. Len(jobs) BY DEF TypeOK
  <2>2. ASSUME NEW i \in 1 .. Len(jobs) PROVE jobs[i] \in Requests /\ IsJob(jobs[i])
    <3>1. jobs[i] \in Requests BY ElementOfSeq DEF TypeOK
    <3>2. QED BY <3>1 DEF IsJob
  <2>3. QED BY <2>1, <2>2 DEF PlaceInv, GrantInv, JobInv, RunInv, WorkIsWanted
<1>3. QED BY TypeCorrect, InitPlaces, <1>1, <1>2, PTL DEF Spec
(***************************************************************************)
(* The limiter implements AdmissionControl.  Its queue is the line and its *)
(* history the grants; that a slot is free when the code admits is what    *)
(* RateInv says of the timestamps, and that a caller is answered from the  *)
(* right place is PlaceInv.                                                *)
(***************************************************************************)
Line == [i \in DOMAIN queue |-> queue[i].req]
Admitted == [i \in DOMAIN log |-> [req |-> log[i].req, at |-> log[i].at]]

\* Both are sequences, as long as what they are read from.
LineOK ==
  /\ Line \in Seq(Requests) /\ Len(Line) = Len(queue) /\ DOMAIN Line = 1 .. Len(queue)
  /\ \A i \in 1 .. Len(queue) : Line[i] = queue[i].req
  /\ Admitted \in Seq([req : Requests, at : Nat]) /\ Len(Admitted) = Len(log)
  /\ DOMAIN Admitted = 1 .. Len(log)
  /\ \A i \in 1 .. Len(log) : Admitted[i] = [req |-> log[i].req, at |-> log[i].at]

LEMMA LineType == TypeOK => LineOK
<1> SUFFICES ASSUME TypeOK PROVE LineOK
  OBVIOUS
<1>1. /\ DOMAIN queue = 1 .. Len(queue) /\ Len(queue) \in Nat
      /\ DOMAIN log = 1 .. Len(log) /\ Len(log) \in Nat
  BY DEF TypeOK
<1>2. /\ \A i \in 1 .. Len(queue) : queue[i].req \in Requests
      /\ \A i \in 1 .. Len(log) : log[i].req \in Requests /\ log[i].at \in Nat
  <2>1. /\ \A i \in 1 .. Len(queue) : queue[i] \in [req : Requests, enqueuedAt : Int]
        /\ \A i \in 1 .. Len(log) : log[i] \in [req : Requests, at : Nat, wall : Int]
    BY ElementOfSeq DEF TypeOK
  <2>2. QED BY <2>1
<1>3. Line \in [1 .. Len(queue) -> Requests]
  BY <1>1, <1>2 DEF Line
<1>4. Admitted \in [1 .. Len(log) -> [req : Requests, at : Nat]]
  BY <1>1, <1>2 DEF Admitted
<1>5. Line \in Seq(Requests) /\ Admitted \in Seq([req : Requests, at : Nat])
  <2>1. \A S, n, f : n \in Nat /\ f \in [1 .. n -> S] => f \in Seq(S) BY SeqDef
  <2>2. QED BY <1>1, <1>3, <1>4, <2>1
<1>6. Len(Line) = Len(queue) /\ Len(Admitted) = Len(log)
  BY <1>1, <1>3, <1>4, <1>5
<1>7. QED BY <1>1, <1>3, <1>4, <1>5, <1>6 DEF Line, Admitted, LineOK
\* The line moves as the queue does, the grants as the history does.
LEMMA LineSteps ==
  ASSUME TypeOK, TypeOK'
  PROVE  /\ \A e \in [req : Requests, enqueuedAt : Int] :
              queue' = Append(queue, e) => Line' = Append(Line, e.req)
         /\ queue # <<>> /\ queue' = Shifted =>
              Line # <<>> /\ Head(Line) = Head(queue).req /\ Line' = Tail(Line)
         /\ queue' = <<>> => Line' = <<>>
         /\ \A e \in [req : Requests, at : Nat, wall : Int] :
              log' = Append(log, e) => Admitted' = Append(Admitted, [req |-> e.req, at |-> e.at])
<1>0. TypeOK /\ TypeOK' OBVIOUS
<1>1. LineOK /\ LineOK' BY <1>0, LineType, PTL
<1>2. /\ Len(queue) \in Nat /\ Len(log) \in Nat
      /\ Len(queue') \in Nat /\ Len(log') \in Nat
  BY LenProperties DEF TypeOK
<1>3. ASSUME NEW e \in [req : Requests, enqueuedAt : Int], queue' = Append(queue, e)
      PROVE  Line' = Append(Line, e.req)
  <2>1. /\ Len(queue') = Len(queue) + 1 /\ queue'[Len(queue) + 1] = e
        /\ \A i \in 1 .. Len(queue) : queue'[i] = queue[i]
    BY <1>0, <1>3, AppendProperties DEF TypeOK
  <2>2. /\ Append(Line, e.req) \in Seq(Requests)
        /\ Len(Append(Line, e.req)) = Len(queue) + 1
        /\ Append(Line, e.req)[Len(queue) + 1] = e.req
        /\ \A i \in 1 .. Len(queue) : Append(Line, e.req)[i] = Line[i]
    BY <1>1, <1>3, AppendProperties DEF LineOK
  <2>3. ASSUME NEW i \in 1 .. Len(Line') PROVE Line'[i] = Append(Line, e.req)[i]
    <3>1. i \in 1 .. Len(queue') /\ (i \in 1 .. Len(queue) \/ i = Len(queue) + 1)
      BY <1>1, <1>2, <2>1 DEF LineOK
    <3>2. Line'[i] = queue'[i].req BY <1>1, <3>1 DEF LineOK
    <3>3. i \in 1 .. Len(queue) => Line[i] = queue[i].req BY <1>1 DEF LineOK
    <3>4. QED BY <2>1, <2>2, <3>1, <3>2, <3>3
  <2>4. QED BY <1>1, <2>1, <2>2, <2>3, SeqEqual DEF LineOK
<1>4. ASSUME queue # <<>>, queue' = Shifted
      PROVE  Line # <<>> /\ Head(Line) = Head(queue).req /\ Line' = Tail(Line)
  <2>1. /\ Len(queue) \in Nat \ {0} /\ Len(queue') = Len(queue) - 1
        /\ \A i \in 1 .. Len(queue') : queue'[i] = queue[i + 1]
        /\ Head(queue) = queue[1]
    BY <1>0, <1>4, HeadTailProperties, EmptySeq DEF TypeOK, Shifted
  <2>2. Line # <<>> /\ Head(Line) = Line[1] /\ Line[1] = queue[1].req BY <1>1, <2>1 DEF LineOK
  <2>3. /\ Tail(Line) \in Seq(Requests) /\ Len(Tail(Line)) = Len(queue) - 1
        /\ \A i \in 1 .. Len(Tail(Line)) : Tail(Line)[i] = Line[i + 1]
    BY <1>1, <2>2, HeadTailProperties DEF LineOK
  <2>4. ASSUME NEW i \in 1 .. Len(Line') PROVE Line'[i] = Tail(Line)[i]
    <3>1. i \in 1 .. Len(queue') /\ i + 1 \in 1 .. Len(queue) /\ i \in 1 .. Len(Tail(Line))
      BY <1>1, <1>2, <2>1, <2>3 DEF LineOK
    <3>2. Line'[i] = queue'[i].req /\ Line[i + 1] = queue[i + 1].req
      BY <1>1, <3>1 DEF LineOK
    <3>3. QED BY <2>1, <2>3, <3>1, <3>2
  <2>5. Line' = Tail(Line) BY <1>1, <2>1, <2>3, <2>4, SeqEqual DEF LineOK
  <2>6. QED BY <2>1, <2>2, <2>5
<1>5. ASSUME queue' = <<>> PROVE Line' = <<>>
  BY <1>1, <1>5, EmptySeq DEF LineOK
<1>6. ASSUME NEW e \in [req : Requests, at : Nat, wall : Int], log' = Append(log, e)
      PROVE  Admitted' = Append(Admitted, [req |-> e.req, at |-> e.at])
  <2> DEFINE g == [req |-> e.req, at |-> e.at]
  <2>0. g \in [req : Requests, at : Nat] OBVIOUS
  <2>1. /\ Len(log') = Len(log) + 1 /\ log'[Len(log) + 1] = e
        /\ \A i \in 1 .. Len(log) : log'[i] = log[i]
    BY <1>0, <1>6, AppendProperties DEF TypeOK
  <2>2. /\ Append(Admitted, g) \in Seq([req : Requests, at : Nat])
        /\ Len(Append(Admitted, g)) = Len(log) + 1
        /\ Append(Admitted, g)[Len(log) + 1] = g
        /\ \A i \in 1 .. Len(log) : Append(Admitted, g)[i] = Admitted[i]
    BY <1>1, <2>0, AppendProperties DEF LineOK
  <2>3. ASSUME NEW i \in 1 .. Len(Admitted') PROVE Admitted'[i] = Append(Admitted, g)[i]
    <3>1. i \in 1 .. Len(log') /\ (i \in 1 .. Len(log) \/ i = Len(log) + 1)
      BY <1>1, <1>2, <2>1 DEF LineOK
    <3>2. Admitted'[i] = [req |-> log'[i].req, at |-> log'[i].at] BY <1>1, <3>1 DEF LineOK
    <3>3. i \in 1 .. Len(log) => Admitted[i] = [req |-> log[i].req, at |-> log[i].at]
      BY <1>1 DEF LineOK
    <3>4. QED BY <2>1, <2>2, <3>1, <3>2, <3>3
  <2>4. QED BY <1>1, <2>1, <2>2, <2>3, SeqEqual DEF LineOK
<1>7. QED BY <1>3, <1>4, <1>5, <1>6

\* When the code admits, the Cap admissions before it are not all recent.
LEMMA SlotIsFree ==
  ASSUME TypeOK, RateInv, NEW n \in 0 .. Len(timestamps), Trims(n), Delay(Live(n)) = 0
  PROVE  \/ Len(log) < Cap
         \/ log[Len(log) - Cap + 1].at + IntervalMs <= real
<1> DEFINE L == Len(log)
           K == Len(Live(n))
<1>1. L \in Nat /\ K \in Nat /\ Cap \in Nat \ {0}
  BY LiveType, LogType, LimiterAssumption DEF TypeOK, Cap
<1>2. Window(Live(n), log, real) BY TrimKeepsWindow
<1>3. K < Cap BY RoomUnderCap
<1>4. CASE L >= Cap
  <2>1. L - Cap + 1 \in 1 .. L - K BY <1>1, <1>3, <1>4
  <2>2. QED BY <1>2, <2>1 DEF Window
<1>5. QED BY <1>1, <1>4
\* A step that touches neither queue nor history nor answers is a stutter.
LEMMA Stutters ==
  ASSUME UNCHANGED <<queue, log, outcome, real, closed>>
  PROVE  UNCHANGED Admission!vars
BY DEF Admission!vars

LEMMA ScheduleRefines ==
  ASSUME TypeOK, TypeOK', NEW r \in Requests, Schedule(r)
  PROVE  Admission!Next
<1>1. CASE RefuseClosed(r)
  <2>1. Admission!TurnAway(r)
    BY <1>1 DEF RefuseClosed, MayCall, Accepts, Admission!TurnAway
  <2>2. QED BY <2>1 DEF Admission!Next
<1>2. CASE RefuseFull(r)
  <2>1. Admission!Call(r)
    BY <1>2 DEF RefuseFull, MayCall, Accepts, Admission!Call
  <2>2. QED BY <2>1 DEF Admission!Next
<1>3. CASE Enqueue(r)
  <2>1. Line' = Append(Line, r)
    <3>1. [req |-> r, enqueuedAt |-> now] \in [req : Requests, enqueuedAt : Int]
      BY DEF now, TypeOK
    <3>2. QED BY <1>3, <3>1, LineSteps DEF Enqueue, Enqueued
  <2>2. Admission!Call(r)
    BY <1>3, <2>1 DEF Enqueue, MayCall, Accepts, Admission!Call, Line
  <2>3. QED BY <2>2 DEF Admission!Next
<1>4. QED BY <1>1, <1>2, <1>3 DEF Schedule

LEMMA CloseRefines ==
  ASSUME TypeOK, TypeOK', PlaceInv, Close
  PROVE  Admission!Next
<1>1. Line' = <<>> BY LineSteps DEF Close
<1>2. DOMAIN queue = 1 .. Len(queue) BY DEF TypeOK
<1>3. outcome' = [r \in Requests |-> IF \E i \in DOMAIN Line : Line[i] = r
                                    THEN "closed" ELSE outcome[r]]
  <2>1. \A r \in Requests : (\E i \in DOMAIN queue : queue[i].req = r) => outcome[r] = "pending"
    BY <1>2 DEF PlaceInv, WaitInv, Waits
  <2>2. DOMAIN Line = DOMAIN queue /\ \A i \in DOMAIN queue : Line[i] = queue[i].req
    BY DEF Line
  <2>3. QED BY <2>1, <2>2 DEF Close, RejectQueued
<1>4. Admission!Shut BY <1>1, <1>3 DEF Close, Admission!Shut, Line
<1>5. QED BY <1>4 DEF Admission!Next

LEMMA RefuseWarnRefines ==
  ASSUME TypeOK, TypeOK', PlaceInv, AfterRefuseWarn
  PROVE  Admission!Next
<1>1. PICK r \in Requests : /\ outcome[r] = "pending" /\ ~Waits(r) /\ ~Granted(r)
                            /\ outcome' = [outcome EXCEPT ![r] = "full"]
  BY RefuseWarnPlaces
<1>2. DOMAIN queue = 1 .. Len(queue) /\ DOMAIN log = 1 .. Len(log) BY DEF TypeOK
<1>3. /\ \A i \in DOMAIN Line : Line[i] # r
      /\ \A i \in DOMAIN Admitted : Admitted[i].req # r
  BY <1>1, <1>2 DEF Line, Admitted, Waits, Granted
<1>4. UNCHANGED <<queue, log, real, closed>> BY DEF AfterRefuseWarn
<1>5. Admission!TurnAway(r)
  BY <1>1, <1>3, <1>4 DEF Admission!TurnAway, Line, Admitted
<1>6. QED BY <1>5 DEF Admission!Next

LEMMA ExpireRefines ==
  ASSUME TypeOK, TypeOK', PlaceInv, DrainExpires
  PROVE  Admission!Next
<1>1. /\ outcome' = [outcome EXCEPT ![Head(queue).req] = "expired"]
      /\ queue # <<>> /\ queue' = Shifted /\ UNCHANGED <<log, real, closed>>
  BY ExpirePlaces DEF DrainExpires
<1>2. Line # <<>> /\ Head(Line) = Head(queue).req /\ Line' = Tail(Line)
  BY <1>1, LineSteps
<1>3. Admission!Drop BY <1>1, <1>2 DEF Admission!Drop, Line
<1>4. QED BY <1>3 DEF Admission!Next

LEMMA AdmitRefines ==
  ASSUME TypeOK, TypeOK', PlaceInv, RateInv, DrainAdmits
  PROVE  Admission!Next
<1>1. /\ queue # <<>> /\ queue' = Shifted /\ UNCHANGED <<outcome, real, closed>>
      /\ log' = Append(log, [req |-> Head(queue).req, at |-> real, wall |-> now])
  BY DEF DrainAdmits
<1>2. Line # <<>> /\ Head(Line) = Head(queue).req /\ Line' = Tail(Line)
  BY <1>1, LineSteps
<1>3. Admitted' = Append(Admitted, [req |-> Head(Line), at |-> real])
  <2>1. Head(queue).req \in Requests BY <1>1, Shifts DEF PlaceInv
  <2>2. [req |-> Head(queue).req, at |-> real, wall |-> now]
          \in [req : Requests, at : Nat, wall : Int]
    BY <2>1 DEF now, TypeOK
  <2>3. Admitted' = Append(Admitted, [req |-> Head(queue).req, at |-> real])
    BY <1>1, <2>2, LineSteps
  <2>4. QED BY <1>2, <2>3
<1>4. \/ Len(Admitted) < Cap
      \/ Admitted[Len(Admitted) - Cap + 1].at + IntervalMs <= real
  <2>1. PICK n \in 0 .. Len(timestamps) : Trims(n) /\ Delay(Live(n)) = 0
    BY DEF DrainAdmits
  <2>2. \/ Len(log) < Cap
        \/ log[Len(log) - Cap + 1].at + IntervalMs <= real
    BY <2>1, SlotIsFree
  <2>3. Len(log) \in Nat /\ Cap \in Nat \ {0} BY LogType, LimiterAssumption DEF Cap
  <2>4. /\ Len(Admitted) = Len(log)
        /\ \A i \in 1 .. Len(log) : Admitted[i].at = log[i].at
    BY LineType DEF LineOK
  <2>5. Len(log) >= Cap => Len(log) - Cap + 1 \in 1 .. Len(log) BY <2>3
  <2>6. QED BY <2>2, <2>3, <2>4, <2>5
<1>5. Admission!Grant
  BY <1>1, <1>2, <1>3, <1>4 DEF Admission!Grant, Admission!SlotFree, Line, Admitted
<1>6. QED BY <1>5 DEF Admission!Next

LEMMA JobEndsRefines ==
  ASSUME TypeOK, TypeOK', PlaceInv, NEW r \in Requests, JobEnds(r)
  PROVE  Admission!Next
<1>1. /\ outcome[r] = "pending" /\ Granted(r)
      /\ outcome' = [outcome EXCEPT ![r] = "resolved"]
  BY JobEndsPlaces
<1>2. UNCHANGED <<queue, log, real, closed>> BY DEF JobEnds
<1>3. \E i \in DOMAIN Admitted : Admitted[i].req = r
  <2>1. DOMAIN log = 1 .. Len(log) BY DEF TypeOK
  <2>2. QED BY <1>1, <2>1 DEF Granted, Admitted
<1>4. Admission!Finish(r)
  BY <1>1, <1>2, <1>3 DEF Admission!Finish, Admitted
<1>5. QED BY <1>4 DEF Admission!Next

LEMMA StepRefines ==
  ASSUME ~HooksMayThrow, TypeOK, TypeOK', PlaceInv, RateInv, [Next]_vars
  PROVE  [Admission!Next]_Admission!vars
<1>1. ASSUME NEW r \in Requests, Schedule(r) PROVE Admission!Next
  BY <1>1, ScheduleRefines
<1>2. CASE Close BY <1>2, CloseRefines
<1>3. CASE AfterRefuseWarn BY <1>3, RefuseWarnRefines
<1>4. CASE \/ AfterScheduleEmit \/ AfterScheduleWarn \/ AfterExpiredEmit
           \/ AfterAdmittedEmit \/ AfterCloseEmit \/ DrainDone \/ DrainWaits
           \/ TimerFires \/ StartJob \/ ClockStepsBack \/ UNCHANGED vars
  <2>1. UNCHANGED <<queue, log, outcome, real, closed>>
    BY <1>4 DEF AfterScheduleEmit, AfterScheduleWarn, AfterExpiredEmit,
       AfterAdmittedEmit, AfterCloseEmit, DrainDone, DrainWaits, TimerFires, StartJob,
       ClockStepsBack, vars
  <2>2. QED BY <2>1, Stutters
<1>5. CASE DrainExpires BY <1>5, ExpireRefines
<1>6. CASE DrainAdmits BY <1>6, AdmitRefines
<1>7. ASSUME NEW r \in Requests, JobEnds(r) PROVE Admission!Next
  BY <1>7, JobEndsRefines
<1>8. CASE Tick
  <2>1. Admission!Advance BY <1>8 DEF Tick, Admission!Advance
  <2>2. QED BY <2>1 DEF Admission!Next
<1>9. QED
  BY <1>1, <1>2, <1>3, <1>4, <1>5, <1>6, <1>7, <1>8
  DEF Next, Run, HookReturns, Drain, HookThrows, Over

LEMMA InitRefines == Init => Admission!Init
<1> SUFFICES ASSUME Init PROVE Admission!Init
  OBVIOUS
<1>1. queue = <<>> /\ log = <<>> BY DEF Init
<1>2. Line = <<>> /\ Admitted = <<>>
  BY <1>1 DEF Line, Admitted
<1>3. QED BY <1>2 DEF Init, Admission!Init, Line, Admitted

\* If callbacks do not throw, whoever watches calls, answers, the line and the
\* admissions sees nothing that AdmissionControl does not allow: the head of
\* the line is granted a slot only when one is free, and every caller gets the
\* one answer that fits where the call was.
THEOREM ImplementsAdmissionControl ==
  ASSUME ~HooksMayThrow
  PROVE  Spec => AdmissionSpec
<1>1. TypeOK /\ TypeOK' /\ PlaceInv /\ [Next]_vars => PlaceInv'
  BY NextPlaces
<1>2. TypeOK /\ TypeOK' /\ PlaceInv /\ RateInv /\ [Next]_vars
        => [Admission!Next]_Admission!vars
  BY StepRefines
<1>3. QED
  BY TypeCorrect, InitPlaces, InitRate, NextRate, InitRefines, <1>1, <1>2, PTL
  DEF Spec, AdmissionSpec, Admission!Spec
=============================================================================
