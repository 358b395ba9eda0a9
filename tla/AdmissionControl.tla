-------------------------- MODULE AdmissionControl --------------------------
(***************************************************************************)
(* What a rate limiter promises its callers, without saying how.           *)
(*                                                                         *)
(* Callers stand in one line.  The head of the line may be granted a slot  *)
(* whenever the last Cap grants do not all fall into the Interval that     *)
(* ends now, time being measured by a clock that only moves forward.  A    *)
(* caller is answered once: its work is done, or it is turned away at the  *)
(* door, dropped from the head of the line, or sent home when the place    *)
(* shuts.  Nothing is granted after that.                                  *)
(***************************************************************************)
EXTENDS Naturals, Sequences

CONSTANTS Requests,  \* the calls that can be made, each of them once
          Cap,       \* grants per Interval
          Interval

VARIABLES answer,    \* what each caller has been told
          line,      \* the callers that wait, in the order they came
          grants,    \* the grants made, oldest first: [req, at]
          clock,     \* monotonic time
          open

vars == <<answer, line, grants, clock, open>>

Answers == {"none", "pending", "resolved", "closed", "full", "expired"}

Init == /\ answer = [r \in Requests |-> "none"]
        /\ line = <<>>
        /\ grants = <<>>
        /\ clock = 0
        /\ open = TRUE

\* A caller comes and is not answered yet.
Call(r) == /\ answer[r] = "none"
           /\ answer' = [answer EXCEPT ![r] = "pending"]
           /\ line' \in IF open THEN {line, Append(line, r)} ELSE {line}
           /\ UNCHANGED <<grants, clock, open>>

\* A caller is turned away at the door.
TurnAway(r) == /\ \/ answer[r] = "none" /\ ~open /\ answer' = [answer EXCEPT ![r] = "closed"]
                  \/ /\ answer[r] = "pending"
                     /\ \A i \in DOMAIN line : line[i] # r
                     /\ \A i \in DOMAIN grants : grants[i].req # r
                     /\ answer' = [answer EXCEPT ![r] = "full"]
               /\ UNCHANGED <<line, grants, clock, open>>

SlotFree == \/ Len(grants) < Cap
            \/ grants[Len(grants) - Cap + 1].at + Interval <= clock

Grant == /\ line # <<>>
         /\ SlotFree
         /\ grants' = Append(grants, [req |-> Head(line), at |-> clock])
         /\ line' = Tail(line)
         /\ UNCHANGED <<answer, clock, open>>

\* The head of the line has waited too long.
Drop == /\ line # <<>>
        /\ answer' = [answer EXCEPT ![Head(line)] = "expired"]
        /\ line' = Tail(line)
        /\ UNCHANGED <<grants, clock, open>>

\* The granted work has ended.
Finish(r) == /\ answer[r] = "pending"
             /\ \E i \in DOMAIN grants : grants[i].req = r
             /\ answer' = [answer EXCEPT ![r] = "resolved"]
             /\ UNCHANGED <<line, grants, clock, open>>

Shut == /\ open' = FALSE
        /\ line' = <<>>
        /\ answer' = [r \in Requests |-> IF \E i \in DOMAIN line : line[i] = r
                                         THEN "closed" ELSE answer[r]]
        /\ UNCHANGED <<grants, clock>>

Advance == /\ clock' = clock + 1
           /\ UNCHANGED <<answer, line, grants, open>>

Next == \/ \E r \in Requests : Call(r) \/ TurnAway(r) \/ Finish(r)
        \/ Grant \/ Drop \/ Shut \/ Advance

Spec == Init /\ [][Next]_vars
=============================================================================
