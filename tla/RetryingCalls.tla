---------------------------- MODULE RetryingCalls ----------------------------
(***************************************************************************)
(* What the HTTP client promises about the requests it puts on the wire.   *)
(*                                                                         *)
(* A call is sent at most MaxSends times, never twice at once, never again *)
(* once it is over, and not at all after the client has shut.  From the    *)
(* wire a call comes back either over or ready for another try.            *)
(***************************************************************************)
EXTENDS Naturals

CONSTANTS Calls, MaxSends

VARIABLES stage,   \* of each call: "idle", "ready", "out" (on the wire), "over"
          sent,    \* how often each call has been sent
          open

vars == <<stage, sent, open>>

Init == /\ stage = [c \in Calls |-> "idle"]
        /\ sent = [c \in Calls |-> 0]
        /\ open = TRUE

Moves(c, from, to) == /\ stage[c] = from
                      /\ stage' = [stage EXCEPT ![c] = to]

Begin(c) == Moves(c, "idle", "ready") /\ UNCHANGED <<sent, open>>

Send(c) == /\ open
           /\ sent[c] < MaxSends
           /\ Moves(c, "ready", "out")
           /\ sent' = [sent EXCEPT ![c] = @ + 1]
           /\ UNCHANGED open

ComeBack(c) == Moves(c, "out", "ready") /\ UNCHANGED <<sent, open>>

End(c) == /\ \E from \in {"idle", "ready", "out"} : Moves(c, from, "over")
          /\ UNCHANGED <<sent, open>>

Shut == open' = FALSE /\ UNCHANGED <<stage, sent>>

Next == Shut \/ \E c \in Calls : Begin(c) \/ Send(c) \/ ComeBack(c) \/ End(c)

Spec == Init /\ [][Next]_vars
=============================================================================
