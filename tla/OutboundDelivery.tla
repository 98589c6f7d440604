--------------------------- MODULE OutboundDelivery ---------------------------
(***************************************************************************)
(* What the outbound queue promises of what an agent decides to say, with  *)
(* none of the passes, threads and databases that carry it out: it is      *)
(* shown at least once before it is marked delivered, given up only when   *)
(* it was never shown, and marked once, either way, for good.              *)
(***************************************************************************)
CONSTANT Intent

VARIABLES
    state,      \* [Intent -> none, pending, delivered, failed]
    shown       \* intents whose text is in a conversation

vars == <<state, shown>>

Init == state = [i \in Intent |-> "none"] /\ shown = {}

Settle(i, outcome) ==
    /\ state[i] = "pending"
    /\ state' = [state EXCEPT ![i] = outcome]
    /\ UNCHANGED shown

Ask(i) ==
    /\ state[i] = "none"
    /\ state' = [state EXCEPT ![i] = "pending"]
    /\ UNCHANGED shown

\* Again is possible: a repetition is no step.
Show(i) ==
    /\ state[i] = "pending"
    /\ shown' = shown \cup {i}
    /\ UNCHANGED state

Deliver(i) == i \in shown /\ Settle(i, "delivered")
GiveUp(i) == i \notin shown /\ Settle(i, "failed")

Next == \E i \in Intent : Ask(i) \/ Show(i) \/ Deliver(i) \/ GiveUp(i)

Spec == Init /\ [][Next]_vars
=============================================================================
