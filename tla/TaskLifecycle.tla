---------------------------- MODULE TaskLifecycle ----------------------------
(***************************************************************************)
(* What the delegation system promises about a task, with none of the      *)
(* threads, connections and git commands that carry it out: a task is      *)
(* dispatched, run, and proposed or failed; only a proposal can reach      *)
(* main; nothing is recorded as landed before it is in main; failed is     *)
(* final, and so are landed and rejected, unless a proposal was approved   *)
(* and rejected at once.  Then the later of the two decisions stands in    *)
(* the ledger, and an approval brings the work into main all the same.     *)
(***************************************************************************)
CONSTANT Task

VARIABLES phase, merged, disputed

vars == <<phase, merged, disputed>>

Init == phase = [t \in Task |-> "none"] /\ merged = {} /\ disputed = {}

Move(t, from, to) ==
    /\ phase[t] \in from
    /\ phase' = [phase EXCEPT ![t] = to]
    /\ UNCHANGED <<merged, disputed>>

Dispatch(t) == Move(t, {"none"}, "dispatched")
Begin(t) == Move(t, {"dispatched"}, "executing")
Fail(t) == Move(t, {"dispatched", "executing"}, "failed")
Propose(t) == Move(t, {"executing"}, "in_review")
Reject(t) == Move(t, {"in_review"}, "rejected")
Land(t) == t \in merged /\ Move(t, {"in_review"}, "landed")

Merge(t) ==
    /\ phase[t] = "in_review" \/ (t \in disputed /\ phase[t] = "rejected")
    /\ merged' = merged \cup {t}
    /\ UNCHANGED <<phase, disputed>>

\* An approval and a rejection are under way together.
Dispute(t) ==
    /\ phase[t] = "in_review"
    /\ disputed' = disputed \cup {t}
    /\ UNCHANGED <<phase, merged>>

Overrule(t) ==
    /\ t \in disputed
    /\ \/ Move(t, {"landed"}, "rejected")
       \/ t \in merged /\ Move(t, {"rejected"}, "landed")

Next == \E t \in Task :
    \/ Dispatch(t) \/ Begin(t) \/ Fail(t) \/ Propose(t)
    \/ Reject(t) \/ Land(t) \/ Merge(t)
    \/ Dispute(t) \/ Overrule(t)

Spec == Init /\ [][Next]_vars
=============================================================================
