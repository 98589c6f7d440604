------------------------- MODULE DelegationInvariant -------------------------
(***************************************************************************)
(* The inductive invariant behind the safety properties.  The properties   *)
(* are not inductive as they stand: that a landed row is in main depends   *)
(* on what a handler between its merge and its write knows, that a merged  *)
(* task was proposed on which rows a handler and a sweep can have in hand, *)
(* and that a merge brings the work in on the branches of reviewed tasks   *)
(* no longer being at their base.                                          *)
(***************************************************************************)
EXTENDS DelegationProperties

\* A row gets here only from executing, and never goes back.
Reviewed == {"in_review", "landed", "rejected"}

Running == {"make", "bind", "baseline", "vacuous", "scotty", "gate", "commit",
            "propose", "red", "raise"}

\* The worker's task is executing and nobody else's; what it still has to
\* visit is in the state it was listed for.
WorkerOwns ==
    /\ wpc \in Running => cur \in Task /\ status[cur] = "executing"
    /\ wpc = "propose" => ref[cur] = "work"
    /\ wpc = "recoverClean" => cur \in Task /\ status[cur] = "failed"
    /\ wpc = "expireClear" => cur \in Task
    /\ \A t \in queue : status[t] = "dispatched"
    /\ wpc \in {"recovering", "recoverClean"} => \A t \in sweep : status[t] = "executing"
    /\ wpc = "pruning" => \A t \in sweep : status[t] = "failed"
    /\ wpc \in {"expiring", "expireClear"} => \A t \in sweep : status[t] \in Reviewed

\* What a handler has done and said about its task so far still holds.
HandlerKnows ==
    \A r \in Request :
        /\ req[r].step # "idle" =>
             req[r].task \in Task /\ status[req[r].task] \in Reviewed
        /\ req[r].step \in {"landing", "recordLanded"} => req[r].task \in main
        /\ req[r].said = "landed" => req[r].task \in main
        /\ req[r].said = "kept" => req[r].task \in Task /\ tag[req[r].task] = "work"
        /\ req[r].step = "clean" =>
             \/ req[r].said \in {"landed", "kept"}
             \/ req[r].task \in untagged \/ ref[req[r].task] = "none"
        /\ faults = 0 /\ req[r].step \in {"preserve", "clean"} =>
             status[req[r].task] \in {"landed", "rejected"}

\* Once proposed, a branch holds the work or is gone.
ProposedIsCommitted == \A t \in Task : status[t] \in Reviewed => ref[t] # "base"

\* With every command through, a row is executing only in a worker's hands.
Attended ==
    faults = 0 =>
        \A t \in WithStatus("executing") :
            \/ wpc \in {"down", "recover"}
            \/ wpc \in {"recovering", "recoverClean"} /\ t \in sweep
            \/ wpc \in Running /\ t = cur

\* The rows are ordered by when they were last written.
Ordered ==
    /\ IsFiniteSet(Row) /\ newer \subseteq Row \X Row
    /\ \A t \in Row : <<t, t>> \notin newer
    /\ \A t, u, v \in Row : <<t, u>> \in newer /\ <<u, v>> \in newer => <<t, v>> \in newer
    /\ \A t, u \in Row : t = u \/ <<t, u>> \in newer \/ <<u, t>> \in newer

\* The directory of a run is there once it was made.
HasDirectory ==
    /\ wpc \in Running \ {"make", "raise"} => made
    /\ wpc \in Running /\ made => cur \in dir

\* The pruning after a run finds the task that just failed as the newest of the
\* failed ones, lists all but Retention of them, and removes what it lists.
Kept == WithStatus("failed") \cap rowWt \cap (dir \ bare)
Pruning ==
    /\ wpc = "prune" /\ faults = 0 =>
         /\ cur \in WithStatus("failed") \cap dir
         /\ \A t \in WithStatus("failed") : <<t, cur>> \notin newer
    /\ wpc \in {"pruning", "expire"} /\ faults = 0 =>
         /\ cur \in WithStatus("failed")
         /\ Retention > 0 => cur \in dir /\ cur \notin sweep
         /\ Cardinality(Kept \ sweep) <= Retention
         /\ wpc = "expire" => sweep = {}

IInv ==
    /\ TypeOK /\ WorkerOwns /\ HandlerKnows /\ ProposedIsCommitted /\ Attended
    /\ LandedIsMerged /\ MergedWasProposed /\ WorkSurvives /\ ProposalStands
    /\ Ordered /\ HasDirectory /\ Pruning

-----------------------------------------------------------------------------
(* The decisions on a task, as long as nobody contested it.                  *)

\* What a handler read at its start is still so, or another handler of the same
\* kind was faster; no handler of the other kind is about to decide.
DecidesUnopposed ==
    \A r \in Request : req[r].task \notin contested =>
        /\ req[r].step \in Approving => status[req[r].task] \in {"in_review", "landed"}
        /\ req[r].step \in Rejecting => status[req[r].task] \in {"in_review", "rejected"}
        /\ req[r].step \in Approving =>
             \A s \in Request : req[s].step \in Rejecting => req[s].task # req[r].task

\* Work in main is recorded as landed, or about to be.
MergedIsRecorded ==
    \A t \in main \ (contested \cup unrecorded) :
        \/ status[t] = "landed"
        \/ \E r \in Request :
             req[r].task = t /\ req[r].step \in {"landing", "recordLanded"}

DecisionInv == DecidesUnopposed /\ MergedIsRecorded
=============================================================================
