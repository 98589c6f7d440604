------------------------ MODULE DelegationProperties ------------------------
(***************************************************************************)
(* What the delegated-task pipeline must get right.                        *)
(***************************************************************************)
EXTENDS Delegation

(* Safety, whatever the reviewers, the faults and the crashes do.           *)

\* A row says landed only if its work is in main, even when handlers for the
\* same task overlap and when expiry has taken the branch away under one.
LandedIsMerged == \A t \in Task : status[t] = "landed" => t \in main

\* Nothing reaches main that was not first put up for review: no work of a
\* task that is still running, or that failed after its commit.
MergedWasProposed ==
    \A t \in main : status[t] \in {"in_review", "landed", "rejected"}

\* Accepted, committed work is reachable from a ref the code knows about: its
\* branch, its rejected/ tag or main.  It is lost only with a task recorded as
\* failed, through the expiry of a task in review, or when tagging failed.
WorkSurvives ==
    \A t \in green :
        \/ ref[t] = "work" \/ tag[t] = "work" \/ t \in main
        \/ status[t] = "failed" \/ t \in expired \/ t \in untagged

\* What a route tells its client of the work is so at that moment, whoever
\* else is at work on the task: "landed" is in main, "preserved_as" names a
\* tag that holds the accepted commit.
ReportedWorkIsThere ==
    \A r \in Request :
        /\ req[r].said = "landed" => req[r].task \in main
        /\ req[r].said = "kept" => tag[req[r].task] = "work"

\* A row in state executing is the one the worker has in hand, or waits for
\* the recovery a restart begins with; so at most one runs.  A ledger that
\* failed to record the end of a task is the only exception.
ExecutingIsAttended ==
    faults = 0 =>
        \A t \in WithStatus("executing") :
            \/ wpc \in {"down", "recover"}
            \/ wpc \in {"recovering", "recoverClean"} /\ t \in sweep
            \/ wpc \notin {"dead", "poll", "next"} /\ t = cur

\* What a reviewer decides on is what passed the acceptance gate: no Scotty who
\* was left behind by his timeout is at work in a worktree that is being judged
\* or was put up for review, and the branch that approve would merge holds the
\* accepted commit, unless the sweep of aged worktrees came by.
ProposalStands ==
    /\ \A t \in scotty : status[t] \in {"executing", "failed"}
    /\ wpc \in {"gate", "commit", "propose"} => cur \notin scotty
    /\ faults = 0 => \A t \in WithStatus("in_review") \ expired : ref[t] = "work"

\* Past the pruning that ends every failed run, no more than Retention failed
\* worktrees are on disk, and the run that just failed still has its own.  The
\* directories that a Scotty who was left behind wrote anew are no worktrees.
PrunedToRetention ==
    wpc = "expire" /\ faults = 0 =>
        /\ Cardinality(WithStatus("failed") \cap rowWt \cap (dir \ bare)) <= Retention
        /\ Retention > 0 => cur \in dir

\* Work is live in main under a row that says rejected only if an approve and a
\* reject of that very task overlapped before either had written its decision,
\* or an approve merged it and died, or was refused, before it could say so.
\* Nothing else the worker, the sweeps, other handlers, faults or crashes do
\* brings it about.
RejectedLiveByRaceOnly ==
    \A t \in WithStatus("rejected") \cap main : t \in contested \cup unrecorded

\* The pipeline implements TaskLifecycle, with any number of handlers at work.
Lifecycle == INSTANCE TaskLifecycle
    WITH phase <- status, merged <- main, disputed <- contested
ImplementsLifecycle == Lifecycle!Spec

-----------------------------------------------------------------------------
(* What the code says of itself and does not keep.                           *)

\* A landed task, whose work is live in main, is not flipped to rejected.
RejectedIsNotMerged == \A t \in WithStatus("rejected") : t \notin main

-----------------------------------------------------------------------------
(* Liveness, under Fairness.                                                 *)

\* A dispatched task is picked up, unless the worker thread was lost to a
\* ledger it could not list.
DispatchedIsTaken ==
    \A t \in Task : status[t] = "dispatched" ~> status[t] # "dispatched" \/ wpc = "dead"

\* A run ends in a proposal or a failure, crashes of the process included,
\* unless the ledger would not take the record of it.
ExecutingEnds ==
    \A t \in Task : status[t] = "executing" ~> status[t] # "executing" \/ faults > 0
=============================================================================
