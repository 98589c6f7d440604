----------------------------- MODULE Delegation -----------------------------
(***************************************************************************)
(* Delegated coding tasks: the one delegation worker and its engine        *)
(* (platform/delegation/worker.py, engine.py, scotty_runner.py) and the    *)
(* human review gate (app/routes/delegation.py) over the shared ledger and *)
(* the shared repository.                                                  *)
(*                                                                         *)
(* All of it runs in one process: the worker is a daemon thread, and Flask *)
(* serves every request on a thread of its own (threaded=True), so any     *)
(* number of approve and reject handlers interleave with the worker and    *)
(* with each other.  A step of a thread is one ledger connection or one    *)
(* git command under the lock.  A crash takes all threads at once; the     *)
(* ledger and the repository stay.                                         *)
(***************************************************************************)
EXTENDS DelegationStore

CONSTANTS
    Request,        \* slots for HTTP requests served at the same time
    NoTask,         \* not a task
    Retention,      \* FAILED_WORKTREE_RETENTION
    MaxFaults,      \* bound: ledger and git commands that fail, in all
    MaxCrashes      \* bound: crashes of the process

ASSUME NoTaskAssumption == NoTask \notin Task
ASSUME BoundsAssumption ==
    Retention \in Nat /\ MaxFaults \in Nat /\ MaxCrashes \in Nat

VARIABLES
    dir, bare, ref, tag, main,  \* the repository, see GitRepo
    wpc,        \* where the worker thread is
    cur,        \* the task it has in hand, NoTask between tasks
    made,       \* execute_task's local wt_path is set
    queue,      \* the rows of _drain's snapshot still to run
    sweep,      \* the rows of a recovery, prune or expiry listing still to visit
    scotty,     \* tasks whose Scotty thread is alive
    req,        \* [Request -> the handler in that slot]
    green,      \* history: work committed after a red baseline and a green gate
    expired,    \* history: tasks whose worktree was expired while in review
    untagged,   \* history: tasks whose branch could not be tagged
    contested,  \* history: tasks under an approve and a reject at once, see Open
    unrecorded, \* history: tasks merged by an approve that could not say so
    faults, crashes

repoVars == <<dir, bare, ref, tag, main>>
workerVars == <<wpc, cur, made, queue, sweep, scotty>>
historyVars == <<green, expired, untagged, contested, unrecorded>>
vars == <<ledgerVars, repoVars, workerVars, req, historyVars, faults, crashes>>

Git == INSTANCE GitRepo

WorkerPC == {"down", "dead", "recover", "recovering", "recoverClean", "poll",
             "next", "make", "bind", "baseline", "vacuous", "scotty", "gate",
             "commit", "propose", "red", "raise", "prune", "pruning", "expire",
             "expiring", "expireClear"}
Idle == [kind |-> "none", task |-> NoTask, step |-> "idle", named |-> FALSE,
         said |-> "none"]
RequestRecord ==
    [kind : {"none", "approve", "reject"}, task : Task \cup {NoTask},
     step : {"idle", "merge", "landing", "recordLanded", "review", "rejecting",
             "recordRejected", "preserve", "clean", "answered"},
     named : BOOLEAN,
     said : {"none", "conflict", "unknown", "landed", "kept", "lost"}]

Init ==
    /\ LedgerInit /\ Git!GitInit
    /\ wpc = "recover" /\ cur = NoTask /\ made = FALSE
    /\ queue = {} /\ sweep = {} /\ scotty = {}
    /\ req = [r \in Request |-> Idle]
    /\ green = {} /\ expired = {} /\ untagged = {}
    /\ contested = {} /\ unrecorded = {}
    /\ faults = 0 /\ crashes = 0

Up == wpc # "down"

\* A command goes through, or it is one of the bounded number that fail.
Fine == UNCHANGED faults
Fault == faults < MaxFaults /\ faults' = faults + 1

\* remove_worktree as its callers see it: it never raises.
RemoveWorktree(t, named) ==
    \E dirGone, branchGone \in BOOLEAN :
        /\ Git!RemoveWorktree(t, named, dirGone, branchGone)
        /\ IF dirGone /\ branchGone THEN Fine ELSE Fault

-----------------------------------------------------------------------------
(* The worker thread.  At(here, there) moves it; every action says what else *)
(* it leaves alone.                                                          *)

At(here, there) == wpc = here /\ wpc' = there
Elsewhere == UNCHANGED <<req, crashes>>
NoHistory == UNCHANGED historyVars

\* Mistakes: no recovery at all; recovery of rows that name a worktree only.
RecoverNothing ==
    /\ At("recover", "recovering") /\ sweep' = {}
    /\ UNCHANGED <<ledgerVars, repoVars, cur, made, queue, scotty, faults>>
    /\ Elsewhere /\ NoHistory
RecoverBoundOnly ==
    /\ wpc = "recovering"
    /\ \E t \in Newest(sweep) :
        /\ sweep' = sweep \ {t}
        /\ IF t \in rowWt
           THEN SetStatus(t, "failed") /\ wpc' = "recoverClean" /\ cur' = t
           ELSE UNCHANGED <<ledgerVars, wpc, cur>>
    /\ UNCHANGED <<repoVars, made, queue, scotty, faults>> /\ Elsewhere /\ NoHistory

\* _recover_stale_executing: the listing; a failure to list recovers nothing.
RecoverList ==
    /\ At("recover", "recovering")
    /\ \/ Fine /\ sweep' = WithStatus("executing")
       \/ Fault /\ sweep' = {}
    /\ UNCHANGED <<ledgerVars, repoVars, cur, made, queue, scotty>>
    /\ Elsewhere /\ NoHistory

\* One row of it: set_status(failed), and on to its worktree when the row
\* names one; a row that cannot be written is skipped.
RecoverOne ==
    /\ wpc = "recovering"
    /\ \E t \in Newest(sweep) :
        /\ sweep' = sweep \ {t}
        /\ \/ Fine /\ SetStatus(t, "failed")
              /\ IF t \in rowWt THEN wpc' = "recoverClean" /\ cur' = t
                                ELSE UNCHANGED <<wpc, cur>>
           \/ Fault /\ UNCHANGED <<ledgerVars, wpc, cur>>
    /\ UNCHANGED <<repoVars, made, queue, scotty>> /\ Elsewhere /\ NoHistory

RecoverClean ==
    /\ At("recoverClean", "recovering")
    /\ RemoveWorktree(cur, TRUE)
    /\ cur' = NoTask
    /\ UNCHANGED <<ledgerVars, made, queue, sweep, scotty>>
    /\ Elsewhere /\ NoHistory

RecoverDone ==
    /\ At("recovering", "poll") /\ sweep = {}
    /\ UNCHANGED <<ledgerVars, repoVars, cur, made, queue, sweep, scotty, faults>>
    /\ Elsewhere /\ NoHistory

\* _drain lists the dispatched rows.  Nothing above it catches an exception:
\* if the listing raises, the thread is gone until the process restarts.
Drain ==
    /\ wpc = "poll"
    /\ \/ /\ Fine /\ WithStatus("dispatched") # {}
          /\ queue' = WithStatus("dispatched") /\ wpc' = "next"
       \/ Fault /\ wpc' = "dead" /\ UNCHANGED queue
    /\ UNCHANGED <<ledgerVars, repoVars, cur, made, sweep, scotty>>
    /\ Elsewhere /\ NoHistory

\* The mistake of leaving the loop after one pass (_run_once_and_stop).
DrainOnce ==
    /\ At("next", "returned") /\ queue = {}
    /\ UNCHANGED <<ledgerVars, repoVars, cur, made, queue, sweep, scotty, faults>>
    /\ Elsewhere /\ NoHistory

DrainDone ==
    /\ At("next", "poll") /\ queue = {}
    /\ UNCHANGED <<ledgerVars, repoVars, cur, made, queue, sweep, scotty, faults>>
    /\ Elsewhere /\ NoHistory

\* execute_task, phase 1: set_status(executing); if that raises, the task is
\* failed instead, and if that raises too it stays dispatched.
Begin ==
    /\ wpc = "next"
    /\ \E t \in Newest(queue) :
        /\ queue' = queue \ {t}
        /\ \/ /\ Fine /\ SetStatus(t, "executing")
              /\ wpc' = "make" /\ cur' = t
           \/ Fault /\ SetStatus(t, "failed") /\ UNCHANGED <<wpc, cur>>
           \/ Fault /\ UNCHANGED <<ledgerVars, wpc, cur>>
    /\ made' = FALSE
    /\ UNCHANGED <<repoVars, sweep, scotty>> /\ Elsewhere /\ NoHistory

\* Phase 2: create_worktree, then set_execution.
MakeWorktree ==
    /\ wpc = "make"
    /\ \/ Fine /\ Git!CreateWorktree(cur) /\ made' = TRUE /\ wpc' = "bind"
       \/ Fault /\ UNCHANGED <<repoVars, made>> /\ wpc' = "raise"
    /\ UNCHANGED <<ledgerVars, cur, queue, sweep, scotty>>
    /\ Elsewhere /\ NoHistory

RecordExecution ==
    /\ wpc = "bind"
    /\ \/ Fine /\ SetExecution(cur) /\ wpc' = "baseline"
       \/ Fault /\ UNCHANGED ledgerVars /\ wpc' = "raise"
    /\ UNCHANGED <<repoVars, cur, made, queue, sweep, scotty>>
    /\ Elsewhere /\ NoHistory

\* Phase 2b: re-read the row, then the acceptance command on the untouched
\* worktree.
Baseline(passed) ==
    /\ wpc = "baseline"
    /\ \/ Fine /\ passed /\ wpc' = "vacuous" /\ UNCHANGED scotty
       \/ Fine /\ ~ passed /\ wpc' = "scotty" /\ scotty' = scotty \cup {cur}
       \/ Fault /\ wpc' = "raise" /\ UNCHANGED scotty
    /\ UNCHANGED <<ledgerVars, repoVars, cur, made, queue, sweep>>
    /\ Elsewhere /\ NoHistory

\* set_result, then set_status(s): both touch the row of a task that only the
\* worker writes, and either may raise.
Settle(here, s, there) ==
    /\ wpc = here
    /\ \/ Fine /\ SetStatus(cur, s) /\ wpc' = there
       \/ Fault /\ (SetText(cur) \/ UNCHANGED ledgerVars) /\ wpc' = "raise"
    /\ UNCHANGED <<repoVars, cur, made, queue, sweep, scotty>>
    /\ Elsewhere /\ NoHistory

FailVacuous == Settle("vacuous", "failed", "prune")
FailRed == Settle("red", "failed", "prune")

\* The mistake of returning a summary on timeout, as the docstring of
\* scotty_run has it, instead of raising.
ScottyTimesOutQuietly ==
    /\ At("scotty", "gate")
    /\ UNCHANGED <<ledgerVars, repoVars, cur, made, queue, sweep, scotty, faults>>
    /\ Elsewhere /\ NoHistory

\* Phase 3: Scotty returns or raises, or his 30 minutes are over and the
\* thread is left behind.
ScottyReturns(raised) ==
    /\ At("scotty", IF raised THEN "raise" ELSE "gate")
    /\ scotty' = scotty \ {cur}
    /\ UNCHANGED <<ledgerVars, repoVars, cur, made, queue, sweep, faults>>
    /\ Elsewhere /\ NoHistory

ScottyTimesOut ==
    /\ At("scotty", "raise")
    /\ UNCHANGED <<ledgerVars, repoVars, cur, made, queue, sweep, scotty, faults>>
    /\ Elsewhere /\ NoHistory

\* A thread left behind works on, and its tools still write below the path of
\* the worktree, whether or not it is there any more; then it comes to its end.
Stray(t) == t \in scotty /\ ~ (wpc = "scotty" /\ cur = t)

StrayWrites(t) ==
    /\ Stray(t) /\ Git!WriteAnew(t)
    /\ UNCHANGED <<ledgerVars, wpc, cur, made, queue, sweep, scotty, faults>>
    /\ Elsewhere /\ NoHistory

StrayEnds(t) ==
    /\ Stray(t)
    /\ scotty' = scotty \ {t}
    /\ UNCHANGED <<ledgerVars, repoVars, wpc, cur, made, queue, sweep, faults>>
    /\ Elsewhere /\ NoHistory

\* Phases 4 and 5: the acceptance gate, then the diff, which may raise.
Gate(passed) ==
    /\ wpc = "gate"
    /\ \/ Fine /\ wpc' = IF passed THEN "commit" ELSE "red"
       \/ Fault /\ wpc' = "raise"
    /\ UNCHANGED <<ledgerVars, repoVars, cur, made, queue, sweep, scotty>>
    /\ Elsewhere /\ NoHistory

\* Phase 6: the commit on the task branch; it raises when Scotty changed
\* nothing, or a hook refuses.
CommitWork ==
    /\ wpc = "commit"
    /\ \/ /\ Git!Commit(cur) /\ wpc' = "propose"
          /\ green' = green \cup {cur}
       \/ UNCHANGED <<repoVars, green>> /\ wpc' = "raise"
    /\ UNCHANGED <<ledgerVars, cur, made, queue, sweep, scotty, faults>>
    /\ UNCHANGED <<expired, untagged, contested, unrecorded>> /\ Elsewhere

Propose ==
    /\ wpc = "propose"
    /\ \/ Fine /\ SetStatus(cur, "in_review") /\ wpc' = "next" /\ cur' = NoTask
       \/ Fault /\ (SetText(cur) \/ UNCHANGED ledgerVars) /\ wpc' = "raise"
          /\ UNCHANGED cur
    /\ UNCHANGED <<repoVars, made, queue, sweep, scotty>>
    /\ Elsewhere /\ NoHistory

\* The exception guard: record what there is, fail the task, and tidy up only
\* when a worktree was made.  A row that cannot be failed stays executing.
Rescue ==
    /\ wpc = "raise"
    /\ \/ Fine /\ SetStatus(cur, "failed")
       \/ Fault /\ (SetText(cur) \/ UNCHANGED ledgerVars)
    /\ IF made THEN wpc' = "prune" /\ UNCHANGED cur
               ELSE wpc' = "next" /\ cur' = NoTask
    /\ UNCHANGED <<repoVars, made, queue, sweep, scotty>>
    /\ Elsewhere /\ NoHistory

\* _prune_failed_worktrees: the failed rows past the newest Retention that
\* name a worktree; each is removed if the directory is still there.
PruneList ==
    /\ At("prune", "pruning")
    /\ \/ Fine /\ sweep' = Beyond(WithStatus("failed"), Retention) \cap rowWt
       \/ Fault /\ sweep' = {}
    /\ UNCHANGED <<ledgerVars, repoVars, cur, made, queue, scotty>>
    /\ Elsewhere /\ NoHistory

PruneOne ==
    /\ wpc = "pruning"
    /\ \E t \in Newest(sweep) :
        /\ sweep' = sweep \ {t}
        /\ IF t \in dir THEN RemoveWorktree(t, TRUE)
                        ELSE UNCHANGED repoVars /\ Fine
    /\ UNCHANGED <<ledgerVars, wpc, cur, made, queue, scotty>>
    /\ Elsewhere /\ NoHistory

PruneDone ==
    /\ At("pruning", "expire") /\ sweep = {}
    /\ UNCHANGED <<ledgerVars, repoVars, cur, made, queue, sweep, scotty, faults>>
    /\ Elsewhere /\ NoHistory

\* _expire_in_review_worktrees: the rows that were in review and past the age
\* when they were listed; by the time one is visited a reviewer may have
\* decided it or touched it, so they are visited in any order.  The directory
\* goes first, the row's path after it.
ExpireList ==
    /\ At("expire", "expiring")
    /\ \/ Fine /\ sweep' = WithStatus("in_review") \cap rowWt \cap aged
       \/ Fault /\ sweep' = {}
    /\ cur' = NoTask
    /\ UNCHANGED <<ledgerVars, repoVars, made, queue, scotty>>
    /\ Elsewhere /\ NoHistory

ExpireOne ==
    /\ wpc = "expiring"
    /\ \E t \in sweep :
        /\ sweep' = sweep \ {t}
        /\ IF t \in dir
           THEN /\ RemoveWorktree(t, TRUE)
                /\ wpc' = "expireClear" /\ cur' = t
                /\ expired' = expired \cup {t}
           ELSE UNCHANGED <<repoVars, wpc, cur, expired>> /\ Fine
    /\ UNCHANGED <<ledgerVars, made, queue, scotty, green, untagged>>
    /\ UNCHANGED <<contested, unrecorded>> /\ Elsewhere

ExpireClear ==
    /\ At("expireClear", "expiring")
    /\ \/ Fine /\ ClearWorktree(cur)
       \/ Fault /\ UNCHANGED ledgerVars
    /\ cur' = NoTask
    /\ UNCHANGED <<repoVars, made, queue, sweep, scotty>> /\ Elsewhere /\ NoHistory

ExpireDone ==
    /\ At("expiring", "next") /\ sweep = {}
    /\ UNCHANGED <<ledgerVars, repoVars, cur, made, queue, sweep, scotty, faults>>
    /\ Elsewhere /\ NoHistory

Worker ==
    \/ RecoverList \/ RecoverOne \/ RecoverClean \/ RecoverDone
    \/ Drain \/ DrainDone \/ Begin \/ MakeWorktree \/ RecordExecution
    \/ \E passed \in BOOLEAN : Baseline(passed) \/ Gate(passed)
    \/ \E raised \in BOOLEAN : ScottyReturns(raised)
    \/ ScottyTimesOut \/ FailVacuous \/ FailRed \/ CommitWork \/ Propose \/ Rescue
    \/ PruneList \/ PruneOne \/ PruneDone
    \/ ExpireList \/ ExpireOne \/ ExpireClear \/ ExpireDone

-----------------------------------------------------------------------------
(* The review gate: one handler per request slot, one step at a time.        *)

\* Where a handler has not made its decision known yet.
Approving == {"merge", "landing", "recordLanded"}
Rejecting == {"review", "rejecting", "recordRejected"}

Serve(r, here) == Up /\ req[r].step = here
Goto(r, there) == req' = [req EXCEPT ![r].step = there]
Answer(r, what) == req' = [req EXCEPT ![r].step = "answered", ![r].said = what]
WorkerAside == UNCHANGED <<workerVars, crashes>>

\* The mistake of letting a reviewer at a task that is still running.
OpenEarly(r, kind, t) ==
    /\ Serve(r, "idle") /\ status[t] \in {"in_review", "executing"}
    /\ req' = [req EXCEPT ![r] =
         [kind |-> kind, task |-> t, named |-> t \in rowWt, said |-> "none",
          step |-> IF kind = "approve" THEN "merge" ELSE "review"]]
    /\ UNCHANGED <<ledgerVars, repoVars, faults>> /\ WorkerAside /\ NoHistory

\* Both routes read the row first and refuse, changing nothing, a task that
\* is not in review; path and branch are those of that reading from here on.
\* contested: the tasks that a handler of the other kind had not decided yet.
Open(r, kind, t) ==
    /\ Serve(r, "idle") /\ status[t] = "in_review"
    /\ req' = [req EXCEPT ![r] =
         [kind |-> kind, task |-> t, named |-> t \in rowWt, said |-> "none",
          step |-> IF kind = "approve" THEN "merge" ELSE "review"]]
    /\ contested' =
         IF \E s \in Request :
              /\ req[s].task = t
              /\ req[s].step \in IF kind = "approve" THEN Rejecting ELSE Approving
         THEN contested \cup {t} ELSE contested
    /\ UNCHANGED <<ledgerVars, repoVars, faults>> /\ WorkerAside
    /\ UNCHANGED <<green, expired, untagged, unrecorded>>

\* The mistake of ignoring merge_fn's ok.
ApproveAnyMerge(r) ==
    /\ Serve(r, "merge") /\ Goto(r, "landing")
    /\ Git!Merge(req[r].task) \/ UNCHANGED repoVars
    /\ UNCHANGED <<ledgerVars, faults>> /\ WorkerAside /\ NoHistory

\* Approve: the merge; a conflict, a missing branch or a repository that is
\* not on main ends the request and changes nothing.
ApproveMerge(r) ==
    /\ Serve(r, "merge")
    /\ \/ Git!Merge(req[r].task) /\ Goto(r, "landing")
       \/ UNCHANGED repoVars /\ Answer(r, "conflict")
    /\ UNCHANGED <<ledgerVars, faults>> /\ WorkerAside /\ NoHistory

\* set_status(landed), read and check; the exception is answered "unknown".
ApproveCheck(r) ==
    /\ Serve(r, "landing")
    /\ IF CanTransition(req[r].task, "landed")
       THEN Goto(r, "recordLanded")
       ELSE Answer(r, "unknown")
    /\ UNCHANGED <<ledgerVars, repoVars, faults>> /\ WorkerAside /\ NoHistory

\* The mistake of answering without the write.
ApproveUnrecorded(r) ==
    /\ Serve(r, "recordLanded")
    /\ req' = [req EXCEPT ![r].step = "clean", ![r].said = "landed"]
    /\ UNCHANGED <<ledgerVars, repoVars, faults>> /\ WorkerAside /\ NoHistory

\* set_status(landed), write.
ApproveRecord(r) ==
    /\ Serve(r, "recordLanded")
    /\ \/ /\ Fine /\ WriteStatus(req[r].task, "landed")
          /\ req' = [req EXCEPT ![r].step = "clean", ![r].said = "landed"]
          /\ UNCHANGED unrecorded
       \/ /\ Fault /\ UNCHANGED ledgerVars /\ Answer(r, "unknown")
          /\ unrecorded' = unrecorded \cup {req[r].task}
    /\ UNCHANGED <<repoVars, green, expired, untagged, contested>> /\ WorkerAside

\* Reject: the feedback, best-effort.
RejectReview(r) ==
    /\ Serve(r, "review")
    /\ \/ Fine /\ SetText(req[r].task)
       \/ Fault /\ UNCHANGED ledgerVars
    /\ Goto(r, "rejecting")
    /\ UNCHANGED repoVars /\ WorkerAside /\ NoHistory

\* set_status(rejected), read and check, then write; either exception is
\* swallowed and the handler goes on.
RejectCheck(r) ==
    /\ Serve(r, "rejecting")
    /\ Goto(r, IF CanTransition(req[r].task, "rejected")
               THEN "recordRejected" ELSE "preserve")
    /\ UNCHANGED <<ledgerVars, repoVars, faults>> /\ WorkerAside /\ NoHistory

RejectRecord(r) ==
    /\ Serve(r, "recordRejected")
    /\ \/ Fine /\ WriteStatus(req[r].task, "rejected")
       \/ Fault /\ UNCHANGED ledgerVars
    /\ Goto(r, "preserve")
    /\ UNCHANGED repoVars /\ WorkerAside /\ NoHistory

\* preserve_branch before anything is removed; None when the branch is gone
\* or git fails, and the answer will carry the warning.
RejectPreserve(r) ==
    /\ Serve(r, "preserve")
    /\ \/ /\ Fine /\ Git!PreserveBranch(req[r].task)
          /\ req' = [req EXCEPT ![r].step = "clean", ![r].said = "kept"]
          /\ UNCHANGED untagged
       \/ /\ IF ref[req[r].task] = "none"
             THEN Fine /\ UNCHANGED untagged
             ELSE Fault /\ untagged' = untagged \cup {req[r].task}
          /\ UNCHANGED repoVars
          /\ req' = [req EXCEPT ![r].step = "clean", ![r].said = "lost"]
    /\ UNCHANGED <<ledgerVars, green, expired, contested, unrecorded>> /\ WorkerAside

\* Both routes end with remove_worktree, best-effort, and answer.
Clean(r) ==
    /\ Serve(r, "clean")
    /\ RemoveWorktree(req[r].task, req[r].named)
    /\ Goto(r, "answered")
    /\ UNCHANGED ledgerVars /\ WorkerAside /\ NoHistory

\* The client has its answer.
Close(r) ==
    /\ req[r].step = "answered"
    /\ req' = [req EXCEPT ![r] = Idle]
    /\ UNCHANGED <<ledgerVars, repoVars, faults>> /\ WorkerAside /\ NoHistory

Handler(r) ==
    \/ ApproveMerge(r) \/ ApproveCheck(r) \/ ApproveRecord(r)
    \/ RejectReview(r) \/ RejectCheck(r) \/ RejectRecord(r) \/ RejectPreserve(r)
    \/ Clean(r) \/ Close(r)

-----------------------------------------------------------------------------
(* The rest of the house.                                                    *)

\* A task is dispatched; whether it should be is Dispatch's question.
DispatchTask(t) ==
    /\ Up /\ CreateTask(t, "dispatched")
    /\ UNCHANGED <<repoVars, workerVars, req, historyVars, faults, crashes>>

\* Only the age of a row in review is ever read.
Wait(t) ==
    /\ status[t] = "in_review" /\ Age(t)
    /\ UNCHANGED <<repoVars, workerVars, req, historyVars, faults, crashes>>

\* The process dies with all its threads, in the middle of anything.
Crash ==
    /\ Up /\ crashes < MaxCrashes
    /\ crashes' = crashes + 1
    /\ wpc' = "down" /\ cur' = NoTask /\ made' = FALSE
    /\ queue' = {} /\ sweep' = {} /\ scotty' = {}
    /\ req' = [r \in Request |-> Idle]
    /\ unrecorded' = unrecorded \cup
         {req[r].task : r \in {s \in Request : req[s].step \in {"landing", "recordLanded"}}}
    /\ UNCHANGED <<ledgerVars, repoVars, green, expired, untagged, contested, faults>>

Restart ==
    /\ At("down", "recover")
    /\ UNCHANGED <<ledgerVars, repoVars, cur, made, queue, sweep, scotty, faults>>
    /\ Elsewhere /\ NoHistory

Next ==
    \/ Worker
    \/ \E t \in Task : StrayWrites(t) \/ StrayEnds(t) \/ DispatchTask(t) \/ Wait(t)
    \/ \E r \in Request : Handler(r)
    \/ \E r \in Request, k \in {"approve", "reject"}, t \in Task : Open(r, k, t)
    \/ Crash \/ Restart

Spec == Init /\ [][Next]_vars

\* The worker thread is scheduled, Scotty's turn is bounded by a join with a
\* timeout and the acceptance command by its own; systemd restarts the unit.
\* Handlers owe their clients an answer; clients owe nothing.  Nothing has to
\* fail: an idle worker may poll an empty ledger for ever.
Fairness ==
    /\ WF_vars(Worker /\ Fine) /\ WF_vars(Restart)
    /\ \A r \in Request : WF_vars(Handler(r) /\ Fine)

FairSpec == Spec /\ Fairness

-----------------------------------------------------------------------------
WorkerTypeOK ==
    /\ wpc \in WorkerPC /\ cur \in Task \cup {NoTask} /\ made \in BOOLEAN
    /\ queue \subseteq Task /\ sweep \subseteq Task /\ scotty \subseteq Task

HistoryTypeOK ==
    /\ green \subseteq Task /\ expired \subseteq Task /\ untagged \subseteq Task
    /\ contested \subseteq Task /\ unrecorded \subseteq Task
    /\ faults \in 0 .. MaxFaults /\ crashes \in 0 .. MaxCrashes

TypeOK ==
    /\ LedgerTypeOK /\ Git!GitTypeOK /\ WorkerTypeOK /\ HistoryTypeOK
    /\ req \in [Request -> RequestRecord]
=============================================================================
