--------------------------- MODULE DelegationStore ---------------------------
(***************************************************************************)
(* The delegation ledger: the table delegation_tasks of data/delegation.db *)
(* (platform/delegation/store.py).  Every method opens its own connection, *)
(* so one method is one atomic step, with the exception of set_status,     *)
(* which reads on one connection (CanTransition) and writes on another     *)
(* (WriteStatus): a caller that other threads can overtake takes the two   *)
(* in separate steps.                                                      *)
(*                                                                         *)
(* updated_at is kept as what the code reads of it: the order of the rows  *)
(* (newer) and whether a row has not been touched for more than            *)
(* IN_REVIEW_WORKTREE_MAX_AGE_DAYS (aged).  The columns diff, test_output, *)
(* summary and review_feedback are written and never read back by the      *)
(* lifecycle, so only the touch of updated_at is left of their writers.    *)
(***************************************************************************)
EXTENDS FiniteSets, Integers

CONSTANT Task           \* task ids, the uuid4s that create_task mints

VARIABLES
    status,     \* [Task -> Status], "none" when there is no such row
    rowWt,      \* the rows whose worktree_path is not NULL
    newer,      \* <<a, b>>: row a was updated after row b
    aged        \* rows untouched for longer than the review age

ledgerVars == <<status, rowWt, newer, aged>>

Terminal == {"landed", "rejected", "failed"}
Status == Terminal \cup
    {"none", "dispatched", "recorded", "executing", "in_review", "pending-verify"}

Legal == { <<"dispatched", "executing">>, <<"dispatched", "failed">>,
           <<"executing", "in_review">>, <<"executing", "failed">>,
           <<"in_review", "landed">>, <<"in_review", "rejected">>,
           <<"in_review", "pending-verify">>, <<"in_review", "failed">>,
           <<"pending-verify", "landed">>, <<"pending-verify", "failed">>,
           <<"pending-verify", "rejected">> }

Row == {t \in Task : status[t] # "none"}
WithStatus(s) == {t \in Task : status[t] = s}

LedgerInit ==
    /\ status = [t \in Task |-> "none"]
    /\ rowWt = {}
    /\ newer = {}
    /\ aged = {}

\* updated_at := now
Touch(t) ==
    /\ newer' = {p \in newer : t # p[1] /\ t # p[2]} \cup ({t} \X (Row \ {t}))
    /\ aged' = aged \ {t}

\* Off by one: the slice starts a row too late.
BeyondPlusOne(S, n) == {t \in S : Cardinality({u \in S : <<u, t>> \in newer}) > n}

\* The first row of list_tasks among those of S (newest first) as a singleton,
\* and the rows of S that come after the first n.
Newest(S) == {t \in S : \A u \in S \ {t} : <<t, u>> \in newer}
Beyond(S, n) == {t \in S : Cardinality({u \in S : <<u, t>> \in newer}) >= n}

\* A status of another ledger's vocabulary.
CreateQueued(t, s) ==
    /\ status[t] = "none"
    /\ status' = [status EXCEPT ![t] = "queued"]
    /\ Touch(t)
    /\ UNCHANGED rowWt

CreateTask(t, s) ==
    /\ status[t] = "none"
    /\ status' = [status EXCEPT ![t] = s]
    /\ Touch(t)
    /\ UNCHANGED rowWt

\* The half of set_status that may raise IllegalTransition.
CanTransition(t, s) == status[t] \notin Terminal /\ <<status[t], s>> \in Legal

\* The other half: UPDATE ... WHERE id = ?, whatever the row now holds.
WriteStatus(t, s) ==
    /\ status' = [status EXCEPT ![t] = s]
    /\ Touch(t)
    /\ UNCHANGED rowWt

\* Both halves in one step, for a row no other thread writes.
SetStatus(t, s) == CanTransition(t, s) /\ WriteStatus(t, s)

SetExecution(t) == rowWt' = rowWt \cup {t} /\ Touch(t) /\ UNCHANGED status

\* set_result and set_review
SetText(t) == Touch(t) /\ UNCHANGED <<status, rowWt>>

ClearWorktree(t) == rowWt' = rowWt \ {t} /\ UNCHANGED <<status, newer, aged>>

\* A week goes by without a write to the row, nor to older ones like it.
Age(t) ==
    /\ t \in Row \ aged
    /\ \A u \in WithStatus(status[t]) : <<t, u>> \in newer => u \in aged
    /\ aged' = aged \cup {t}
    /\ UNCHANGED <<status, rowWt, newer>>

LedgerTypeOK ==
    /\ status \in [Task -> Status]
    /\ rowWt \subseteq Task
    /\ newer \subseteq Task \X Task
    /\ aged \subseteq Task
=============================================================================
