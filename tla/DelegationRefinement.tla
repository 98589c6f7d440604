------------------------ MODULE DelegationRefinement ------------------------
(***************************************************************************)
(* Delegation implements TaskLifecycle with any number of requests served  *)
(* at a time, and work that is live under a rejected row tells of a        *)
(* contest or of a record that was lost.                                   *)
(***************************************************************************)
EXTENDS DelegationProofs

\* Of an uncontested task only handlers of one kind are about to decide, and
\* what they write is what the others of them would have written.
LEMMA DecidesStep ==
    TypeOK /\ WorkerOwns /\ HandlerKnows /\ DecidesUnopposed /\
    [Next]_vars
        => DecidesUnopposed'
<1> SUFFICES
     ASSUME TypeOK, WorkerOwns, HandlerKnows, DecidesUnopposed,
            [Next]_vars
     PROVE  DecidesUnopposed'
  OBVIOUS
<1> USE DEF TypeOK, LedgerTypeOK, WorkerTypeOK, WorkerOwns, Running, HandlerKnows,
    Reviewed, WithStatus, Git!GitTypeOK, Git!Ref, RequestRecord,
    DecidesUnopposed, vars, ledgerVars, repoVars, workerVars, historyVars, At,
    Elsewhere, NoHistory, WorkerAside, Serve, Goto, Answer, Idle, Fine, Fault, Approving, Rejecting
<1>1. CASE RecoverList BY <1>1 DEF RecoverList, WithStatus
<1>2. CASE RecoverOne
  BY <1>2 DEF RecoverOne, SetStatus, CanTransition, WriteStatus, Newest
<1>3. CASE RecoverClean BY <1>3 DEF RecoverClean, RemoveWorktree, Git!RemoveWorktree
<1>4. CASE RecoverDone BY <1>4 DEF RecoverDone
<1>5. CASE Drain BY <1>5 DEF Drain, WithStatus
<1>6. CASE DrainDone BY <1>6 DEF DrainDone
<1>7. CASE Begin BY <1>7 DEF Begin, SetStatus, CanTransition, WriteStatus, Newest
<1>8. CASE MakeWorktree BY <1>8 DEF MakeWorktree, Git!CreateWorktree
<1>9. CASE RecordExecution BY <1>9 DEF RecordExecution, SetExecution
<1>10. CASE ScottyTimesOut BY <1>10 DEF ScottyTimesOut
<1>11. CASE FailVacuous
  BY <1>11 DEF FailVacuous, Settle, SetStatus, CanTransition, WriteStatus,
    SetText
<1>12. CASE FailRed
  BY <1>12 DEF FailRed, Settle, SetStatus, CanTransition, WriteStatus,
    SetText
<1>13. CASE CommitWork BY <1>13 DEF CommitWork, Git!Commit
<1>14. CASE Propose BY <1>14 DEF Propose, SetStatus, CanTransition, WriteStatus, SetText
<1>15. CASE Rescue BY <1>15 DEF Rescue, SetStatus, CanTransition, WriteStatus, SetText
<1>16. CASE PruneList BY <1>16 DEF PruneList, WithStatus, Beyond
<1>17. CASE PruneOne BY <1>17 DEF PruneOne, Newest, RemoveWorktree, Git!RemoveWorktree
<1>18. CASE PruneDone BY <1>18 DEF PruneDone
<1>19. CASE ExpireList BY <1>19 DEF ExpireList, WithStatus
<1>20. CASE ExpireOne BY <1>20 DEF ExpireOne, RemoveWorktree, Git!RemoveWorktree
<1>21. CASE ExpireClear BY <1>21 DEF ExpireClear, ClearWorktree
<1>22. CASE ExpireDone BY <1>22 DEF ExpireDone
<1>23. CASE \E passed \in BOOLEAN : Baseline(passed) BY <1>23 DEF Baseline
<1>24. CASE \E passed \in BOOLEAN : Gate(passed) BY <1>24 DEF Gate
<1>25. CASE \E raised \in BOOLEAN : ScottyReturns(raised) BY <1>25 DEF ScottyReturns
<1>26. CASE \E t \in Task : StrayWrites(t) \/ StrayEnds(t)
  BY <1>26 DEF StrayWrites, StrayEnds, Stray, Git!WriteAnew
<1>27. CASE \E t \in Task : DispatchTask(t) BY <1>27 DEF DispatchTask, CreateTask
<1>28. CASE \E t \in Task : Wait(t) BY <1>28 DEF Wait, Age, Row
<1>29. CASE \E r \in Request : ApproveMerge(r) BY <1>29 DEF ApproveMerge, Git!Merge
<1>30. CASE \E r \in Request : ApproveCheck(r) BY <1>30 DEF ApproveCheck
<1>31. CASE \E r \in Request : ApproveRecord(r) BY <1>31 DEF ApproveRecord, WriteStatus
<1>32. CASE \E r \in Request : RejectReview(r) BY <1>32 DEF RejectReview, SetText
<1>33. CASE \E r \in Request : RejectCheck(r) BY <1>33 DEF RejectCheck
<1>34. CASE \E r \in Request : RejectRecord(r) BY <1>34 DEF RejectRecord, WriteStatus
<1>35. CASE \E r \in Request : RejectPreserve(r)
  BY <1>35 DEF RejectPreserve, Git!PreserveBranch
<1>36. CASE \E r \in Request : Clean(r)
  BY <1>36 DEF Clean, RemoveWorktree, Git!RemoveWorktree
<1>37. CASE \E r \in Request : Close(r) BY <1>37 DEF Close
<1>38. CASE \E r \in Request, k \in {"approve", "reject"}, t \in Task : Open(r, k, t)
  BY <1>38 DEF Open
<1>39. CASE Crash BY <1>39 DEF Crash
<1>40. CASE Restart BY <1>40 DEF Restart
<1>41. CASE UNCHANGED vars BY <1>41
<1> QED
  BY <1>1, <1>2, <1>3, <1>4, <1>5, <1>6, <1>7, <1>8, <1>9, <1>10, <1>11,
    <1>12, <1>13, <1>14, <1>15, <1>16, <1>17, <1>18, <1>19, <1>20, <1>21,
    <1>22, <1>23, <1>24, <1>25, <1>26, <1>27, <1>28, <1>29, <1>30, <1>31,
    <1>32, <1>33, <1>34, <1>35, <1>36, <1>37, <1>38, <1>39, <1>40, <1>41 DEF
    Next, Worker, Handler

\* Whoever merged uncontested goes on to record it, or the loss is noted.
LEMMA RecordedStep ==
    TypeOK /\ WorkerOwns /\ HandlerKnows /\ DecidesUnopposed /\
    MergedIsRecorded /\ [Next]_vars
        => MergedIsRecorded'
<1> SUFFICES
     ASSUME TypeOK, WorkerOwns, HandlerKnows, DecidesUnopposed,
            MergedIsRecorded, [Next]_vars
     PROVE  MergedIsRecorded'
  OBVIOUS
<1> USE DEF TypeOK, LedgerTypeOK, WorkerTypeOK, WorkerOwns, Running, HandlerKnows,
    Reviewed, WithStatus, Git!GitTypeOK, Git!Ref, RequestRecord,
    DecidesUnopposed, MergedIsRecorded, HistoryTypeOK, vars, ledgerVars,
    repoVars, workerVars, historyVars, At, Elsewhere, NoHistory, WorkerAside,
    Serve, Goto, Answer, Idle, Fine, Fault, Approving, Rejecting
<1>1. CASE RecoverList BY <1>1 DEF RecoverList, WithStatus
<1>2. CASE RecoverOne
  BY <1>2 DEF RecoverOne, SetStatus, CanTransition, WriteStatus, Newest
<1>3. CASE RecoverClean BY <1>3 DEF RecoverClean, RemoveWorktree, Git!RemoveWorktree
<1>4. CASE RecoverDone BY <1>4 DEF RecoverDone
<1>5. CASE Drain BY <1>5 DEF Drain, WithStatus
<1>6. CASE DrainDone BY <1>6 DEF DrainDone
<1>7. CASE Begin BY <1>7 DEF Begin, SetStatus, CanTransition, WriteStatus, Newest
<1>8. CASE MakeWorktree BY <1>8 DEF MakeWorktree, Git!CreateWorktree
<1>9. CASE RecordExecution BY <1>9 DEF RecordExecution, SetExecution
<1>10. CASE ScottyTimesOut BY <1>10 DEF ScottyTimesOut
<1>11. CASE FailVacuous
  BY <1>11 DEF FailVacuous, Settle, SetStatus, CanTransition, WriteStatus,
    SetText
<1>12. CASE FailRed
  BY <1>12 DEF FailRed, Settle, SetStatus, CanTransition, WriteStatus,
    SetText
<1>13. CASE CommitWork BY <1>13 DEF CommitWork, Git!Commit
<1>14. CASE Propose BY <1>14 DEF Propose, SetStatus, CanTransition, WriteStatus, SetText
<1>15. CASE Rescue BY <1>15 DEF Rescue, SetStatus, CanTransition, WriteStatus, SetText
<1>16. CASE PruneList BY <1>16 DEF PruneList, WithStatus, Beyond
<1>17. CASE PruneOne BY <1>17 DEF PruneOne, Newest, RemoveWorktree, Git!RemoveWorktree
<1>18. CASE PruneDone BY <1>18 DEF PruneDone
<1>19. CASE ExpireList BY <1>19 DEF ExpireList, WithStatus
<1>20. CASE ExpireOne BY <1>20 DEF ExpireOne, RemoveWorktree, Git!RemoveWorktree
<1>21. CASE ExpireClear BY <1>21 DEF ExpireClear, ClearWorktree
<1>22. CASE ExpireDone BY <1>22 DEF ExpireDone
<1>23. CASE \E passed \in BOOLEAN : Baseline(passed) BY <1>23 DEF Baseline
<1>24. CASE \E passed \in BOOLEAN : Gate(passed) BY <1>24 DEF Gate
<1>25. CASE \E raised \in BOOLEAN : ScottyReturns(raised) BY <1>25 DEF ScottyReturns
<1>26. CASE \E t \in Task : StrayWrites(t) \/ StrayEnds(t)
  BY <1>26 DEF StrayWrites, StrayEnds, Stray, Git!WriteAnew
<1>27. CASE \E t \in Task : DispatchTask(t) BY <1>27 DEF DispatchTask, CreateTask
<1>28. CASE \E t \in Task : Wait(t) BY <1>28 DEF Wait, Age, Row
<1>29. CASE \E r \in Request : ApproveMerge(r) BY <1>29 DEF ApproveMerge, Git!Merge
<1>30. CASE \E r \in Request : ApproveCheck(r)
  BY <1>30 DEF ApproveCheck, CanTransition, Legal, Terminal
<1>31. CASE \E r \in Request : ApproveRecord(r) BY <1>31 DEF ApproveRecord, WriteStatus
<1>32. CASE \E r \in Request : RejectReview(r) BY <1>32 DEF RejectReview, SetText
<1>33. CASE \E r \in Request : RejectCheck(r) BY <1>33 DEF RejectCheck
<1>34. CASE \E r \in Request : RejectRecord(r) BY <1>34 DEF RejectRecord, WriteStatus
<1>35. CASE \E r \in Request : RejectPreserve(r)
  BY <1>35 DEF RejectPreserve, Git!PreserveBranch
<1>36. CASE \E r \in Request : Clean(r)
  BY <1>36 DEF Clean, RemoveWorktree, Git!RemoveWorktree
<1>37. CASE \E r \in Request : Close(r) BY <1>37 DEF Close
<1>38. CASE \E r \in Request, k \in {"approve", "reject"}, t \in Task : Open(r, k, t)
  BY <1>38 DEF Open
<1>39. CASE Crash BY <1>39 DEF Crash
<1>40. CASE Restart BY <1>40 DEF Restart
<1>41. CASE UNCHANGED vars BY <1>41
<1> QED
  BY <1>1, <1>2, <1>3, <1>4, <1>5, <1>6, <1>7, <1>8, <1>9, <1>10, <1>11,
    <1>12, <1>13, <1>14, <1>15, <1>16, <1>17, <1>18, <1>19, <1>20, <1>21,
    <1>22, <1>23, <1>24, <1>25, <1>26, <1>27, <1>28, <1>29, <1>30, <1>31,
    <1>32, <1>33, <1>34, <1>35, <1>36, <1>37, <1>38, <1>39, <1>40, <1>41 DEF
    Next, Worker, Handler

\* Every step is one of the lifecycle's, or leaves phase and merged alone.
LEMMA StepsRefine ==
    TypeOK /\ WorkerOwns /\ HandlerKnows /\ LandedIsMerged /\ DecidesUnopposed /\
    [Next]_vars
        => [Lifecycle!Next]_(Lifecycle!vars)
<1> SUFFICES
     ASSUME TypeOK, WorkerOwns, HandlerKnows, LandedIsMerged, DecidesUnopposed,
            [Next]_vars
     PROVE  [Lifecycle!Next]_(Lifecycle!vars)
  OBVIOUS
<1> USE DEF TypeOK, LedgerTypeOK, WorkerTypeOK, WorkerOwns, Running, HandlerKnows,
    Reviewed, WithStatus, Git!GitTypeOK, Git!Ref, RequestRecord,
    DecidesUnopposed, Lifecycle!Next, Lifecycle!vars, Lifecycle!Move,
    Lifecycle!Dispatch, Lifecycle!Begin, Lifecycle!Fail, Lifecycle!Propose,
    Lifecycle!Reject, Lifecycle!Land, Lifecycle!Merge, Lifecycle!Dispute,
    Lifecycle!Overrule, vars, ledgerVars,
    repoVars, workerVars, historyVars, At, Elsewhere, NoHistory, WorkerAside,
    Serve, Goto, Answer, Idle, Fine, Fault, Approving, Rejecting
<1>1. CASE RecoverList BY <1>1 DEF RecoverList, WithStatus
<1>2. CASE RecoverOne
  BY <1>2 DEF RecoverOne, SetStatus, CanTransition, WriteStatus, Newest
<1>3. CASE RecoverClean BY <1>3 DEF RecoverClean, RemoveWorktree, Git!RemoveWorktree
<1>4. CASE RecoverDone BY <1>4 DEF RecoverDone
<1>5. CASE Drain BY <1>5 DEF Drain, WithStatus
<1>6. CASE DrainDone BY <1>6 DEF DrainDone
<1>7. CASE Begin BY <1>7 DEF Begin, SetStatus, CanTransition, WriteStatus, Newest
<1>8. CASE MakeWorktree BY <1>8 DEF MakeWorktree, Git!CreateWorktree
<1>9. CASE RecordExecution BY <1>9 DEF RecordExecution, SetExecution
<1>10. CASE ScottyTimesOut BY <1>10 DEF ScottyTimesOut
<1>11. CASE FailVacuous
  BY <1>11 DEF FailVacuous, Settle, SetStatus, CanTransition, WriteStatus,
    SetText
<1>12. CASE FailRed
  BY <1>12 DEF FailRed, Settle, SetStatus, CanTransition, WriteStatus,
    SetText
<1>13. CASE CommitWork BY <1>13 DEF CommitWork, Git!Commit
<1>14. CASE Propose BY <1>14 DEF Propose, SetStatus, CanTransition, WriteStatus, SetText
<1>15. CASE Rescue BY <1>15 DEF Rescue, SetStatus, CanTransition, WriteStatus, SetText
<1>16. CASE PruneList BY <1>16 DEF PruneList, WithStatus, Beyond
<1>17. CASE PruneOne BY <1>17 DEF PruneOne, Newest, RemoveWorktree, Git!RemoveWorktree
<1>18. CASE PruneDone BY <1>18 DEF PruneDone
<1>19. CASE ExpireList BY <1>19 DEF ExpireList, WithStatus
<1>20. CASE ExpireOne BY <1>20 DEF ExpireOne, RemoveWorktree, Git!RemoveWorktree
<1>21. CASE ExpireClear BY <1>21 DEF ExpireClear, ClearWorktree
<1>22. CASE ExpireDone BY <1>22 DEF ExpireDone
<1>23. CASE \E passed \in BOOLEAN : Baseline(passed) BY <1>23 DEF Baseline
<1>24. CASE \E passed \in BOOLEAN : Gate(passed) BY <1>24 DEF Gate
<1>25. CASE \E raised \in BOOLEAN : ScottyReturns(raised) BY <1>25 DEF ScottyReturns
<1>26. CASE \E t \in Task : StrayWrites(t) \/ StrayEnds(t)
  BY <1>26 DEF StrayWrites, StrayEnds, Stray, Git!WriteAnew
<1>27. CASE \E t \in Task : DispatchTask(t) BY <1>27 DEF DispatchTask, CreateTask
<1>28. CASE \E t \in Task : Wait(t) BY <1>28 DEF Wait, Age, Row
<1>29. CASE \E r \in Request : ApproveMerge(r)
  <2>1. PICK r \in Request : ApproveMerge(r)
    BY <1>29
  <2> DEFINE t == req[r].task
  <2>2. /\ t \in Task /\ status' = status /\ contested' = contested
        /\ main' = main \/ main' = main \cup {t}
    BY <2>1 DEF ApproveMerge, Git!Merge
  <2>3. status[t] \in {"in_review", "landed"} \/ (t \in contested /\ status[t] = "rejected")
    BY <2>1 DEF ApproveMerge
  <2>4. CASE status[t] = "landed"
    BY <2>2, <2>4 DEF LandedIsMerged
  <2> QED BY <2>2, <2>3, <2>4
<1>30. CASE \E r \in Request : ApproveCheck(r) BY <1>30 DEF ApproveCheck
<1>31. CASE \E r \in Request : ApproveRecord(r) BY <1>31 DEF ApproveRecord, WriteStatus
<1>32. CASE \E r \in Request : RejectReview(r) BY <1>32 DEF RejectReview, SetText
<1>33. CASE \E r \in Request : RejectCheck(r) BY <1>33 DEF RejectCheck
<1>34. CASE \E r \in Request : RejectRecord(r) BY <1>34 DEF RejectRecord, WriteStatus
<1>35. CASE \E r \in Request : RejectPreserve(r)
  BY <1>35 DEF RejectPreserve, Git!PreserveBranch
<1>36. CASE \E r \in Request : Clean(r)
  BY <1>36 DEF Clean, RemoveWorktree, Git!RemoveWorktree
<1>37. CASE \E r \in Request : Close(r) BY <1>37 DEF Close
<1>38. CASE \E r \in Request, k \in {"approve", "reject"}, t \in Task : Open(r, k, t)
  BY <1>38 DEF Open
<1>39. CASE Crash BY <1>39 DEF Crash
<1>40. CASE Restart BY <1>40 DEF Restart
<1>41. CASE UNCHANGED vars BY <1>41
<1> QED
  BY <1>1, <1>2, <1>3, <1>4, <1>5, <1>6, <1>7, <1>8, <1>9, <1>10, <1>11,
    <1>12, <1>13, <1>14, <1>15, <1>16, <1>17, <1>18, <1>19, <1>20, <1>21,
    <1>22, <1>23, <1>24, <1>25, <1>26, <1>27, <1>28, <1>29, <1>30, <1>31,
    <1>32, <1>33, <1>34, <1>35, <1>36, <1>37, <1>38, <1>39, <1>40, <1>41 DEF
    Next, Worker, Handler

\* Nothing is under review at the start.
LEMMA DecisionInitHolds == Init => DecisionInv
  BY DEF Init, DecisionInv, DecidesUnopposed, MergedIsRecorded, Idle, Approving,
    Rejecting, Git!GitInit

\* What is known of the decisions on a task holds in every reachable state.
THEOREM DecisionsHold == Spec => []DecisionInv
<1>1. Init => DecisionInv
  BY DecisionInitHolds
<1>2. IInv /\ DecisionInv /\ [Next]_vars => DecisionInv'
  BY DecidesStep, RecordedStep DEF IInv, DecisionInv
<1> QED
  BY <1>1, <1>2, InvariantHolds, PTL DEF Spec

\* However many approve and reject handlers are at work, whatever fails and
\* whenever the process dies: rejected work is live in main only if an approve
\* and a reject of that task overlapped undecided, or an approve that merged it
\* could not record it.
THEOREM RejectedIsLiveByRaceOnly == Spec => []RejectedLiveByRaceOnly
<1>1. DecisionInv => RejectedLiveByRaceOnly
  <2> SUFFICES ASSUME DecisionInv, NEW t \in WithStatus("rejected") \cap main,
                      t \notin contested \cup unrecorded
               PROVE  FALSE
    BY DEF RejectedLiveByRaceOnly
  <2>1. PICK r \in Request :
          req[r].task = t /\ req[r].step \in {"landing", "recordLanded"}
    BY DEF DecisionInv, MergedIsRecorded, WithStatus
  <2> QED
    BY <2>1 DEF DecisionInv, DecidesUnopposed, WithStatus, Approving
<1> QED
  BY <1>1, DecisionsHold, PTL

\* Worker, engine, ledger, git and any number of handlers, with every failure
\* of theirs and every crash, implement the abstract task lifecycle.
THEOREM DelegationImplementsLifecycle == Spec => ImplementsLifecycle
<1>1. Init => Lifecycle!Init
  BY DEF Init, LedgerInit, Git!GitInit, Lifecycle!Init
<1>2. IInv /\ DecisionInv /\ [Next]_vars => [Lifecycle!Next]_(Lifecycle!vars)
  BY StepsRefine DEF IInv, DecisionInv
<1> QED
  BY <1>1, <1>2, InvariantHolds, DecisionsHold, PTL
  DEF Spec, ImplementsLifecycle, Lifecycle!Spec
=============================================================================
