-------------------------- MODULE DelegationProofs --------------------------
(***************************************************************************)
(* The inductive invariant of Delegation and the safety theorems that      *)
(* follow from it.  One lemma per part of the state's type and per         *)
(* conjunct, one step per action; each says which operations of the        *)
(* ledger, the repository and the handlers it needs to see.  The types     *)
(* rest on WorkerOwns and HandlerKnows: that the worker has a task in      *)
(* hand, and a handler too, is what keeps the rows and refs they write     *)
(* inside Task.                                                            *)
(***************************************************************************)
EXTENDS DelegationInvariant, FiniteSetTheorems, TLAPS

\* remove_worktree as its callers see it spends at most one fault.
LEMMA RemoveWorktreeFaults ==
    ASSUME NEW t, NEW named, faults \in 0 .. MaxFaults, RemoveWorktree(t, named)
    PROVE  faults' \in 0 .. MaxFaults
  BY BoundsAssumption DEF RemoveWorktree, Fine, Fault

\* A handler's record keeps its shape.
LEMMA RequestTypeStep ==
    TypeOK /\ [Next]_vars
        => (req \in [Request -> RequestRecord])'
<1> SUFFICES
     ASSUME TypeOK, [Next]_vars
     PROVE  (req \in [Request -> RequestRecord])'
  OBVIOUS
<1> USE DEF TypeOK, RequestRecord, vars, ledgerVars, repoVars, workerVars,
    historyVars, At, Elsewhere, NoHistory, WorkerAside, Serve, Goto, Answer,
    Idle, Fine, Fault
<1>1. CASE RecoverList BY <1>1 DEF RecoverList, WithStatus
<1>2. CASE RecoverOne BY <1>2 DEF RecoverOne, SetStatus, Newest
<1>3. CASE RecoverClean BY <1>3 DEF RecoverClean
<1>4. CASE RecoverDone BY <1>4 DEF RecoverDone
<1>5. CASE Drain BY <1>5 DEF Drain, WithStatus
<1>6. CASE DrainDone BY <1>6 DEF DrainDone
<1>7. CASE Begin BY <1>7 DEF Begin, SetStatus, Newest
<1>8. CASE MakeWorktree BY <1>8 DEF MakeWorktree
<1>9. CASE RecordExecution BY <1>9 DEF RecordExecution
<1>10. CASE ScottyTimesOut BY <1>10 DEF ScottyTimesOut
<1>11. CASE FailVacuous BY <1>11 DEF FailVacuous, Settle, SetStatus
<1>12. CASE FailRed BY <1>12 DEF FailRed, Settle, SetStatus
<1>13. CASE CommitWork BY <1>13 DEF CommitWork
<1>14. CASE Propose BY <1>14 DEF Propose, SetStatus
<1>15. CASE Rescue BY <1>15 DEF Rescue, SetStatus
<1>16. CASE PruneList BY <1>16 DEF PruneList, WithStatus, Beyond
<1>17. CASE PruneOne BY <1>17 DEF PruneOne, Newest
<1>18. CASE PruneDone BY <1>18 DEF PruneDone
<1>19. CASE ExpireList BY <1>19 DEF ExpireList, WithStatus
<1>20. CASE ExpireOne BY <1>20 DEF ExpireOne
<1>21. CASE ExpireClear BY <1>21 DEF ExpireClear
<1>22. CASE ExpireDone BY <1>22 DEF ExpireDone
<1>23. CASE \E passed \in BOOLEAN : Baseline(passed) BY <1>23 DEF Baseline
<1>24. CASE \E passed \in BOOLEAN : Gate(passed) BY <1>24 DEF Gate
<1>25. CASE \E raised \in BOOLEAN : ScottyReturns(raised) BY <1>25 DEF ScottyReturns
<1>26. CASE \E t \in Task : StrayWrites(t) \/ StrayEnds(t)
  BY <1>26 DEF StrayWrites, StrayEnds, Stray, Git!WriteAnew
<1>27. CASE \E t \in Task : DispatchTask(t) BY <1>27 DEF DispatchTask
<1>28. CASE \E t \in Task : Wait(t) BY <1>28 DEF Wait, Row
<1>29. CASE \E r \in Request : ApproveMerge(r) BY <1>29 DEF ApproveMerge
<1>30. CASE \E r \in Request : ApproveCheck(r) BY <1>30 DEF ApproveCheck
<1>31. CASE \E r \in Request : ApproveRecord(r) BY <1>31 DEF ApproveRecord
<1>32. CASE \E r \in Request : RejectReview(r) BY <1>32 DEF RejectReview
<1>33. CASE \E r \in Request : RejectCheck(r) BY <1>33 DEF RejectCheck
<1>34. CASE \E r \in Request : RejectRecord(r) BY <1>34 DEF RejectRecord
<1>35. CASE \E r \in Request : RejectPreserve(r) BY <1>35 DEF RejectPreserve
<1>36. CASE \E r \in Request : Clean(r) BY <1>36 DEF Clean
<1>37. CASE \E r \in Request : Close(r) BY <1>37 DEF Close
<1>38. CASE \E r \in Request, k \in {"approve", "reject"}, t \in Task : Open(r, k, t)
  BY <1>38 DEF Open
<1>39. CASE Crash BY <1>39 DEF Crash
<1>40. CASE Restart BY <1>40 DEF Restart
<1>41. CASE UNCHANGED vars BY <1>41
<1> QED
  BY <1>1, <1>2, <1>3, <1>4, <1>5, <1>6, <1>7, <1>8, <1>9, <1>10, <1>11,
    <1>12, <1>13, <1>14, <1>15, <1>16, <1>17, <1>18, <1>19, <1>20, <1>21,
    <1>22, <1>23, <1>24, <1>25, <1>26, <1>27, <1>28, <1>29, <1>30, <1>31,
    <1>32, <1>33, <1>34, <1>35, <1>36, <1>37, <1>38, <1>39, <1>40, <1>41 DEF
    Next, Worker, Handler

\* The histories name tasks and the counters keep their bounds.
LEMMA HistoryTypeStep ==
    TypeOK /\ WorkerOwns /\ HandlerKnows /\ [Next]_vars
        => HistoryTypeOK'
<1> SUFFICES
     ASSUME TypeOK, WorkerOwns, HandlerKnows, [Next]_vars
     PROVE  HistoryTypeOK'
  OBVIOUS
<1> USE BoundsAssumption DEF TypeOK, HistoryTypeOK, WorkerTypeOK, WorkerOwns,
    Running, HandlerKnows, vars, ledgerVars, repoVars, workerVars,
    historyVars, At, Elsewhere, NoHistory, WorkerAside, Serve, Goto, Answer,
    Idle, Fine, Fault
<1>1. CASE RecoverList BY <1>1 DEF RecoverList, WithStatus
<1>2. CASE RecoverOne BY <1>2 DEF RecoverOne, SetStatus, Newest
<1>3. CASE RecoverClean BY <1>3, RemoveWorktreeFaults DEF RecoverClean
<1>4. CASE RecoverDone BY <1>4 DEF RecoverDone
<1>5. CASE Drain BY <1>5 DEF Drain, WithStatus
<1>6. CASE DrainDone BY <1>6 DEF DrainDone
<1>7. CASE Begin BY <1>7 DEF Begin, SetStatus, Newest
<1>8. CASE MakeWorktree BY <1>8 DEF MakeWorktree
<1>9. CASE RecordExecution BY <1>9 DEF RecordExecution
<1>10. CASE ScottyTimesOut BY <1>10 DEF ScottyTimesOut
<1>11. CASE FailVacuous BY <1>11 DEF FailVacuous, Settle, SetStatus
<1>12. CASE FailRed BY <1>12 DEF FailRed, Settle, SetStatus
<1>13. CASE CommitWork BY <1>13 DEF CommitWork
<1>14. CASE Propose BY <1>14 DEF Propose, SetStatus
<1>15. CASE Rescue BY <1>15 DEF Rescue, SetStatus
<1>16. CASE PruneList BY <1>16 DEF PruneList, WithStatus, Beyond
<1>17. CASE PruneOne BY <1>17, RemoveWorktreeFaults DEF PruneOne, Newest
<1>18. CASE PruneDone BY <1>18 DEF PruneDone
<1>19. CASE ExpireList BY <1>19 DEF ExpireList, WithStatus
<1>20. CASE ExpireOne BY <1>20, RemoveWorktreeFaults DEF ExpireOne
<1>21. CASE ExpireClear BY <1>21 DEF ExpireClear
<1>22. CASE ExpireDone BY <1>22 DEF ExpireDone
<1>23. CASE \E passed \in BOOLEAN : Baseline(passed) BY <1>23 DEF Baseline
<1>24. CASE \E passed \in BOOLEAN : Gate(passed) BY <1>24 DEF Gate
<1>25. CASE \E raised \in BOOLEAN : ScottyReturns(raised) BY <1>25 DEF ScottyReturns
<1>26. CASE \E t \in Task : StrayWrites(t) \/ StrayEnds(t)
  BY <1>26 DEF StrayWrites, StrayEnds, Stray, Git!WriteAnew
<1>27. CASE \E t \in Task : DispatchTask(t) BY <1>27 DEF DispatchTask
<1>28. CASE \E t \in Task : Wait(t) BY <1>28 DEF Wait, Row
<1>29. CASE \E r \in Request : ApproveMerge(r) BY <1>29 DEF ApproveMerge
<1>30. CASE \E r \in Request : ApproveCheck(r) BY <1>30 DEF ApproveCheck
<1>31. CASE \E r \in Request : ApproveRecord(r) BY <1>31 DEF ApproveRecord
<1>32. CASE \E r \in Request : RejectReview(r) BY <1>32 DEF RejectReview
<1>33. CASE \E r \in Request : RejectCheck(r) BY <1>33 DEF RejectCheck
<1>34. CASE \E r \in Request : RejectRecord(r) BY <1>34 DEF RejectRecord
<1>35. CASE \E r \in Request : RejectPreserve(r) BY <1>35 DEF RejectPreserve
<1>36. CASE \E r \in Request : Clean(r) BY <1>36, RemoveWorktreeFaults DEF Clean
<1>37. CASE \E r \in Request : Close(r) BY <1>37 DEF Close
<1>38. CASE \E r \in Request, k \in {"approve", "reject"}, t \in Task : Open(r, k, t)
  BY <1>38 DEF Open
<1>39. CASE Crash BY <1>39 DEF Crash
<1>40. CASE Restart BY <1>40 DEF Restart
<1>41. CASE UNCHANGED vars BY <1>41
<1> QED
  BY <1>1, <1>2, <1>3, <1>4, <1>5, <1>6, <1>7, <1>8, <1>9, <1>10, <1>11,
    <1>12, <1>13, <1>14, <1>15, <1>16, <1>17, <1>18, <1>19, <1>20, <1>21,
    <1>22, <1>23, <1>24, <1>25, <1>26, <1>27, <1>28, <1>29, <1>30, <1>31,
    <1>32, <1>33, <1>34, <1>35, <1>36, <1>37, <1>38, <1>39, <1>40, <1>41 DEF
    Next, Worker, Handler

\* The worker is at a known place with rows it knows.
LEMMA WorkerTypeStep ==
    TypeOK /\ WorkerOwns /\ [Next]_vars
        => WorkerTypeOK'
<1> SUFFICES
     ASSUME TypeOK, WorkerOwns, [Next]_vars
     PROVE  WorkerTypeOK'
  OBVIOUS
<1> USE DEF TypeOK, WorkerTypeOK, WorkerPC, WorkerOwns, Running, vars, ledgerVars,
    repoVars, workerVars, historyVars, At, Elsewhere, NoHistory, WorkerAside,
    Serve, Goto, Answer, Idle, Fine, Fault
<1>1. CASE RecoverList BY <1>1 DEF RecoverList, WithStatus
<1>2. CASE RecoverOne BY <1>2 DEF RecoverOne, SetStatus, Newest
<1>3. CASE RecoverClean BY <1>3 DEF RecoverClean
<1>4. CASE RecoverDone BY <1>4 DEF RecoverDone
<1>5. CASE Drain BY <1>5 DEF Drain, WithStatus
<1>6. CASE DrainDone BY <1>6 DEF DrainDone
<1>7. CASE Begin BY <1>7 DEF Begin, SetStatus, Newest
<1>8. CASE MakeWorktree BY <1>8 DEF MakeWorktree
<1>9. CASE RecordExecution BY <1>9 DEF RecordExecution
<1>10. CASE ScottyTimesOut BY <1>10 DEF ScottyTimesOut
<1>11. CASE FailVacuous BY <1>11 DEF FailVacuous, Settle, SetStatus
<1>12. CASE FailRed BY <1>12 DEF FailRed, Settle, SetStatus
<1>13. CASE CommitWork BY <1>13 DEF CommitWork
<1>14. CASE Propose BY <1>14 DEF Propose, SetStatus
<1>15. CASE Rescue BY <1>15 DEF Rescue, SetStatus
<1>16. CASE PruneList BY <1>16 DEF PruneList, WithStatus, Beyond
<1>17. CASE PruneOne BY <1>17 DEF PruneOne, Newest
<1>18. CASE PruneDone BY <1>18 DEF PruneDone
<1>19. CASE ExpireList BY <1>19 DEF ExpireList, WithStatus
<1>20. CASE ExpireOne BY <1>20 DEF ExpireOne
<1>21. CASE ExpireClear BY <1>21 DEF ExpireClear
<1>22. CASE ExpireDone BY <1>22 DEF ExpireDone
<1>23. CASE \E passed \in BOOLEAN : Baseline(passed) BY <1>23 DEF Baseline
<1>24. CASE \E passed \in BOOLEAN : Gate(passed) BY <1>24 DEF Gate
<1>25. CASE \E raised \in BOOLEAN : ScottyReturns(raised) BY <1>25 DEF ScottyReturns
<1>26. CASE \E t \in Task : StrayWrites(t) \/ StrayEnds(t)
  BY <1>26 DEF StrayWrites, StrayEnds, Stray, Git!WriteAnew
<1>27. CASE \E t \in Task : DispatchTask(t) BY <1>27 DEF DispatchTask
<1>28. CASE \E t \in Task : Wait(t) BY <1>28 DEF Wait, Row
<1>29. CASE \E r \in Request : ApproveMerge(r) BY <1>29 DEF ApproveMerge
<1>30. CASE \E r \in Request : ApproveCheck(r) BY <1>30 DEF ApproveCheck
<1>31. CASE \E r \in Request : ApproveRecord(r) BY <1>31 DEF ApproveRecord
<1>32. CASE \E r \in Request : RejectReview(r) BY <1>32 DEF RejectReview
<1>33. CASE \E r \in Request : RejectCheck(r) BY <1>33 DEF RejectCheck
<1>34. CASE \E r \in Request : RejectRecord(r) BY <1>34 DEF RejectRecord
<1>35. CASE \E r \in Request : RejectPreserve(r) BY <1>35 DEF RejectPreserve
<1>36. CASE \E r \in Request : Clean(r) BY <1>36 DEF Clean
<1>37. CASE \E r \in Request : Close(r) BY <1>37 DEF Close
<1>38. CASE \E r \in Request, k \in {"approve", "reject"}, t \in Task : Open(r, k, t)
  BY <1>38 DEF Open
<1>39. CASE Crash BY <1>39 DEF Crash
<1>40. CASE Restart BY <1>40 DEF Restart
<1>41. CASE UNCHANGED vars BY <1>41
<1> QED
  BY <1>1, <1>2, <1>3, <1>4, <1>5, <1>6, <1>7, <1>8, <1>9, <1>10, <1>11,
    <1>12, <1>13, <1>14, <1>15, <1>16, <1>17, <1>18, <1>19, <1>20, <1>21,
    <1>22, <1>23, <1>24, <1>25, <1>26, <1>27, <1>28, <1>29, <1>30, <1>31,
    <1>32, <1>33, <1>34, <1>35, <1>36, <1>37, <1>38, <1>39, <1>40, <1>41 DEF
    Next, Worker, Handler

\* The ledger keeps its shape: every status written is one of Status.
LEMMA LedgerTypeStep ==
    TypeOK /\ WorkerOwns /\ HandlerKnows /\ [Next]_vars
        => LedgerTypeOK'
<1> SUFFICES
     ASSUME TypeOK, WorkerOwns, HandlerKnows, [Next]_vars
     PROVE  LedgerTypeOK'
  OBVIOUS
<1> USE DEF TypeOK, LedgerTypeOK, WorkerTypeOK, WorkerOwns, Running, HandlerKnows,
    Status, Terminal, WithStatus, Touch, Row, vars, ledgerVars, repoVars,
    workerVars, historyVars, At, Elsewhere, NoHistory, WorkerAside, Serve,
    Goto, Answer, Idle, Fine, Fault
<1>1. CASE RecoverList BY <1>1 DEF RecoverList, WithStatus
<1>2. CASE RecoverOne
  BY <1>2 DEF RecoverOne, SetStatus, CanTransition, WriteStatus, Newest
<1>3. CASE RecoverClean BY <1>3 DEF RecoverClean
<1>4. CASE RecoverDone BY <1>4 DEF RecoverDone
<1>5. CASE Drain BY <1>5 DEF Drain, WithStatus
<1>6. CASE DrainDone BY <1>6 DEF DrainDone
<1>7. CASE Begin BY <1>7 DEF Begin, SetStatus, CanTransition, WriteStatus, Newest
<1>8. CASE MakeWorktree BY <1>8 DEF MakeWorktree
<1>9. CASE RecordExecution BY <1>9 DEF RecordExecution, SetExecution
<1>10. CASE ScottyTimesOut BY <1>10 DEF ScottyTimesOut
<1>11. CASE FailVacuous
  BY <1>11 DEF FailVacuous, Settle, SetStatus, CanTransition, WriteStatus,
    SetText
<1>12. CASE FailRed
  BY <1>12 DEF FailRed, Settle, SetStatus, CanTransition, WriteStatus,
    SetText
<1>13. CASE CommitWork BY <1>13 DEF CommitWork
<1>14. CASE Propose BY <1>14 DEF Propose, SetStatus, CanTransition, WriteStatus, SetText
<1>15. CASE Rescue BY <1>15 DEF Rescue, SetStatus, CanTransition, WriteStatus, SetText
<1>16. CASE PruneList BY <1>16 DEF PruneList, WithStatus, Beyond
<1>17. CASE PruneOne BY <1>17 DEF PruneOne, Newest
<1>18. CASE PruneDone BY <1>18 DEF PruneDone
<1>19. CASE ExpireList BY <1>19 DEF ExpireList, WithStatus
<1>20. CASE ExpireOne BY <1>20 DEF ExpireOne
<1>21. CASE ExpireClear BY <1>21 DEF ExpireClear, ClearWorktree
<1>22. CASE ExpireDone BY <1>22 DEF ExpireDone
<1>23. CASE \E passed \in BOOLEAN : Baseline(passed) BY <1>23 DEF Baseline
<1>24. CASE \E passed \in BOOLEAN : Gate(passed) BY <1>24 DEF Gate
<1>25. CASE \E raised \in BOOLEAN : ScottyReturns(raised) BY <1>25 DEF ScottyReturns
<1>26. CASE \E t \in Task : StrayWrites(t) \/ StrayEnds(t)
  BY <1>26 DEF StrayWrites, StrayEnds, Stray, Git!WriteAnew
<1>27. CASE \E t \in Task : DispatchTask(t) BY <1>27 DEF DispatchTask, CreateTask
<1>28. CASE \E t \in Task : Wait(t) BY <1>28 DEF Wait, Age, Row
<1>29. CASE \E r \in Request : ApproveMerge(r) BY <1>29 DEF ApproveMerge
<1>30. CASE \E r \in Request : ApproveCheck(r) BY <1>30 DEF ApproveCheck
<1>31. CASE \E r \in Request : ApproveRecord(r) BY <1>31 DEF ApproveRecord, WriteStatus
<1>32. CASE \E r \in Request : RejectReview(r) BY <1>32 DEF RejectReview, SetText
<1>33. CASE \E r \in Request : RejectCheck(r) BY <1>33 DEF RejectCheck
<1>34. CASE \E r \in Request : RejectRecord(r) BY <1>34 DEF RejectRecord, WriteStatus
<1>35. CASE \E r \in Request : RejectPreserve(r) BY <1>35 DEF RejectPreserve
<1>36. CASE \E r \in Request : Clean(r) BY <1>36 DEF Clean
<1>37. CASE \E r \in Request : Close(r) BY <1>37 DEF Close
<1>38. CASE \E r \in Request, k \in {"approve", "reject"}, t \in Task : Open(r, k, t)
  BY <1>38 DEF Open
<1>39. CASE Crash BY <1>39 DEF Crash
<1>40. CASE Restart BY <1>40 DEF Restart
<1>41. CASE UNCHANGED vars BY <1>41
<1> QED
  BY <1>1, <1>2, <1>3, <1>4, <1>5, <1>6, <1>7, <1>8, <1>9, <1>10, <1>11,
    <1>12, <1>13, <1>14, <1>15, <1>16, <1>17, <1>18, <1>19, <1>20, <1>21,
    <1>22, <1>23, <1>24, <1>25, <1>26, <1>27, <1>28, <1>29, <1>30, <1>31,
    <1>32, <1>33, <1>34, <1>35, <1>36, <1>37, <1>38, <1>39, <1>40, <1>41 DEF
    Next, Worker, Handler

\* The repository keeps its shape.
LEMMA GitTypeStep ==
    TypeOK /\ WorkerOwns /\ HandlerKnows /\ [Next]_vars
        => Git!GitTypeOK'
<1> SUFFICES
     ASSUME TypeOK, WorkerOwns, HandlerKnows, [Next]_vars
     PROVE  Git!GitTypeOK'
  OBVIOUS
<1> USE DEF TypeOK, WorkerTypeOK, WorkerOwns, Running, HandlerKnows,
    Git!GitTypeOK, Git!Ref, vars, ledgerVars, repoVars, workerVars,
    historyVars, At, Elsewhere, NoHistory, WorkerAside, Serve, Goto, Answer,
    Idle, Fine, Fault
<1>1. CASE RecoverList BY <1>1 DEF RecoverList, WithStatus
<1>2. CASE RecoverOne BY <1>2 DEF RecoverOne, SetStatus, Newest
<1>3. CASE RecoverClean BY <1>3 DEF RecoverClean, RemoveWorktree, Git!RemoveWorktree
<1>4. CASE RecoverDone BY <1>4 DEF RecoverDone
<1>5. CASE Drain BY <1>5 DEF Drain, WithStatus
<1>6. CASE DrainDone BY <1>6 DEF DrainDone
<1>7. CASE Begin BY <1>7 DEF Begin, SetStatus, Newest
<1>8. CASE MakeWorktree BY <1>8 DEF MakeWorktree, Git!CreateWorktree
<1>9. CASE RecordExecution BY <1>9 DEF RecordExecution
<1>10. CASE ScottyTimesOut BY <1>10 DEF ScottyTimesOut
<1>11. CASE FailVacuous BY <1>11 DEF FailVacuous, Settle, SetStatus
<1>12. CASE FailRed BY <1>12 DEF FailRed, Settle, SetStatus
<1>13. CASE CommitWork BY <1>13 DEF CommitWork, Git!Commit
<1>14. CASE Propose BY <1>14 DEF Propose, SetStatus
<1>15. CASE Rescue BY <1>15 DEF Rescue, SetStatus
<1>16. CASE PruneList BY <1>16 DEF PruneList, WithStatus, Beyond
<1>17. CASE PruneOne BY <1>17 DEF PruneOne, Newest, RemoveWorktree, Git!RemoveWorktree
<1>18. CASE PruneDone BY <1>18 DEF PruneDone
<1>19. CASE ExpireList BY <1>19 DEF ExpireList, WithStatus
<1>20. CASE ExpireOne BY <1>20 DEF ExpireOne, RemoveWorktree, Git!RemoveWorktree
<1>21. CASE ExpireClear BY <1>21 DEF ExpireClear
<1>22. CASE ExpireDone BY <1>22 DEF ExpireDone
<1>23. CASE \E passed \in BOOLEAN : Baseline(passed) BY <1>23 DEF Baseline
<1>24. CASE \E passed \in BOOLEAN : Gate(passed) BY <1>24 DEF Gate
<1>25. CASE \E raised \in BOOLEAN : ScottyReturns(raised) BY <1>25 DEF ScottyReturns
<1>26. CASE \E t \in Task : StrayWrites(t) \/ StrayEnds(t)
  BY <1>26 DEF StrayWrites, StrayEnds, Stray, Git!WriteAnew
<1>27. CASE \E t \in Task : DispatchTask(t) BY <1>27 DEF DispatchTask
<1>28. CASE \E t \in Task : Wait(t) BY <1>28 DEF Wait, Row
<1>29. CASE \E r \in Request : ApproveMerge(r) BY <1>29 DEF ApproveMerge, Git!Merge
<1>30. CASE \E r \in Request : ApproveCheck(r) BY <1>30 DEF ApproveCheck
<1>31. CASE \E r \in Request : ApproveRecord(r) BY <1>31 DEF ApproveRecord
<1>32. CASE \E r \in Request : RejectReview(r) BY <1>32 DEF RejectReview
<1>33. CASE \E r \in Request : RejectCheck(r) BY <1>33 DEF RejectCheck
<1>34. CASE \E r \in Request : RejectRecord(r) BY <1>34 DEF RejectRecord
<1>35. CASE \E r \in Request : RejectPreserve(r)
  BY <1>35 DEF RejectPreserve, Git!PreserveBranch
<1>36. CASE \E r \in Request : Clean(r)
  BY <1>36 DEF Clean, RemoveWorktree, Git!RemoveWorktree
<1>37. CASE \E r \in Request : Close(r) BY <1>37 DEF Close
<1>38. CASE \E r \in Request, k \in {"approve", "reject"}, t \in Task : Open(r, k, t)
  BY <1>38 DEF Open
<1>39. CASE Crash BY <1>39 DEF Crash
<1>40. CASE Restart BY <1>40 DEF Restart
<1>41. CASE UNCHANGED vars BY <1>41
<1> QED
  BY <1>1, <1>2, <1>3, <1>4, <1>5, <1>6, <1>7, <1>8, <1>9, <1>10, <1>11,
    <1>12, <1>13, <1>14, <1>15, <1>16, <1>17, <1>18, <1>19, <1>20, <1>21,
    <1>22, <1>23, <1>24, <1>25, <1>26, <1>27, <1>28, <1>29, <1>30, <1>31,
    <1>32, <1>33, <1>34, <1>35, <1>36, <1>37, <1>38, <1>39, <1>40, <1>41 DEF
    Next, Worker, Handler

\* No handler and no second row disturbs what the worker has in hand.
LEMMA WorkerOwnsStep ==
    TypeOK /\ WorkerOwns /\ HandlerKnows /\ [Next]_vars
        => WorkerOwns'
<1> SUFFICES
     ASSUME TypeOK, WorkerOwns, HandlerKnows, [Next]_vars
     PROVE  WorkerOwns'
  OBVIOUS
<1> USE DEF TypeOK, LedgerTypeOK, WorkerTypeOK, WorkerOwns, Running, HandlerKnows,
    Reviewed, WithStatus, Git!GitTypeOK, Git!Ref, RequestRecord, vars,
    ledgerVars, repoVars, workerVars, historyVars, At, Elsewhere, NoHistory,
    WorkerAside, Serve, Goto, Answer, Idle, Fine, Fault
<1>1. CASE RecoverList BY <1>1 DEF RecoverList, WithStatus
<1>2. CASE RecoverOne
  BY <1>2 DEF RecoverOne, SetStatus, CanTransition, WriteStatus, Newest
<1>3. CASE RecoverClean BY <1>3 DEF RecoverClean, RemoveWorktree, Git!RemoveWorktree
<1>4. CASE RecoverDone BY <1>4 DEF RecoverDone
<1>5. CASE Drain BY <1>5 DEF Drain, WithStatus
<1>6. CASE DrainDone BY <1>6 DEF DrainDone
<1>7. CASE Begin BY <1>7 DEF Begin, SetStatus, CanTransition, WriteStatus, Newest
<1>8. CASE MakeWorktree BY <1>8 DEF MakeWorktree, Git!CreateWorktree
<1>9. CASE RecordExecution BY <1>9 DEF RecordExecution, SetExecution
<1>10. CASE ScottyTimesOut BY <1>10 DEF ScottyTimesOut
<1>11. CASE FailVacuous
  BY <1>11 DEF FailVacuous, Settle, SetStatus, CanTransition, WriteStatus,
    SetText
<1>12. CASE FailRed
  BY <1>12 DEF FailRed, Settle, SetStatus, CanTransition, WriteStatus,
    SetText
<1>13. CASE CommitWork BY <1>13 DEF CommitWork, Git!Commit
<1>14. CASE Propose BY <1>14 DEF Propose, SetStatus, CanTransition, WriteStatus, SetText
<1>15. CASE Rescue BY <1>15 DEF Rescue, SetStatus, CanTransition, WriteStatus, SetText
<1>16. CASE PruneList BY <1>16 DEF PruneList, WithStatus, Beyond
<1>17. CASE PruneOne BY <1>17 DEF PruneOne, Newest, RemoveWorktree, Git!RemoveWorktree
<1>18. CASE PruneDone BY <1>18 DEF PruneDone
<1>19. CASE ExpireList BY <1>19 DEF ExpireList, WithStatus
<1>20. CASE ExpireOne BY <1>20 DEF ExpireOne, RemoveWorktree, Git!RemoveWorktree
<1>21. CASE ExpireClear BY <1>21 DEF ExpireClear, ClearWorktree
<1>22. CASE ExpireDone BY <1>22 DEF ExpireDone
<1>23. CASE \E passed \in BOOLEAN : Baseline(passed) BY <1>23 DEF Baseline
<1>24. CASE \E passed \in BOOLEAN : Gate(passed) BY <1>24 DEF Gate
<1>25. CASE \E raised \in BOOLEAN : ScottyReturns(raised) BY <1>25 DEF ScottyReturns
<1>26. CASE \E t \in Task : StrayWrites(t) \/ StrayEnds(t)
  BY <1>26 DEF StrayWrites, StrayEnds, Stray, Git!WriteAnew
<1>27. CASE \E t \in Task : DispatchTask(t) BY <1>27 DEF DispatchTask, CreateTask
<1>28. CASE \E t \in Task : Wait(t) BY <1>28 DEF Wait, Age, Row
<1>29. CASE \E r \in Request : ApproveMerge(r) BY <1>29 DEF ApproveMerge, Git!Merge
<1>30. CASE \E r \in Request : ApproveCheck(r) BY <1>30 DEF ApproveCheck
<1>31. CASE \E r \in Request : ApproveRecord(r) BY <1>31 DEF ApproveRecord, WriteStatus
<1>32. CASE \E r \in Request : RejectReview(r) BY <1>32 DEF RejectReview, SetText
<1>33. CASE \E r \in Request : RejectCheck(r) BY <1>33 DEF RejectCheck
<1>34. CASE \E r \in Request : RejectRecord(r) BY <1>34 DEF RejectRecord, WriteStatus
<1>35. CASE \E r \in Request : RejectPreserve(r)
  BY <1>35 DEF RejectPreserve, Git!PreserveBranch
<1>36. CASE \E r \in Request : Clean(r)
  BY <1>36 DEF Clean, RemoveWorktree, Git!RemoveWorktree
<1>37. CASE \E r \in Request : Close(r) BY <1>37 DEF Close
<1>38. CASE \E r \in Request, k \in {"approve", "reject"}, t \in Task : Open(r, k, t)
  BY <1>38 DEF Open
<1>39. CASE Crash BY <1>39 DEF Crash
<1>40. CASE Restart BY <1>40 DEF Restart
<1>41. CASE UNCHANGED vars BY <1>41
<1> QED
  BY <1>1, <1>2, <1>3, <1>4, <1>5, <1>6, <1>7, <1>8, <1>9, <1>10, <1>11,
    <1>12, <1>13, <1>14, <1>15, <1>16, <1>17, <1>18, <1>19, <1>20, <1>21,
    <1>22, <1>23, <1>24, <1>25, <1>26, <1>27, <1>28, <1>29, <1>30, <1>31,
    <1>32, <1>33, <1>34, <1>35, <1>36, <1>37, <1>38, <1>39, <1>40, <1>41 DEF
    Next, Worker, Handler

\* Neither the worker nor another handler undoes what a handler relies on.
LEMMA HandlerKnowsStep ==
    TypeOK /\ WorkerOwns /\ HandlerKnows /\ ProposedIsCommitted /\ [Next]_vars
        => HandlerKnows'
<1> SUFFICES
     ASSUME TypeOK, WorkerOwns, HandlerKnows, ProposedIsCommitted, [Next]_vars
     PROVE  HandlerKnows'
  OBVIOUS
<1> USE DEF TypeOK, LedgerTypeOK, WorkerTypeOK, WorkerOwns, Running, HandlerKnows,
    Reviewed, WithStatus, Git!GitTypeOK, Git!Ref, RequestRecord,
    ProposedIsCommitted, Terminal, HistoryTypeOK, vars, ledgerVars, repoVars,
    workerVars, historyVars, At, Elsewhere, NoHistory, WorkerAside, Serve,
    Goto, Answer, Idle, Fine, Fault
<1>1. CASE RecoverList BY <1>1 DEF RecoverList, WithStatus
<1>2. CASE RecoverOne
  BY <1>2 DEF RecoverOne, SetStatus, CanTransition, WriteStatus, Newest
<1>3. CASE RecoverClean BY <1>3 DEF RecoverClean, RemoveWorktree, Git!RemoveWorktree
<1>4. CASE RecoverDone BY <1>4 DEF RecoverDone
<1>5. CASE Drain BY <1>5 DEF Drain, WithStatus
<1>6. CASE DrainDone BY <1>6 DEF DrainDone
<1>7. CASE Begin BY <1>7 DEF Begin, SetStatus, CanTransition, WriteStatus, Newest
<1>8. CASE MakeWorktree BY <1>8 DEF MakeWorktree, Git!CreateWorktree
<1>9. CASE RecordExecution BY <1>9 DEF RecordExecution, SetExecution
<1>10. CASE ScottyTimesOut BY <1>10 DEF ScottyTimesOut
<1>11. CASE FailVacuous
  BY <1>11 DEF FailVacuous, Settle, SetStatus, CanTransition, WriteStatus,
    SetText
<1>12. CASE FailRed
  BY <1>12 DEF FailRed, Settle, SetStatus, CanTransition, WriteStatus,
    SetText
<1>13. CASE CommitWork BY <1>13 DEF CommitWork, Git!Commit
<1>14. CASE Propose BY <1>14 DEF Propose, SetStatus, CanTransition, WriteStatus, SetText
<1>15. CASE Rescue BY <1>15 DEF Rescue, SetStatus, CanTransition, WriteStatus, SetText
<1>16. CASE PruneList BY <1>16 DEF PruneList, WithStatus, Beyond
<1>17. CASE PruneOne BY <1>17 DEF PruneOne, Newest, RemoveWorktree, Git!RemoveWorktree
<1>18. CASE PruneDone BY <1>18 DEF PruneDone
<1>19. CASE ExpireList BY <1>19 DEF ExpireList, WithStatus
<1>20. CASE ExpireOne BY <1>20 DEF ExpireOne, RemoveWorktree, Git!RemoveWorktree
<1>21. CASE ExpireClear BY <1>21 DEF ExpireClear, ClearWorktree
<1>22. CASE ExpireDone BY <1>22 DEF ExpireDone
<1>23. CASE \E passed \in BOOLEAN : Baseline(passed) BY <1>23 DEF Baseline
<1>24. CASE \E passed \in BOOLEAN : Gate(passed) BY <1>24 DEF Gate
<1>25. CASE \E raised \in BOOLEAN : ScottyReturns(raised) BY <1>25 DEF ScottyReturns
<1>26. CASE \E t \in Task : StrayWrites(t) \/ StrayEnds(t)
  BY <1>26 DEF StrayWrites, StrayEnds, Stray, Git!WriteAnew
<1>27. CASE \E t \in Task : DispatchTask(t) BY <1>27 DEF DispatchTask, CreateTask
<1>28. CASE \E t \in Task : Wait(t) BY <1>28 DEF Wait, Age, Row
<1>29. CASE \E r \in Request : ApproveMerge(r) BY <1>29 DEF ApproveMerge, Git!Merge
<1>30. CASE \E r \in Request : ApproveCheck(r) BY <1>30 DEF ApproveCheck
<1>31. CASE \E r \in Request : ApproveRecord(r) BY <1>31 DEF ApproveRecord, WriteStatus
<1>32. CASE \E r \in Request : RejectReview(r) BY <1>32 DEF RejectReview, SetText
<1>33. CASE \E r \in Request : RejectCheck(r)
  BY <1>33 DEF RejectCheck, CanTransition, Legal
<1>34. CASE \E r \in Request : RejectRecord(r) BY <1>34 DEF RejectRecord, WriteStatus
<1>35. CASE \E r \in Request : RejectPreserve(r)
  BY <1>35 DEF RejectPreserve, Git!PreserveBranch
<1>36. CASE \E r \in Request : Clean(r)
  BY <1>36 DEF Clean, RemoveWorktree, Git!RemoveWorktree
<1>37. CASE \E r \in Request : Close(r) BY <1>37 DEF Close
<1>38. CASE \E r \in Request, k \in {"approve", "reject"}, t \in Task : Open(r, k, t)
  BY <1>38 DEF Open
<1>39. CASE Crash BY <1>39 DEF Crash
<1>40. CASE Restart BY <1>40 DEF Restart
<1>41. CASE UNCHANGED vars BY <1>41
<1> QED
  BY <1>1, <1>2, <1>3, <1>4, <1>5, <1>6, <1>7, <1>8, <1>9, <1>10, <1>11,
    <1>12, <1>13, <1>14, <1>15, <1>16, <1>17, <1>18, <1>19, <1>20, <1>21,
    <1>22, <1>23, <1>24, <1>25, <1>26, <1>27, <1>28, <1>29, <1>30, <1>31,
    <1>32, <1>33, <1>34, <1>35, <1>36, <1>37, <1>38, <1>39, <1>40, <1>41 DEF
    Next, Worker, Handler

\* A branch under review never moves back to its base.
LEMMA CommittedStep ==
    TypeOK /\ WorkerOwns /\ HandlerKnows /\ ProposedIsCommitted /\ [Next]_vars
        => ProposedIsCommitted'
<1> SUFFICES
     ASSUME TypeOK, WorkerOwns, HandlerKnows, ProposedIsCommitted, [Next]_vars
     PROVE  ProposedIsCommitted'
  OBVIOUS
<1> USE DEF TypeOK, LedgerTypeOK, WorkerTypeOK, WorkerOwns, Running, HandlerKnows,
    Reviewed, WithStatus, Git!GitTypeOK, Git!Ref, RequestRecord,
    ProposedIsCommitted, vars, ledgerVars, repoVars, workerVars, historyVars,
    At, Elsewhere, NoHistory, WorkerAside, Serve, Goto, Answer, Idle, Fine,
    Fault
<1>1. CASE RecoverList BY <1>1 DEF RecoverList, WithStatus
<1>2. CASE RecoverOne
  BY <1>2 DEF RecoverOne, SetStatus, CanTransition, WriteStatus, Newest
<1>3. CASE RecoverClean BY <1>3 DEF RecoverClean, RemoveWorktree, Git!RemoveWorktree
<1>4. CASE RecoverDone BY <1>4 DEF RecoverDone
<1>5. CASE Drain BY <1>5 DEF Drain, WithStatus
<1>6. CASE DrainDone BY <1>6 DEF DrainDone
<1>7. CASE Begin BY <1>7 DEF Begin, SetStatus, CanTransition, WriteStatus, Newest
<1>8. CASE MakeWorktree BY <1>8 DEF MakeWorktree, Git!CreateWorktree
<1>9. CASE RecordExecution BY <1>9 DEF RecordExecution, SetExecution
<1>10. CASE ScottyTimesOut BY <1>10 DEF ScottyTimesOut
<1>11. CASE FailVacuous
  BY <1>11 DEF FailVacuous, Settle, SetStatus, CanTransition, WriteStatus,
    SetText
<1>12. CASE FailRed
  BY <1>12 DEF FailRed, Settle, SetStatus, CanTransition, WriteStatus,
    SetText
<1>13. CASE CommitWork BY <1>13 DEF CommitWork, Git!Commit
<1>14. CASE Propose BY <1>14 DEF Propose, SetStatus, CanTransition, WriteStatus, SetText
<1>15. CASE Rescue BY <1>15 DEF Rescue, SetStatus, CanTransition, WriteStatus, SetText
<1>16. CASE PruneList BY <1>16 DEF PruneList, WithStatus, Beyond
<1>17. CASE PruneOne BY <1>17 DEF PruneOne, Newest, RemoveWorktree, Git!RemoveWorktree
<1>18. CASE PruneDone BY <1>18 DEF PruneDone
<1>19. CASE ExpireList BY <1>19 DEF ExpireList, WithStatus
<1>20. CASE ExpireOne BY <1>20 DEF ExpireOne, RemoveWorktree, Git!RemoveWorktree
<1>21. CASE ExpireClear BY <1>21 DEF ExpireClear, ClearWorktree
<1>22. CASE ExpireDone BY <1>22 DEF ExpireDone
<1>23. CASE \E passed \in BOOLEAN : Baseline(passed) BY <1>23 DEF Baseline
<1>24. CASE \E passed \in BOOLEAN : Gate(passed) BY <1>24 DEF Gate
<1>25. CASE \E raised \in BOOLEAN : ScottyReturns(raised) BY <1>25 DEF ScottyReturns
<1>26. CASE \E t \in Task : StrayWrites(t) \/ StrayEnds(t)
  BY <1>26 DEF StrayWrites, StrayEnds, Stray, Git!WriteAnew
<1>27. CASE \E t \in Task : DispatchTask(t) BY <1>27 DEF DispatchTask, CreateTask
<1>28. CASE \E t \in Task : Wait(t) BY <1>28 DEF Wait, Age, Row
<1>29. CASE \E r \in Request : ApproveMerge(r) BY <1>29 DEF ApproveMerge, Git!Merge
<1>30. CASE \E r \in Request : ApproveCheck(r) BY <1>30 DEF ApproveCheck
<1>31. CASE \E r \in Request : ApproveRecord(r) BY <1>31 DEF ApproveRecord, WriteStatus
<1>32. CASE \E r \in Request : RejectReview(r) BY <1>32 DEF RejectReview, SetText
<1>33. CASE \E r \in Request : RejectCheck(r) BY <1>33 DEF RejectCheck
<1>34. CASE \E r \in Request : RejectRecord(r) BY <1>34 DEF RejectRecord, WriteStatus
<1>35. CASE \E r \in Request : RejectPreserve(r)
  BY <1>35 DEF RejectPreserve, Git!PreserveBranch
<1>36. CASE \E r \in Request : Clean(r)
  BY <1>36 DEF Clean, RemoveWorktree, Git!RemoveWorktree
<1>37. CASE \E r \in Request : Close(r) BY <1>37 DEF Close
<1>38. CASE \E r \in Request, k \in {"approve", "reject"}, t \in Task : Open(r, k, t)
  BY <1>38 DEF Open
<1>39. CASE Crash BY <1>39 DEF Crash
<1>40. CASE Restart BY <1>40 DEF Restart
<1>41. CASE UNCHANGED vars BY <1>41
<1> QED
  BY <1>1, <1>2, <1>3, <1>4, <1>5, <1>6, <1>7, <1>8, <1>9, <1>10, <1>11,
    <1>12, <1>13, <1>14, <1>15, <1>16, <1>17, <1>18, <1>19, <1>20, <1>21,
    <1>22, <1>23, <1>24, <1>25, <1>26, <1>27, <1>28, <1>29, <1>30, <1>31,
    <1>32, <1>33, <1>34, <1>35, <1>36, <1>37, <1>38, <1>39, <1>40, <1>41 DEF
    Next, Worker, Handler

\* The worker lets go of a row only when it has recorded its end.
LEMMA AttendedStep ==
    TypeOK /\ WorkerOwns /\ HandlerKnows /\ Attended /\ [Next]_vars
        => Attended'
<1> SUFFICES
     ASSUME TypeOK, WorkerOwns, HandlerKnows, Attended, [Next]_vars
     PROVE  Attended'
  OBVIOUS
<1> USE DEF TypeOK, LedgerTypeOK, WorkerTypeOK, WorkerOwns, Running, HandlerKnows,
    Reviewed, WithStatus, Git!GitTypeOK, Git!Ref, RequestRecord, Attended,
    HistoryTypeOK, vars, ledgerVars, repoVars, workerVars, historyVars, At,
    Elsewhere, NoHistory, WorkerAside, Serve, Goto, Answer, Idle, Fine, Fault
<1>1. CASE RecoverList BY <1>1 DEF RecoverList, WithStatus
<1>2. CASE RecoverOne
  BY <1>2 DEF RecoverOne, SetStatus, CanTransition, WriteStatus, Newest
<1>3. CASE RecoverClean BY <1>3 DEF RecoverClean, RemoveWorktree, Git!RemoveWorktree
<1>4. CASE RecoverDone BY <1>4 DEF RecoverDone
<1>5. CASE Drain BY <1>5 DEF Drain, WithStatus
<1>6. CASE DrainDone BY <1>6 DEF DrainDone
<1>7. CASE Begin BY <1>7 DEF Begin, SetStatus, CanTransition, WriteStatus, Newest
<1>8. CASE MakeWorktree BY <1>8 DEF MakeWorktree, Git!CreateWorktree
<1>9. CASE RecordExecution BY <1>9 DEF RecordExecution, SetExecution
<1>10. CASE ScottyTimesOut BY <1>10 DEF ScottyTimesOut
<1>11. CASE FailVacuous
  BY <1>11 DEF FailVacuous, Settle, SetStatus, CanTransition, WriteStatus,
    SetText
<1>12. CASE FailRed
  BY <1>12 DEF FailRed, Settle, SetStatus, CanTransition, WriteStatus,
    SetText
<1>13. CASE CommitWork BY <1>13 DEF CommitWork, Git!Commit
<1>14. CASE Propose BY <1>14 DEF Propose, SetStatus, CanTransition, WriteStatus, SetText
<1>15. CASE Rescue BY <1>15 DEF Rescue, SetStatus, CanTransition, WriteStatus, SetText
<1>16. CASE PruneList BY <1>16 DEF PruneList, WithStatus, Beyond
<1>17. CASE PruneOne BY <1>17 DEF PruneOne, Newest, RemoveWorktree, Git!RemoveWorktree
<1>18. CASE PruneDone BY <1>18 DEF PruneDone
<1>19. CASE ExpireList BY <1>19 DEF ExpireList, WithStatus
<1>20. CASE ExpireOne BY <1>20 DEF ExpireOne, RemoveWorktree, Git!RemoveWorktree
<1>21. CASE ExpireClear BY <1>21 DEF ExpireClear, ClearWorktree
<1>22. CASE ExpireDone BY <1>22 DEF ExpireDone
<1>23. CASE \E passed \in BOOLEAN : Baseline(passed) BY <1>23 DEF Baseline
<1>24. CASE \E passed \in BOOLEAN : Gate(passed) BY <1>24 DEF Gate
<1>25. CASE \E raised \in BOOLEAN : ScottyReturns(raised) BY <1>25 DEF ScottyReturns
<1>26. CASE \E t \in Task : StrayWrites(t) \/ StrayEnds(t)
  BY <1>26 DEF StrayWrites, StrayEnds, Stray, Git!WriteAnew
<1>27. CASE \E t \in Task : DispatchTask(t) BY <1>27 DEF DispatchTask, CreateTask
<1>28. CASE \E t \in Task : Wait(t) BY <1>28 DEF Wait, Age, Row
<1>29. CASE \E r \in Request : ApproveMerge(r) BY <1>29 DEF ApproveMerge, Git!Merge
<1>30. CASE \E r \in Request : ApproveCheck(r) BY <1>30 DEF ApproveCheck
<1>31. CASE \E r \in Request : ApproveRecord(r) BY <1>31 DEF ApproveRecord, WriteStatus
<1>32. CASE \E r \in Request : RejectReview(r) BY <1>32 DEF RejectReview, SetText
<1>33. CASE \E r \in Request : RejectCheck(r) BY <1>33 DEF RejectCheck
<1>34. CASE \E r \in Request : RejectRecord(r) BY <1>34 DEF RejectRecord, WriteStatus
<1>35. CASE \E r \in Request : RejectPreserve(r)
  BY <1>35 DEF RejectPreserve, Git!PreserveBranch
<1>36. CASE \E r \in Request : Clean(r)
  BY <1>36 DEF Clean, RemoveWorktree, Git!RemoveWorktree
<1>37. CASE \E r \in Request : Close(r) BY <1>37 DEF Close
<1>38. CASE \E r \in Request, k \in {"approve", "reject"}, t \in Task : Open(r, k, t)
  BY <1>38 DEF Open
<1>39. CASE Crash BY <1>39 DEF Crash
<1>40. CASE Restart BY <1>40 DEF Restart
<1>41. CASE UNCHANGED vars BY <1>41
<1> QED
  BY <1>1, <1>2, <1>3, <1>4, <1>5, <1>6, <1>7, <1>8, <1>9, <1>10, <1>11,
    <1>12, <1>13, <1>14, <1>15, <1>16, <1>17, <1>18, <1>19, <1>20, <1>21,
    <1>22, <1>23, <1>24, <1>25, <1>26, <1>27, <1>28, <1>29, <1>30, <1>31,
    <1>32, <1>33, <1>34, <1>35, <1>36, <1>37, <1>38, <1>39, <1>40, <1>41 DEF
    Next, Worker, Handler

\* Landed rows stay merged and become so only after the merge.
LEMMA LandedStep ==
    TypeOK /\ WorkerOwns /\ HandlerKnows /\ ProposedIsCommitted /\
    LandedIsMerged /\ [Next]_vars
        => LandedIsMerged'
<1> SUFFICES
     ASSUME TypeOK, WorkerOwns, HandlerKnows, ProposedIsCommitted,
            LandedIsMerged, [Next]_vars
     PROVE  LandedIsMerged'
  OBVIOUS
<1> USE DEF TypeOK, LedgerTypeOK, WorkerTypeOK, WorkerOwns, Running, HandlerKnows,
    Reviewed, WithStatus, Git!GitTypeOK, Git!Ref, RequestRecord,
    LandedIsMerged, vars, ledgerVars, repoVars, workerVars, historyVars, At,
    Elsewhere, NoHistory, WorkerAside, Serve, Goto, Answer, Idle, Fine, Fault
<1>1. CASE RecoverList BY <1>1 DEF RecoverList, WithStatus
<1>2. CASE RecoverOne
  BY <1>2 DEF RecoverOne, SetStatus, CanTransition, WriteStatus, Newest
<1>3. CASE RecoverClean BY <1>3 DEF RecoverClean, RemoveWorktree, Git!RemoveWorktree
<1>4. CASE RecoverDone BY <1>4 DEF RecoverDone
<1>5. CASE Drain BY <1>5 DEF Drain, WithStatus
<1>6. CASE DrainDone BY <1>6 DEF DrainDone
<1>7. CASE Begin BY <1>7 DEF Begin, SetStatus, CanTransition, WriteStatus, Newest
<1>8. CASE MakeWorktree BY <1>8 DEF MakeWorktree, Git!CreateWorktree
<1>9. CASE RecordExecution BY <1>9 DEF RecordExecution, SetExecution
<1>10. CASE ScottyTimesOut BY <1>10 DEF ScottyTimesOut
<1>11. CASE FailVacuous
  BY <1>11 DEF FailVacuous, Settle, SetStatus, CanTransition, WriteStatus,
    SetText
<1>12. CASE FailRed
  BY <1>12 DEF FailRed, Settle, SetStatus, CanTransition, WriteStatus,
    SetText
<1>13. CASE CommitWork BY <1>13 DEF CommitWork, Git!Commit
<1>14. CASE Propose BY <1>14 DEF Propose, SetStatus, CanTransition, WriteStatus, SetText
<1>15. CASE Rescue BY <1>15 DEF Rescue, SetStatus, CanTransition, WriteStatus, SetText
<1>16. CASE PruneList BY <1>16 DEF PruneList, WithStatus, Beyond
<1>17. CASE PruneOne BY <1>17 DEF PruneOne, Newest, RemoveWorktree, Git!RemoveWorktree
<1>18. CASE PruneDone BY <1>18 DEF PruneDone
<1>19. CASE ExpireList BY <1>19 DEF ExpireList, WithStatus
<1>20. CASE ExpireOne BY <1>20 DEF ExpireOne, RemoveWorktree, Git!RemoveWorktree
<1>21. CASE ExpireClear BY <1>21 DEF ExpireClear, ClearWorktree
<1>22. CASE ExpireDone BY <1>22 DEF ExpireDone
<1>23. CASE \E passed \in BOOLEAN : Baseline(passed) BY <1>23 DEF Baseline
<1>24. CASE \E passed \in BOOLEAN : Gate(passed) BY <1>24 DEF Gate
<1>25. CASE \E raised \in BOOLEAN : ScottyReturns(raised) BY <1>25 DEF ScottyReturns
<1>26. CASE \E t \in Task : StrayWrites(t) \/ StrayEnds(t)
  BY <1>26 DEF StrayWrites, StrayEnds, Stray, Git!WriteAnew
<1>27. CASE \E t \in Task : DispatchTask(t) BY <1>27 DEF DispatchTask, CreateTask
<1>28. CASE \E t \in Task : Wait(t) BY <1>28 DEF Wait, Age, Row
<1>29. CASE \E r \in Request : ApproveMerge(r) BY <1>29 DEF ApproveMerge, Git!Merge
<1>30. CASE \E r \in Request : ApproveCheck(r) BY <1>30 DEF ApproveCheck
<1>31. CASE \E r \in Request : ApproveRecord(r) BY <1>31 DEF ApproveRecord, WriteStatus
<1>32. CASE \E r \in Request : RejectReview(r) BY <1>32 DEF RejectReview, SetText
<1>33. CASE \E r \in Request : RejectCheck(r) BY <1>33 DEF RejectCheck
<1>34. CASE \E r \in Request : RejectRecord(r) BY <1>34 DEF RejectRecord, WriteStatus
<1>35. CASE \E r \in Request : RejectPreserve(r)
  BY <1>35 DEF RejectPreserve, Git!PreserveBranch
<1>36. CASE \E r \in Request : Clean(r)
  BY <1>36 DEF Clean, RemoveWorktree, Git!RemoveWorktree
<1>37. CASE \E r \in Request : Close(r) BY <1>37 DEF Close
<1>38. CASE \E r \in Request, k \in {"approve", "reject"}, t \in Task : Open(r, k, t)
  BY <1>38 DEF Open
<1>39. CASE Crash BY <1>39 DEF Crash
<1>40. CASE Restart BY <1>40 DEF Restart
<1>41. CASE UNCHANGED vars BY <1>41
<1> QED
  BY <1>1, <1>2, <1>3, <1>4, <1>5, <1>6, <1>7, <1>8, <1>9, <1>10, <1>11,
    <1>12, <1>13, <1>14, <1>15, <1>16, <1>17, <1>18, <1>19, <1>20, <1>21,
    <1>22, <1>23, <1>24, <1>25, <1>26, <1>27, <1>28, <1>29, <1>30, <1>31,
    <1>32, <1>33, <1>34, <1>35, <1>36, <1>37, <1>38, <1>39, <1>40, <1>41 DEF
    Next, Worker, Handler

\* Only a reviewed task reaches main, and it stays reviewed.
LEMMA MergedStep ==
    TypeOK /\ WorkerOwns /\ HandlerKnows /\ ProposedIsCommitted /\
    MergedWasProposed /\ [Next]_vars
        => MergedWasProposed'
<1> SUFFICES
     ASSUME TypeOK, WorkerOwns, HandlerKnows, ProposedIsCommitted,
            MergedWasProposed, [Next]_vars
     PROVE  MergedWasProposed'
  OBVIOUS
<1> USE DEF TypeOK, LedgerTypeOK, WorkerTypeOK, WorkerOwns, Running, HandlerKnows,
    Reviewed, WithStatus, Git!GitTypeOK, Git!Ref, RequestRecord,
    MergedWasProposed, vars, ledgerVars, repoVars, workerVars, historyVars,
    At, Elsewhere, NoHistory, WorkerAside, Serve, Goto, Answer, Idle, Fine,
    Fault
<1>1. CASE RecoverList BY <1>1 DEF RecoverList, WithStatus
<1>2. CASE RecoverOne
  BY <1>2 DEF RecoverOne, SetStatus, CanTransition, WriteStatus, Newest
<1>3. CASE RecoverClean BY <1>3 DEF RecoverClean, RemoveWorktree, Git!RemoveWorktree
<1>4. CASE RecoverDone BY <1>4 DEF RecoverDone
<1>5. CASE Drain BY <1>5 DEF Drain, WithStatus
<1>6. CASE DrainDone BY <1>6 DEF DrainDone
<1>7. CASE Begin BY <1>7 DEF Begin, SetStatus, CanTransition, WriteStatus, Newest
<1>8. CASE MakeWorktree BY <1>8 DEF MakeWorktree, Git!CreateWorktree
<1>9. CASE RecordExecution BY <1>9 DEF RecordExecution, SetExecution
<1>10. CASE ScottyTimesOut BY <1>10 DEF ScottyTimesOut
<1>11. CASE FailVacuous
  BY <1>11 DEF FailVacuous, Settle, SetStatus, CanTransition, WriteStatus,
    SetText
<1>12. CASE FailRed
  BY <1>12 DEF FailRed, Settle, SetStatus, CanTransition, WriteStatus,
    SetText
<1>13. CASE CommitWork BY <1>13 DEF CommitWork, Git!Commit
<1>14. CASE Propose BY <1>14 DEF Propose, SetStatus, CanTransition, WriteStatus, SetText
<1>15. CASE Rescue BY <1>15 DEF Rescue, SetStatus, CanTransition, WriteStatus, SetText
<1>16. CASE PruneList BY <1>16 DEF PruneList, WithStatus, Beyond
<1>17. CASE PruneOne BY <1>17 DEF PruneOne, Newest, RemoveWorktree, Git!RemoveWorktree
<1>18. CASE PruneDone BY <1>18 DEF PruneDone
<1>19. CASE ExpireList BY <1>19 DEF ExpireList, WithStatus
<1>20. CASE ExpireOne BY <1>20 DEF ExpireOne, RemoveWorktree, Git!RemoveWorktree
<1>21. CASE ExpireClear BY <1>21 DEF ExpireClear, ClearWorktree
<1>22. CASE ExpireDone BY <1>22 DEF ExpireDone
<1>23. CASE \E passed \in BOOLEAN : Baseline(passed) BY <1>23 DEF Baseline
<1>24. CASE \E passed \in BOOLEAN : Gate(passed) BY <1>24 DEF Gate
<1>25. CASE \E raised \in BOOLEAN : ScottyReturns(raised) BY <1>25 DEF ScottyReturns
<1>26. CASE \E t \in Task : StrayWrites(t) \/ StrayEnds(t)
  BY <1>26 DEF StrayWrites, StrayEnds, Stray, Git!WriteAnew
<1>27. CASE \E t \in Task : DispatchTask(t) BY <1>27 DEF DispatchTask, CreateTask
<1>28. CASE \E t \in Task : Wait(t) BY <1>28 DEF Wait, Age, Row
<1>29. CASE \E r \in Request : ApproveMerge(r) BY <1>29 DEF ApproveMerge, Git!Merge
<1>30. CASE \E r \in Request : ApproveCheck(r) BY <1>30 DEF ApproveCheck
<1>31. CASE \E r \in Request : ApproveRecord(r) BY <1>31 DEF ApproveRecord, WriteStatus
<1>32. CASE \E r \in Request : RejectReview(r) BY <1>32 DEF RejectReview, SetText
<1>33. CASE \E r \in Request : RejectCheck(r) BY <1>33 DEF RejectCheck
<1>34. CASE \E r \in Request : RejectRecord(r) BY <1>34 DEF RejectRecord, WriteStatus
<1>35. CASE \E r \in Request : RejectPreserve(r)
  BY <1>35 DEF RejectPreserve, Git!PreserveBranch
<1>36. CASE \E r \in Request : Clean(r)
  BY <1>36 DEF Clean, RemoveWorktree, Git!RemoveWorktree
<1>37. CASE \E r \in Request : Close(r) BY <1>37 DEF Close
<1>38. CASE \E r \in Request, k \in {"approve", "reject"}, t \in Task : Open(r, k, t)
  BY <1>38 DEF Open
<1>39. CASE Crash BY <1>39 DEF Crash
<1>40. CASE Restart BY <1>40 DEF Restart
<1>41. CASE UNCHANGED vars BY <1>41
<1> QED
  BY <1>1, <1>2, <1>3, <1>4, <1>5, <1>6, <1>7, <1>8, <1>9, <1>10, <1>11,
    <1>12, <1>13, <1>14, <1>15, <1>16, <1>17, <1>18, <1>19, <1>20, <1>21,
    <1>22, <1>23, <1>24, <1>25, <1>26, <1>27, <1>28, <1>29, <1>30, <1>31,
    <1>32, <1>33, <1>34, <1>35, <1>36, <1>37, <1>38, <1>39, <1>40, <1>41 DEF
    Next, Worker, Handler

\* Whoever removes a branch has tagged or merged it, or is allowed to.
LEMMA SurvivesStep ==
    TypeOK /\ WorkerOwns /\ HandlerKnows /\ ProposedIsCommitted /\
    WorkSurvives /\ [Next]_vars
        => WorkSurvives'
<1> SUFFICES
     ASSUME TypeOK, WorkerOwns, HandlerKnows, ProposedIsCommitted,
            WorkSurvives, [Next]_vars
     PROVE  WorkSurvives'
  OBVIOUS
<1> USE DEF TypeOK, LedgerTypeOK, WorkerTypeOK, WorkerOwns, Running, HandlerKnows,
    Reviewed, WithStatus, Git!GitTypeOK, Git!Ref, RequestRecord,
    ProposedIsCommitted, WorkSurvives, HistoryTypeOK, vars, ledgerVars,
    repoVars, workerVars, historyVars, At, Elsewhere, NoHistory, WorkerAside,
    Serve, Goto, Answer, Idle, Fine, Fault
<1>1. CASE RecoverList BY <1>1 DEF RecoverList, WithStatus
<1>2. CASE RecoverOne
  BY <1>2 DEF RecoverOne, SetStatus, CanTransition, WriteStatus, Newest
<1>3. CASE RecoverClean BY <1>3 DEF RecoverClean, RemoveWorktree, Git!RemoveWorktree
<1>4. CASE RecoverDone BY <1>4 DEF RecoverDone
<1>5. CASE Drain BY <1>5 DEF Drain, WithStatus
<1>6. CASE DrainDone BY <1>6 DEF DrainDone
<1>7. CASE Begin BY <1>7 DEF Begin, SetStatus, CanTransition, WriteStatus, Newest
<1>8. CASE MakeWorktree BY <1>8 DEF MakeWorktree, Git!CreateWorktree
<1>9. CASE RecordExecution BY <1>9 DEF RecordExecution, SetExecution
<1>10. CASE ScottyTimesOut BY <1>10 DEF ScottyTimesOut
<1>11. CASE FailVacuous
  BY <1>11 DEF FailVacuous, Settle, SetStatus, CanTransition, WriteStatus,
    SetText
<1>12. CASE FailRed
  BY <1>12 DEF FailRed, Settle, SetStatus, CanTransition, WriteStatus,
    SetText
<1>13. CASE CommitWork BY <1>13 DEF CommitWork, Git!Commit
<1>14. CASE Propose BY <1>14 DEF Propose, SetStatus, CanTransition, WriteStatus, SetText
<1>15. CASE Rescue BY <1>15 DEF Rescue, SetStatus, CanTransition, WriteStatus, SetText
<1>16. CASE PruneList BY <1>16 DEF PruneList, WithStatus, Beyond
<1>17. CASE PruneOne BY <1>17 DEF PruneOne, Newest, RemoveWorktree, Git!RemoveWorktree
<1>18. CASE PruneDone BY <1>18 DEF PruneDone
<1>19. CASE ExpireList BY <1>19 DEF ExpireList, WithStatus
<1>20. CASE ExpireOne BY <1>20 DEF ExpireOne, RemoveWorktree, Git!RemoveWorktree
<1>21. CASE ExpireClear BY <1>21 DEF ExpireClear, ClearWorktree
<1>22. CASE ExpireDone BY <1>22 DEF ExpireDone
<1>23. CASE \E passed \in BOOLEAN : Baseline(passed) BY <1>23 DEF Baseline
<1>24. CASE \E passed \in BOOLEAN : Gate(passed) BY <1>24 DEF Gate
<1>25. CASE \E raised \in BOOLEAN : ScottyReturns(raised) BY <1>25 DEF ScottyReturns
<1>26. CASE \E t \in Task : StrayWrites(t) \/ StrayEnds(t)
  BY <1>26 DEF StrayWrites, StrayEnds, Stray, Git!WriteAnew
<1>27. CASE \E t \in Task : DispatchTask(t) BY <1>27 DEF DispatchTask, CreateTask
<1>28. CASE \E t \in Task : Wait(t) BY <1>28 DEF Wait, Age, Row
<1>29. CASE \E r \in Request : ApproveMerge(r) BY <1>29 DEF ApproveMerge, Git!Merge
<1>30. CASE \E r \in Request : ApproveCheck(r) BY <1>30 DEF ApproveCheck
<1>31. CASE \E r \in Request : ApproveRecord(r) BY <1>31 DEF ApproveRecord, WriteStatus
<1>32. CASE \E r \in Request : RejectReview(r) BY <1>32 DEF RejectReview, SetText
<1>33. CASE \E r \in Request : RejectCheck(r) BY <1>33 DEF RejectCheck
<1>34. CASE \E r \in Request : RejectRecord(r) BY <1>34 DEF RejectRecord, WriteStatus
<1>35. CASE \E r \in Request : RejectPreserve(r)
  BY <1>35 DEF RejectPreserve, Git!PreserveBranch
<1>36. CASE \E r \in Request : Clean(r)
  BY <1>36 DEF Clean, RemoveWorktree, Git!RemoveWorktree
<1>37. CASE \E r \in Request : Close(r) BY <1>37 DEF Close
<1>38. CASE \E r \in Request, k \in {"approve", "reject"}, t \in Task : Open(r, k, t)
  BY <1>38 DEF Open
<1>39. CASE Crash BY <1>39 DEF Crash
<1>40. CASE Restart BY <1>40 DEF Restart
<1>41. CASE UNCHANGED vars BY <1>41
<1> QED
  BY <1>1, <1>2, <1>3, <1>4, <1>5, <1>6, <1>7, <1>8, <1>9, <1>10, <1>11,
    <1>12, <1>13, <1>14, <1>15, <1>16, <1>17, <1>18, <1>19, <1>20, <1>21,
    <1>22, <1>23, <1>24, <1>25, <1>26, <1>27, <1>28, <1>29, <1>30, <1>31,
    <1>32, <1>33, <1>34, <1>35, <1>36, <1>37, <1>38, <1>39, <1>40, <1>41 DEF
    Next, Worker, Handler

\* An abandoned Scotty belongs to a task that fails, and without faults the
\* branch of a task in review goes only with its decision.
LEMMA ProposalStep ==
    TypeOK /\ WorkerOwns /\ HandlerKnows /\ ProposedIsCommitted /\
    ProposalStands /\ [Next]_vars
        => ProposalStands'
<1> SUFFICES
     ASSUME TypeOK, WorkerOwns, HandlerKnows, ProposedIsCommitted,
            ProposalStands, [Next]_vars
     PROVE  ProposalStands'
  OBVIOUS
<1> USE DEF TypeOK, LedgerTypeOK, WorkerTypeOK, WorkerOwns, Running, HandlerKnows,
    Reviewed, WithStatus, Git!GitTypeOK, Git!Ref, RequestRecord,
    ProposalStands, HistoryTypeOK, vars, ledgerVars, repoVars,
    workerVars, historyVars, At, Elsewhere, NoHistory, WorkerAside, Serve,
    Goto, Answer, Idle, Fine, Fault
<1>1. CASE RecoverList BY <1>1 DEF RecoverList, WithStatus
<1>2. CASE RecoverOne
  BY <1>2 DEF RecoverOne, SetStatus, CanTransition, WriteStatus, Newest
<1>3. CASE RecoverClean BY <1>3 DEF RecoverClean, RemoveWorktree, Git!RemoveWorktree
<1>4. CASE RecoverDone BY <1>4 DEF RecoverDone
<1>5. CASE Drain BY <1>5 DEF Drain, WithStatus
<1>6. CASE DrainDone BY <1>6 DEF DrainDone
<1>7. CASE Begin BY <1>7 DEF Begin, SetStatus, CanTransition, WriteStatus, Newest
<1>8. CASE MakeWorktree BY <1>8 DEF MakeWorktree, Git!CreateWorktree
<1>9. CASE RecordExecution BY <1>9 DEF RecordExecution, SetExecution
<1>10. CASE ScottyTimesOut BY <1>10 DEF ScottyTimesOut
<1>11. CASE FailVacuous
  BY <1>11 DEF FailVacuous, Settle, SetStatus, CanTransition, WriteStatus,
    SetText
<1>12. CASE FailRed
  BY <1>12 DEF FailRed, Settle, SetStatus, CanTransition, WriteStatus,
    SetText
<1>13. CASE CommitWork BY <1>13 DEF CommitWork, Git!Commit
<1>14. CASE Propose BY <1>14 DEF Propose, SetStatus, CanTransition, WriteStatus, SetText
<1>15. CASE Rescue BY <1>15 DEF Rescue, SetStatus, CanTransition, WriteStatus, SetText
<1>16. CASE PruneList BY <1>16 DEF PruneList, WithStatus, Beyond
<1>17. CASE PruneOne BY <1>17 DEF PruneOne, Newest, RemoveWorktree, Git!RemoveWorktree
<1>18. CASE PruneDone BY <1>18 DEF PruneDone
<1>19. CASE ExpireList BY <1>19 DEF ExpireList, WithStatus
<1>20. CASE ExpireOne BY <1>20 DEF ExpireOne, RemoveWorktree, Git!RemoveWorktree
<1>21. CASE ExpireClear BY <1>21 DEF ExpireClear, ClearWorktree
<1>22. CASE ExpireDone BY <1>22 DEF ExpireDone
<1>23. CASE \E passed \in BOOLEAN : Baseline(passed) BY <1>23 DEF Baseline
<1>24. CASE \E passed \in BOOLEAN : Gate(passed) BY <1>24 DEF Gate
<1>25. CASE \E raised \in BOOLEAN : ScottyReturns(raised) BY <1>25 DEF ScottyReturns
<1>26. CASE \E t \in Task : StrayWrites(t) \/ StrayEnds(t)
  BY <1>26 DEF StrayWrites, StrayEnds, Stray, Git!WriteAnew
<1>27. CASE \E t \in Task : DispatchTask(t) BY <1>27 DEF DispatchTask, CreateTask
<1>28. CASE \E t \in Task : Wait(t) BY <1>28 DEF Wait, Age, Row
<1>29. CASE \E r \in Request : ApproveMerge(r) BY <1>29 DEF ApproveMerge, Git!Merge
<1>30. CASE \E r \in Request : ApproveCheck(r) BY <1>30 DEF ApproveCheck
<1>31. CASE \E r \in Request : ApproveRecord(r) BY <1>31 DEF ApproveRecord, WriteStatus
<1>32. CASE \E r \in Request : RejectReview(r) BY <1>32 DEF RejectReview, SetText
<1>33. CASE \E r \in Request : RejectCheck(r) BY <1>33 DEF RejectCheck
<1>34. CASE \E r \in Request : RejectRecord(r) BY <1>34 DEF RejectRecord, WriteStatus
<1>35. CASE \E r \in Request : RejectPreserve(r)
  BY <1>35 DEF RejectPreserve, Git!PreserveBranch
<1>36. CASE \E r \in Request : Clean(r)
  BY <1>36 DEF Clean, RemoveWorktree, Git!RemoveWorktree
<1>37. CASE \E r \in Request : Close(r) BY <1>37 DEF Close
<1>38. CASE \E r \in Request, k \in {"approve", "reject"}, t \in Task : Open(r, k, t)
  BY <1>38 DEF Open
<1>39. CASE Crash BY <1>39 DEF Crash
<1>40. CASE Restart BY <1>40 DEF Restart
<1>41. CASE UNCHANGED vars BY <1>41
<1> QED
  BY <1>1, <1>2, <1>3, <1>4, <1>5, <1>6, <1>7, <1>8, <1>9, <1>10, <1>11,
    <1>12, <1>13, <1>14, <1>15, <1>16, <1>17, <1>18, <1>19, <1>20, <1>21,
    <1>22, <1>23, <1>24, <1>25, <1>26, <1>27, <1>28, <1>29, <1>30, <1>31,
    <1>32, <1>33, <1>34, <1>35, <1>36, <1>37, <1>38, <1>39, <1>40, <1>41 DEF
    Next, Worker, Handler

-----------------------------------------------------------------------------
\* What list_tasks orders, and what the pruning makes of its order.

\* A row that is written becomes the newest.
LEMMA TouchOrders ==
    ASSUME Ordered, NEW t \in Task, Touch(t), Row' = Row \cup {t}
    PROVE  Ordered'
<1> USE DEF Ordered, Touch
<1>1. IsFiniteSet(Row)'
  BY FS_AddElement
<1>2. newer' \subseteq Row' \X Row' /\ \A u \in Row' : <<u, u>> \notin newer'
  OBVIOUS
<1>3. \A u \in Row' \ {t} : <<t, u>> \in newer' /\ <<u, t>> \notin newer'
  OBVIOUS
<1>4. \A u, v \in Row' \ {t} : u \in Row /\ v \in Row /\ (<<u, v>> \in newer' <=> <<u, v>> \in newer)
  OBVIOUS
<1>5. ASSUME NEW u \in Row', NEW v \in Row', NEW w \in Row',
             <<u, v>> \in newer', <<v, w>> \in newer'
      PROVE  <<u, w>> \in newer'
  BY <1>2, <1>3, <1>4, <1>5
<1>6. \A u, v \in Row' : u = v \/ <<u, v>> \in newer' \/ <<v, u>> \in newer'
  BY <1>3, <1>4
<1> QED BY <1>1, <1>2, <1>5, <1>6

\* Every step touches one row, which is one then, or none.
LEMMA OrderedStep == IInv /\ [Next]_vars => Ordered'
<1> SUFFICES ASSUME IInv, [Next]_vars PROVE Ordered'
  OBVIOUS
<1> USE DEF IInv, TypeOK, LedgerTypeOK
<1>1. ASSUME UNCHANGED <<status, newer>> PROVE Ordered'
  BY <1>1 DEF Ordered, Row
<1>2. ASSUME NEW t \in Task, NEW s \in Status \ {"none"}, Touch(t),
             status' = [status EXCEPT ![t] = s]
      PROVE  Ordered'
  <2>1. Row' = Row \cup {t}
    BY <1>2 DEF Row
  <2> QED BY <1>2, <2>1, TouchOrders
<1>3. ASSUME NEW t \in Task, status[t] # "none", Touch(t), UNCHANGED status PROVE Ordered'
  <2>1. Row' = Row \cup {t}
    BY <1>3 DEF Row
  <2> QED BY <1>3, <2>1, TouchOrders
<1>4. ASSUME NEW t \in Task, NEW s \in Status, s # "none", SetStatus(t, s) PROVE Ordered'
  BY <1>2, <1>4 DEF SetStatus, WriteStatus
<1>5. ASSUME NEW t \in Task, status[t] # "none", SetText(t) \/ UNCHANGED ledgerVars
      PROVE  Ordered'
  BY <1>1, <1>3, <1>5 DEF SetText, ledgerVars
<1>6. wpc \in Running => cur \in Task /\ status[cur] # "none"
  BY DEF WorkerOwns
<1>7. \A r \in Request : req[r].step # "idle" =>
        req[r].task \in Task /\ status[req[r].task] # "none"
  BY DEF HandlerKnows, Reviewed
<1>8. CASE \/ RecoverList \/ RecoverClean \/ RecoverDone \/ Drain \/ DrainDone
           \/ MakeWorktree \/ (\E passed \in BOOLEAN : Baseline(passed) \/ Gate(passed))
           \/ (\E raised \in BOOLEAN : ScottyReturns(raised))
           \/ ScottyTimesOut \/ CommitWork \/ PruneList \/ PruneOne \/ PruneDone
           \/ ExpireList \/ ExpireOne \/ ExpireClear \/ ExpireDone
  BY <1>1, <1>8 DEF RecoverList, RecoverClean, RecoverDone, Drain, DrainDone, MakeWorktree,
    Baseline, Gate, ScottyReturns, ScottyTimesOut, CommitWork, PruneList, PruneOne,
    PruneDone, ExpireList, ExpireOne, ExpireClear, ExpireDone, ledgerVars, ClearWorktree
<1>9. CASE RecoverOne
  <2>1. PICK t \in Newest(sweep) : SetStatus(t, "failed") \/ UNCHANGED ledgerVars
    BY <1>9 DEF RecoverOne
  <2>2. t \in Task
    BY DEF Newest, WorkerTypeOK
  <2> QED BY <1>1, <1>4, <2>1, <2>2 DEF ledgerVars, Status, Terminal
<1>10. CASE Begin
  <2>1. PICK t \in Newest(queue) :
          SetStatus(t, "executing") \/ SetStatus(t, "failed") \/ UNCHANGED ledgerVars
    BY <1>10 DEF Begin
  <2>2. t \in Task
    BY DEF Newest, WorkerTypeOK
  <2> QED BY <1>1, <1>4, <2>1, <2>2 DEF ledgerVars, Status, Terminal
<1>11. CASE RecordExecution
  BY <1>1, <1>3, <1>6, <1>11 DEF RecordExecution, SetExecution, ledgerVars, Running
<1>12. CASE FailVacuous \/ FailRed \/ Propose \/ Rescue
  <2>1. cur \in Task /\ status[cur] # "none"
    BY <1>6, <1>12 DEF FailVacuous, FailRed, Settle, Propose, Rescue, Running
  <2>2. SetStatus(cur, "failed") \/ SetStatus(cur, "in_review")
        \/ SetText(cur) \/ UNCHANGED ledgerVars
    BY <1>12 DEF FailVacuous, FailRed, Settle, Propose, Rescue
  <2> QED BY <1>4, <1>5, <2>1, <2>2 DEF Status, Terminal
<1>13. ASSUME NEW t \in Task,
              StrayWrites(t) \/ StrayEnds(t) \/ DispatchTask(t) \/ Wait(t)
       PROVE  Ordered'
  BY <1>1, <1>2, <1>13
    DEF StrayWrites, StrayEnds, DispatchTask, CreateTask, Wait, Age, Status, Terminal, ledgerVars
<1>14. ASSUME NEW r \in Request, Handler(r) PROVE Ordered'
  <2>1. CASE ApproveRecord(r) \/ RejectRecord(r)
    <3>1. WriteStatus(req[r].task, "landed") \/ WriteStatus(req[r].task, "rejected")
          \/ UNCHANGED ledgerVars
      BY <2>1 DEF ApproveRecord, RejectRecord
    <3>2. req[r].task \in Task
      BY <1>7, <2>1 DEF ApproveRecord, RejectRecord, Serve
    <3> QED BY <1>1, <1>2, <3>1, <3>2 DEF WriteStatus, ledgerVars, Status, Terminal
  <2>2. CASE RejectReview(r)
    BY <1>5, <1>7, <2>2 DEF RejectReview, Serve
  <2>3. CASE ApproveMerge(r) \/ ApproveCheck(r) \/ RejectCheck(r) \/ RejectPreserve(r)
             \/ Clean(r) \/ Close(r)
    BY <1>1, <2>3 DEF ApproveMerge, ApproveCheck, RejectCheck, RejectPreserve, Clean, Close,
      ledgerVars
  <2> QED BY <1>14, <2>1, <2>2, <2>3 DEF Handler
<1>15. ASSUME NEW r \in Request, NEW k \in {"approve", "reject"}, NEW t \in Task, Open(r, k, t)
       PROVE  Ordered'
  BY <1>1, <1>15 DEF Open, ledgerVars
<1>16. CASE Crash \/ Restart \/ UNCHANGED vars
  BY <1>1, <1>16 DEF Crash, Restart, vars, ledgerVars
<1> QED BY <1>8, <1>9, <1>10, <1>11, <1>12, <1>13, <1>14, <1>15, <1>16 DEF Next, Worker

\* The rows of an ordered set past the first n leave at most n.
LEMMA BeyondLeaves ==
    ASSUME Ordered, NEW S \in SUBSET Row, NEW n \in Nat
    PROVE  /\ IsFiniteSet(S \ Beyond(S, n))
           /\ Cardinality(S \ Beyond(S, n)) <= n
<1> DEFINE above(t) == {u \in S : <<u, t>> \in newer}
           left == S \ Beyond(S, n)
           rank == [t \in left |-> Cardinality(above(t)) + 1]
<1>1. IsFiniteSet(S) /\ IsFiniteSet(left)
  BY FS_Subset DEF Ordered
<1>2. ASSUME NEW t \in S PROVE IsFiniteSet(above(t)) /\ Cardinality(above(t)) \in Nat
  BY <1>1, FS_Subset, FS_CardinalityType
<1>3. ASSUME NEW t \in S, NEW u \in S, <<t, u>> \in newer
      PROVE  Cardinality(above(t)) < Cardinality(above(u))
  <2>1. above(t) \subseteq above(u) /\ t \in above(u) /\ t \notin above(t)
    BY <1>3 DEF Ordered
  <2>2. above(t) # above(u)
    BY <2>1
  <2>3. Cardinality(above(t)) <= Cardinality(above(u))
        /\ (Cardinality(above(t)) = Cardinality(above(u)) => above(t) = above(u))
    BY <1>2, <2>1, FS_Subset
  <2> QED BY <1>2, <2>2, <2>3
<1>4. rank \in [left -> 1 .. n]
  <2>1. ASSUME NEW t \in left PROVE Cardinality(above(t)) + 1 \in 1 .. n
    <3>1. ~(Cardinality(above(t)) >= n)
      BY <2>1 DEF Beyond
    <3> QED BY <1>2, <2>1, <3>1
  <2> QED BY <2>1
<1>5. \A t, u \in left : t # u => rank[t] # rank[u]
  <2>1. ASSUME NEW t \in left, NEW u \in left, <<t, u>> \in newer PROVE rank[t] # rank[u]
    <3>1. Cardinality(above(t)) < Cardinality(above(u))
      BY <1>3, <2>1
    <3> QED BY <1>2, <3>1
  <2> QED BY <2>1 DEF Ordered
<1>6. rank \in Injection(left, 1 .. n)
  BY <1>4, <1>5 DEF Injection, IsInjective
<1>7. IsFiniteSet(1 .. n) /\ Cardinality(1 .. n) = n
  BY FS_Interval
<1> QED BY <1>1, <1>6, <1>7, FS_Injection

-----------------------------------------------------------------------------
\* What the reviewers and new tasks do besides a run and its pruning.
Aside ==
    /\ UNCHANGED <<rowWt, wpc, cur, made, sweep>>
    /\ \A s \in {"executing", "failed"} :
         /\ WithStatus(s)' = WithStatus(s)
         /\ WithStatus(s) \cap dir \subseteq dir'
         /\ WithStatus(s) \cap (dir' \ bare') = WithStatus(s) \cap (dir \ bare)
    /\ \A t, u \in WithStatus("failed") : <<t, u>> \in newer' <=> <<t, u>> \in newer
    /\ faults' = 0 => faults = 0

LEMMA HandlerAside ==
    ASSUME TypeOK, HandlerKnows, NEW r \in Request, Handler(r)
    PROVE  Aside
<1> DEFINE t == req[r].task
<1> USE DEF TypeOK, LedgerTypeOK, Git!GitTypeOK, HistoryTypeOK, Fine, Fault
<1>1. ASSUME UNCHANGED ledgerVars, UNCHANGED <<dir, bare>>, WorkerAside,
             UNCHANGED faults \/ Fault
      PROVE  Aside
  BY <1>1, BoundsAssumption DEF Aside, WithStatus, ledgerVars, workerVars, WorkerAside
<1>2. req[r].step # "idle" => t \in Task /\ status[t] \in Reviewed
  BY DEF HandlerKnows
<1>3. ASSUME status[t] \in Reviewed, t \in Task, NEW s \in Reviewed,
             WriteStatus(t, s) \/ SetText(t), UNCHANGED <<dir, bare>>, WorkerAside,
             UNCHANGED faults
      PROVE  Aside
  <2>1. \A u \in {"executing", "failed"} : WithStatus(u)' = WithStatus(u) /\ t \notin WithStatus(u)
    BY <1>3 DEF WithStatus, Reviewed, WriteStatus, SetText
  <2>2. \A u, v \in Task \ {t} : <<u, v>> \in newer' <=> <<u, v>> \in newer
    BY <1>3 DEF WriteStatus, SetText, Touch
  <2>3. UNCHANGED rowWt
    BY <1>3 DEF WriteStatus, SetText
  <2> QED BY <1>3, <2>1, <2>2, <2>3 DEF Aside, WithStatus, WorkerAside, workerVars
<1>4. CASE ApproveMerge(r) \/ ApproveCheck(r) \/ RejectCheck(r) \/ RejectPreserve(r) \/ Close(r)
  BY <1>1, <1>4 DEF ApproveMerge, ApproveCheck, RejectCheck, RejectPreserve, Close, repoVars,
    Git!Merge, Git!PreserveBranch
<1>5. CASE ApproveRecord(r)
  BY <1>1, <1>2, <1>3, <1>5 DEF ApproveRecord, Serve, repoVars, Reviewed
<1>6. CASE RejectReview(r)
  BY <1>1, <1>2, <1>3, <1>6 DEF RejectReview, Serve, repoVars, Reviewed
<1>7. CASE RejectRecord(r)
  BY <1>1, <1>2, <1>3, <1>7 DEF RejectRecord, Serve, repoVars, Reviewed
<1>8. CASE Clean(r)
  <2>1. t \in Task /\ status[t] \in Reviewed
    BY <1>2, <1>8 DEF Clean, Serve
  <2>2. UNCHANGED bare /\ \A u \in Task \ {t} : u \in dir' <=> u \in dir
    BY <1>8 DEF Clean, RemoveWorktree, Git!RemoveWorktree
  <2>3. UNCHANGED faults \/ Fault
    BY <1>8 DEF Clean, RemoveWorktree
  <2> QED BY <1>8, <2>1, <2>2, <2>3, BoundsAssumption
    DEF Clean, Aside, WithStatus, Reviewed, ledgerVars, workerVars, WorkerAside
<1> QED BY <1>4, <1>5, <1>6, <1>7, <1>8 DEF Handler

LEMMA OthersAside ==
    ASSUME TypeOK,
           \/ \E t \in Task : StrayWrites(t) \/ StrayEnds(t) \/ DispatchTask(t) \/ Wait(t)
           \/ \E r \in Request, k \in {"approve", "reject"}, t \in Task : Open(r, k, t)
           \/ UNCHANGED vars
    PROVE  Aside
<1> USE DEF TypeOK, LedgerTypeOK, Aside, WithStatus, vars, ledgerVars, repoVars, workerVars
<1>1. ASSUME NEW t \in Task, StrayWrites(t) \/ StrayEnds(t) PROVE Aside
  BY <1>1 DEF StrayWrites, StrayEnds, Git!WriteAnew
<1>2. ASSUME NEW t \in Task, DispatchTask(t) PROVE Aside
  BY <1>2 DEF DispatchTask, CreateTask, Touch
<1>3. ASSUME NEW t \in Task, Wait(t) PROVE Aside
  BY <1>3 DEF Wait, Age
<1>4. ASSUME NEW r \in Request, NEW k \in {"approve", "reject"}, NEW t \in Task, Open(r, k, t)
      PROVE  Aside
  BY <1>4 DEF Open, WorkerAside
<1>5. CASE UNCHANGED vars
  BY <1>5
<1> QED BY <1>1, <1>2, <1>3, <1>4, <1>5

\* Of what happens beside it the run keeps its directory, and the pruning the
\* newest failed row and what is left to remove.
LEMMA AsideKeeps == IInv /\ Aside => HasDirectory' /\ Pruning'
<1> SUFFICES ASSUME IInv, Aside PROVE HasDirectory' /\ Pruning'
  OBVIOUS
<1>1. HasDirectory'
  <2>1. wpc \in Running => cur \in WithStatus("executing")
    BY DEF IInv, WorkerOwns, WithStatus
  <2>2. HasDirectory
    BY DEF IInv
  <2> QED BY <2>1, <2>2 DEF HasDirectory, Aside
<1>2. Pruning'
  <2>1. Kept' = Kept /\ Pruning
    BY DEF IInv, Aside, Kept
  <2> QED BY <2>1 DEF Pruning, Aside
<1> QED BY <1>1, <1>2

\* The worker makes the directory before it needs it, and nobody else's step
\* takes it away.
LEMMA DirectoryStep == IInv /\ [Next]_vars => HasDirectory'
<1> SUFFICES ASSUME IInv, [Next]_vars PROVE HasDirectory'
  OBVIOUS
<1> USE DEF IInv, HasDirectory, Running, repoVars
<1>1. CASE MakeWorktree
  BY <1>1 DEF MakeWorktree, Git!CreateWorktree
<1>2. CASE Begin
  BY <1>2 DEF Begin
<1>3. CASE \/ RecordExecution \/ (\E passed \in BOOLEAN : Baseline(passed) \/ Gate(passed))
           \/ (\E raised \in BOOLEAN : ScottyReturns(raised)) \/ ScottyTimesOut
  BY <1>3 DEF RecordExecution, Baseline, Gate, ScottyReturns, ScottyTimesOut, At
<1>4. CASE CommitWork
  BY <1>4 DEF CommitWork, Git!Commit
<1>5. CASE FailVacuous \/ FailRed \/ Propose \/ Rescue
  BY <1>5 DEF FailVacuous, FailRed, Settle, Propose, Rescue
<1>6. CASE \/ RecoverList \/ RecoverOne \/ RecoverClean \/ RecoverDone \/ Drain \/ DrainDone
           \/ PruneList \/ PruneOne \/ PruneDone
           \/ ExpireList \/ ExpireOne \/ ExpireClear \/ ExpireDone \/ Crash \/ Restart
  BY <1>6 DEF RecoverList, RecoverOne, RecoverClean, RecoverDone, Drain, DrainDone, PruneList,
    PruneOne, PruneDone, ExpireList, ExpireOne, ExpireClear, ExpireDone, Crash, Restart, At
<1>7. ASSUME Aside PROVE HasDirectory'
  BY <1>7, AsideKeeps
<1> QED BY <1>1, <1>2, <1>3, <1>4, <1>5, <1>6, <1>7, HandlerAside, OthersAside
    DEF Next, Worker

\* The pruning leaves the newest.
LEMMA PruningStep == IInv /\ [Next]_vars => Pruning'
<1> SUFFICES ASSUME IInv, [Next]_vars PROVE Pruning'
  OBVIOUS
<1> USE DEF IInv, TypeOK, LedgerTypeOK, WorkerTypeOK, HistoryTypeOK, Fine, Fault
<1>1. ASSUME wpc' \notin {"prune", "pruning", "expire"} PROVE Pruning'
  BY <1>1 DEF Pruning
<1>2. ASSUME wpc' = "prune", wpc \in Running \ {"make"}, made, cur' = cur, dir' = dir,
             (Fine /\ SetStatus(cur, "failed")) \/ Fault
      PROVE  Pruning'
  <2>1. CASE Fault
    BY <1>2, <2>1, BoundsAssumption DEF Pruning
  <2>2. CASE Fine /\ SetStatus(cur, "failed")
    <3>1. cur \in Task /\ cur \in dir /\ status'[cur] = "failed"
      BY <1>2, <2>2 DEF HasDirectory, WorkerOwns, SetStatus, WriteStatus
    <3>2. <<cur, cur>> \notin newer' /\ \A t : t # cur => <<t, cur>> \notin newer'
      BY <2>2 DEF SetStatus, WriteStatus, Touch
    <3> QED BY <1>2, <3>1, <3>2 DEF Pruning, WithStatus
  <2> QED BY <1>2, <2>1, <2>2
<1>3. CASE FailVacuous \/ FailRed
  <2>1. made
    BY <1>3 DEF FailVacuous, FailRed, Settle, HasDirectory, Running
  <2> QED BY <1>1, <1>2, <1>3, <2>1 DEF FailVacuous, FailRed, Settle, Running, repoVars
<1>4. CASE Rescue
  BY <1>1, <1>2, <1>4 DEF Rescue, Running, repoVars
<1>5. CASE PruneList
  <2> DEFINE F == WithStatus("failed")
  <2>1. /\ wpc' = "pruning" /\ UNCHANGED <<status, rowWt, newer, dir, bare, cur>>
        /\ \/ Fault
           \/ Fine /\ sweep' = Beyond(F, Retention) \cap rowWt
    BY <1>5 DEF PruneList, At, ledgerVars, repoVars
  <2>2. ASSUME faults = 0, sweep' = Beyond(F, Retention) \cap rowWt PROVE Pruning'
    <3>1. cur \in F /\ cur \in dir /\ \A t \in F : <<t, cur>> \notin newer
      BY <1>5, <2>2 DEF Pruning, PruneList, At
    <3>2. Retention > 0 => cur \notin sweep'
      <4>1. {u \in F : <<u, cur>> \in newer} = {}
        BY <3>1
      <4>2. cur \in Beyond(F, Retention) => 0 >= Retention
        BY <4>1, FS_EmptySet DEF Beyond
      <4> QED BY <2>2, <4>2, BoundsAssumption
    <3>3. Cardinality((Kept \ sweep)') <= Retention
      <4>1. (Kept \ sweep)' \subseteq F \ Beyond(F, Retention)
        BY <2>1, <2>2 DEF Kept, WithStatus
      <4>2. F \subseteq Row
        BY DEF WithStatus, Row
      <4>3. /\ IsFiniteSet(F \ Beyond(F, Retention))
            /\ Cardinality(F \ Beyond(F, Retention)) <= Retention
        BY <4>2, BeyondLeaves, BoundsAssumption
      <4>4. /\ IsFiniteSet((Kept \ sweep)')
            /\ Cardinality((Kept \ sweep)') <= Cardinality(F \ Beyond(F, Retention))
        BY <4>1, <4>3, FS_Subset
      <4> QED BY <4>3, <4>4, FS_CardinalityType, BoundsAssumption
    <3> QED BY <2>1, <3>1, <3>2, <3>3 DEF Pruning, WithStatus
  <2>3. CASE Fault
    BY <2>1, <2>3, BoundsAssumption DEF Pruning
  <2> QED BY <2>1, <2>2, <2>3, BoundsAssumption DEF Pruning
<1>6. CASE PruneOne
  <2>1. PICK t \in Newest(sweep) :
          /\ sweep' = sweep \ {t}
          /\ IF t \in dir THEN RemoveWorktree(t, TRUE) ELSE UNCHANGED repoVars /\ Fine
    BY <1>6 DEF PruneOne
  <2>2. wpc = "pruning" /\ UNCHANGED <<status, rowWt, newer, wpc, cur>> /\ t \in sweep
    BY <1>6, <2>1 DEF PruneOne, ledgerVars, Newest
  <2>3. faults' = 0 => faults = 0 /\ UNCHANGED bare /\ dir' = dir \ ({t} \ bare)
    BY <2>1, BoundsAssumption DEF RemoveWorktree, Git!RemoveWorktree, repoVars
  <2>4. ASSUME faults' = 0 PROVE Cardinality((Kept \ sweep)') <= Retention
    <3>1. Cardinality(Kept \ sweep) <= Retention
      BY <2>2, <2>3, <2>4 DEF Pruning
    <3>2. (Kept \ sweep)' = Kept \ sweep
      BY <2>1, <2>2, <2>3, <2>4 DEF Kept, WithStatus
    <3> QED BY <3>1, <3>2
  <2>5. ASSUME faults' = 0
        PROVE  cur' \in WithStatus("failed")' /\ (Retention > 0 => cur' \in dir' /\ cur' \notin sweep')
    BY <2>1, <2>2, <2>3, <2>5 DEF Pruning, WithStatus
  <2> QED BY <2>2, <2>4, <2>5 DEF Pruning
<1>7. CASE PruneDone
  <2>1. /\ wpc = "pruning" /\ wpc' = "expire" /\ sweep = {}
        /\ UNCHANGED <<status, rowWt, dir, bare, cur, sweep, faults>>
    BY <1>7 DEF PruneDone, At, ledgerVars, repoVars
  <2> QED BY <2>1 DEF Pruning, Kept, WithStatus
<1>8. CASE \/ RecoverList \/ RecoverOne \/ RecoverClean \/ RecoverDone \/ Drain \/ DrainDone
           \/ Begin \/ MakeWorktree \/ RecordExecution
           \/ (\E passed \in BOOLEAN : Baseline(passed) \/ Gate(passed))
           \/ (\E raised \in BOOLEAN : ScottyReturns(raised))
           \/ ScottyTimesOut \/ CommitWork \/ Propose
           \/ ExpireList \/ ExpireOne \/ ExpireClear \/ ExpireDone \/ Crash \/ Restart
  BY <1>1, <1>8 DEF RecoverList, RecoverOne, RecoverClean, RecoverDone, Drain, DrainDone,
    Begin, MakeWorktree, RecordExecution, Baseline, Gate, ScottyReturns, ScottyTimesOut,
    CommitWork, Propose, ExpireList, ExpireOne, ExpireClear, ExpireDone, Crash, Restart, At
<1>9. ASSUME Aside PROVE Pruning'
  BY <1>9, AsideKeeps
<1> QED BY <1>3, <1>4, <1>5, <1>6, <1>7, <1>8, <1>9, HandlerAside, OthersAside
    DEF Next, Worker

\* The invariant holds at the start: an empty ledger over an empty repository.
LEMMA InitHolds == Init => IInv
<1> SUFFICES ASSUME Init PROVE IInv
  OBVIOUS
<1> USE DEF Init, LedgerInit, Git!GitInit
<1>1. LedgerTypeOK
  BY DEF LedgerTypeOK, Status
<1>2. Git!GitTypeOK
  BY DEF Git!GitTypeOK, Git!Ref
<1>3. WorkerTypeOK
  BY DEF WorkerTypeOK, WorkerPC
<1>4. req \in [Request -> RequestRecord]
  BY DEF RequestRecord, Idle
<1>5. WorkerOwns /\ Attended
  BY DEF WorkerOwns, Attended, Running, WithStatus
<1>6. HandlerKnows /\ ProposedIsCommitted
  BY DEF HandlerKnows, ProposedIsCommitted, Reviewed, Idle
<1>7. LandedIsMerged /\ MergedWasProposed /\ WorkSurvives /\ ProposalStands
  BY DEF LandedIsMerged, MergedWasProposed, WorkSurvives, ProposalStands, WithStatus
<1>8. HistoryTypeOK
  BY BoundsAssumption DEF HistoryTypeOK
<1>9. Ordered
  <2>1. Row = {}
    BY DEF Row
  <2> QED BY <2>1, FS_EmptySet DEF Ordered
<1>10. HasDirectory /\ Pruning
  BY DEF HasDirectory, Pruning, Running
<1> QED
  BY <1>1, <1>2, <1>3, <1>4, <1>5, <1>6, <1>7, <1>8, <1>9, <1>10 DEF IInv, TypeOK

\* Every step preserves the invariant.
LEMMA StepHolds == IInv /\ [Next]_vars => IInv'
<1> SUFFICES ASSUME IInv, [Next]_vars PROVE IInv'
  OBVIOUS
<1> USE DEF IInv
<1>1. TypeOK'
  BY RequestTypeStep, HistoryTypeStep, WorkerTypeStep, LedgerTypeStep, GitTypeStep
  DEF TypeOK
<1>2. WorkerOwns'
  BY WorkerOwnsStep
<1>3. HandlerKnows'
  BY HandlerKnowsStep
<1>4. ProposedIsCommitted' /\ Attended'
  BY CommittedStep, AttendedStep
<1>5. LandedIsMerged' /\ MergedWasProposed'
  BY LandedStep, MergedStep
<1>6. WorkSurvives' /\ ProposalStands'
  BY SurvivesStep, ProposalStep
<1>7. Ordered' /\ HasDirectory' /\ Pruning'
  BY OrderedStep, DirectoryStep, PruningStep
<1> QED
  BY <1>1, <1>2, <1>3, <1>4, <1>5, <1>6, <1>7

\* The inductive invariant, for any number of tasks, requests, faults, crashes.
THEOREM InvariantHolds == Spec => []IInv
<1>1. Init => IInv
  BY InitHolds
<1>2. IInv /\ [Next]_vars => IInv'
  BY StepHolds
<1> QED
  BY <1>1, <1>2, PTL DEF Spec

\* Every variable keeps its type, the handlers' records included.
THEOREM TypeCorrect == Spec => []TypeOK
<1>1. IInv => TypeOK
  BY DEF IInv
<1> QED
  BY <1>1, InvariantHolds, PTL

\* A row says landed only if approve brought its work into main, however many
\* approve and reject handlers overlap (app/routes/delegation.py).
THEOREM LandedIsAlwaysMerged == Spec => []LandedIsMerged
<1>1. IInv => LandedIsMerged
  BY DEF IInv
<1> QED
  BY <1>1, InvariantHolds, PTL

\* Nothing reaches main but what the engine had put up for review.
THEOREM MergedWasAlwaysProposed == Spec => []MergedWasProposed
<1>1. IInv => MergedWasProposed
  BY DEF IInv
<1> QED
  BY <1>1, InvariantHolds, PTL

\* Accepted work is reachable from a branch, its rejected/ tag or main, with
\* the three exceptions the property names.
THEOREM WorkAlwaysSurvives == Spec => []WorkSurvives
<1>1. IInv => WorkSurvives
  BY DEF IInv
<1> QED
  BY <1>1, InvariantHolds, PTL

\* What approve and reject tell their client of the work is so.
THEOREM ReportsAreTrue == Spec => []ReportedWorkIsThere
<1>1. IInv => ReportedWorkIsThere
  BY DEF IInv, HandlerKnows, ReportedWorkIsThere
<1> QED
  BY <1>1, InvariantHolds, PTL

\* At most one row is executing outside of recovery, and the worker has it in
\* hand (worker.py, recovery included).
THEOREM ExecutingIsAlwaysAttended == Spec => []ExecutingIsAttended
<1>1. IInv => ExecutingIsAttended
  BY DEF IInv, Attended, ExecutingIsAttended, Running
<1> QED
  BY <1>1, InvariantHolds, PTL

\* No Scotty who outlived his timeout is at work in a tree that is judged or
\* was proposed (scotty_runner.py, engine.py), and a proposal keeps the branch
\* that approve would merge until it is decided or expires.
THEOREM ProposalsAlwaysStand == Spec => []ProposalStands
<1>1. IInv => ProposalStands
  BY DEF IInv
<1> QED
  BY <1>1, InvariantHolds, PTL

\* After the pruning that ends a failed run at most Retention failed worktrees
\* are on disk, that of the run among them (engine.py), whatever reviewers and
\* crashes do, as long as no command failed.
THEOREM PrunedAlwaysToRetention == Spec => []PrunedToRetention
<1>1. IInv => PrunedToRetention
  <2> SUFFICES ASSUME IInv, wpc = "expire", faults = 0
      PROVE  /\ Cardinality(Kept) <= Retention
             /\ Retention > 0 => cur \in dir
    BY DEF PrunedToRetention, Kept
  <2>1. sweep = {} /\ Cardinality(Kept \ sweep) <= Retention
        /\ (Retention > 0 => cur \in dir)
    BY DEF IInv, Pruning
  <2>2. Kept \ sweep = Kept
    BY <2>1
  <2> QED BY <2>1, <2>2
<1> QED
  BY <1>1, InvariantHolds, PTL
=============================================================================
