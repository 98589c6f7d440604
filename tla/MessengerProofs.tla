-------------------------- MODULE MessengerProofs --------------------------
(***************************************************************************)
(* Proofs about the messenger, for any number of messages, requests,       *)
(* sessions, intents and agents: when a message can be processed twice,    *)
(* what a delivery mark stands for, and how far the brake may be passed.   *)
(***************************************************************************)
EXTENDS MessengerInvariant, SessionTurnsProofs, FiniteSetTheorems, TLAPS

\* A row appended to a session keeps its type, and every row that is there.
LEMMA SaveTurnType ==
    ASSUME conv \in [Session -> Seq(Row)], NEW s \in Session, NEW role, NEW by,
           [role |-> role, by |-> by] \in Row, SaveTurn(s, role, by)
    PROVE  conv' \in [Session -> Seq(Row)]
BY DEF SaveTurn

LEMMA RowsStay ==
    ASSUME conv \in [Session -> Seq(Row)], NEW s \in Session, NEW role, NEW by,
           SaveTurn(s, role, by), NEW i, HasRow(i)
    PROVE  HasRow(i)'
<1> PICK u \in Session : \E n \in 1 .. Len(conv[u]) : conv[u][n].by = i
  BY DEF HasRow
<1>1. PICK n \in 1 .. Len(conv[u]) : conv[u][n].by = i
  OBVIOUS
<1>2. CASE u = s
  <2>1. conv'[u] = Append(conv[u], [role |-> role, by |-> by])
    BY <1>2 DEF SaveTurn
  <2>2. n \in 1 .. Len(conv'[u]) /\ conv'[u][n] = conv[u][n]
    BY <2>1
  <2> QED BY <1>1, <2>2 DEF HasRow
<1>3. CASE u # s
  <2>1. conv'[u] = conv[u]
    BY <1>3 DEF SaveTurn
  <2> QED BY <1>1, <2>1 DEF HasRow
<1> QED BY <1>2, <1>3

LEMMA RowIsThere ==
    ASSUME conv \in [Session -> Seq(Row)], NEW s \in Session, NEW role, NEW by,
           SaveTurn(s, role, by)
    PROVE  HasRow(by)'
<1>1. conv'[s] = Append(conv[s], [role |-> role, by |-> by])
  BY DEF SaveTurn
<1>2. Len(conv[s]) + 1 \in 1 .. Len(conv'[s])
      /\ conv'[s][Len(conv[s]) + 1] = [role |-> role, by |-> by]
  BY <1>1
<1> QED BY <1>2 DEF HasRow

\* Every step keeps the types.
LEMMA TypeStep == ASSUME MInv, [Next]_vars PROVE TypeOK'
<1> USE IntentAssumption, TargetAssumption, MessengerAssumption
    DEF TypeOK, MInv, RequestPhase, MarkingHasRow, Active, At
<1>1. ASSUME NEW t \in Turn, Look(t) PROVE TypeOK'
  BY <1>1 DEF Look, turnsVars, requestVars, shareVars, workerVars
<1>2. ASSUME NEW t \in Turn, Record(t) PROVE TypeOK'
  BY <1>2 DEF Record, turnsVars, requestVars, shareVars, workerVars
<1>3. ASSUME NEW t \in Turn, BeginTurn(t) PROVE TypeOK'
  <2>1. [role |-> "user", by |-> t] \in Row
    BY <1>3 DEF Row, BeginTurn, Intent
  <2>2. conv' \in [Session -> Seq(Row)]
    BY <1>3, <2>1, SaveTurnType DEF BeginTurn, Begin
  <2> QED BY <1>3, <2>2
      DEF BeginTurn, Begin, turnsVars, requestVars, shareVars, workerVars
<1>4. ASSUME NEW t \in Turn, AnswerTurn(t) PROVE TypeOK'
  <2>1. [role |-> "assistant", by |-> t] \in Row
    BY <1>4 DEF Row, AnswerTurn, Intent
  <2>2. conv' \in [Session -> Seq(Row)]
    BY <1>4, <2>1, SaveTurnType DEF AnswerTurn, Answer
  <2> QED BY <1>4, <2>2
      DEF AnswerTurn, Answer, turnsVars, requestVars, shareVars, workerVars
<1>5. ASSUME NEW t \in Turn, CacheAnswer(t) PROVE TypeOK'
  BY <1>5 DEF CacheAnswer, turnsVars, requestVars, shareVars, workerVars
<1>6. ASSUME NEW t \in Turn, Drop(t) PROVE TypeOK'
  BY <1>6 DEF Drop, Fault, Fail, turnsVars, requestVars, shareVars, workerVars
<1>7. ASSUME NEW s \in Sharer, CountShare(s) PROVE TypeOK'
  BY <1>7 DEF CountShare, turnsVars, requestVars, shareVars, workerVars
<1>8. ASSUME NEW s \in Sharer, InsertShare(s) PROVE TypeOK'
  <2>1. sharing' \in [Sharer -> BOOLEAN]
    BY <1>8 DEF InsertShare
  <2>2. queue' \in [Intent -> {"none", "pending", "delivered", "failed"}]
    BY <1>8 DEF InsertShare
  <2>3. target' \in [Intent -> Session \cup {Default, Gone}]
    BY <1>8 DEF InsertShare
  <2> QED BY <1>8, <2>1, <2>2, <2>3 DEF InsertShare, turnsVars, requestVars, workerVars
<1>9. CASE WorkerRead
  BY <1>9 DEF WorkerRead, turnsVars, requestVars, shareVars, workerVars
<1>10. ASSUME NEW i \in Intent, WorkerTake(i) PROVE TypeOK'
  BY <1>10 DEF WorkerTake, turnsVars, requestVars, shareVars, workerVars
<1>11. CASE WorkerSave
  <2>1. [role |-> "assistant", by |-> hand] \in Row
    BY <1>11 DEF Row, WorkerSave, Intent
  <2>2. conv' \in [Session -> Seq(Row)]
    BY <1>11, <2>1, SaveTurnType DEF WorkerSave, Post
  <2> QED BY <1>11, <2>2
      DEF WorkerSave, Post, turnsVars, requestVars, shareVars, workerVars
<1>12. CASE WorkerMark
  BY <1>12 DEF WorkerMark, turnsVars, requestVars, shareVars, workerVars
<1>13. CASE WorkerFail
  <2>1. faults' \in 0 .. MaxFaults
    BY <1>13 DEF WorkerFail, Fault
  <2>2. batch' \subseteq Intent /\ hand' \in Intent \cup {0} /\ marking' \in BOOLEAN
        /\ place' = place
    BY <1>13 DEF WorkerFail, StopWorker
  <2> QED BY <1>13, <2>1, <2>2 DEF WorkerFail, turnsVars, requestVars, shareVars
<1>14. CASE Crash
  <2>1. faults' \in 0 .. MaxFaults
    BY <1>14 DEF Crash, Fault
  <2>2. batch' \subseteq Intent /\ hand' \in Intent \cup {0} /\ marking' \in BOOLEAN
        /\ place' = place
    BY <1>14 DEF Crash, StopWorker
  <2>3. sharing' \in [Sharer -> BOOLEAN] /\ at' \in [Turn -> At]
    BY <1>14 DEF Crash
  <2>4. UNCHANGED <<conv, sess>> /\ phase' \in [Turn -> {"new", "open", "answered",
      "failed"}]
    BY <1>14 DEF Crash, Fail
  <2> QED BY <1>14, <2>1, <2>2, <2>3, <2>4 DEF Crash
<1>15. CASE UNCHANGED vars
  BY <1>15 DEF vars, turnsVars, requestVars, shareVars, workerVars
<1> QED BY <1>1, <1>2, <1>3, <1>4, <1>5, <1>6, <1>7, <1>8, <1>9, <1>10, <1>11, <1>12,
    <1>13, <1>14, <1>15 DEF Next, Worker

\* Requests and turns keep step.
LEMMA PhaseStep == ASSUME MInv, [Next]_vars PROVE RequestPhase'
<1> USE DEF TypeOK, MInv, RequestPhase, Active, At
<1>1. ASSUME NEW t \in Turn, Look(t) PROVE RequestPhase'
  BY <1>1 DEF Look, turnsVars, requestVars, shareVars, workerVars
<1>2. ASSUME NEW t \in Turn, Record(t) PROVE RequestPhase'
  BY <1>2 DEF Record, turnsVars, requestVars, shareVars, workerVars
<1>3. ASSUME NEW t \in Turn, BeginTurn(t) PROVE RequestPhase'
  BY <1>3 DEF BeginTurn, Begin, SaveTurn, turnsVars, requestVars, shareVars, workerVars
<1>4. ASSUME NEW t \in Turn, AnswerTurn(t) PROVE RequestPhase'
  BY <1>4
    DEF AnswerTurn, Answer, SaveTurn, turnsVars, requestVars, shareVars, workerVars
<1>5. ASSUME NEW t \in Turn, CacheAnswer(t) PROVE RequestPhase'
  BY <1>5 DEF CacheAnswer, turnsVars, requestVars, shareVars, workerVars
<1>6. ASSUME NEW t \in Turn, Drop(t) PROVE RequestPhase'
  BY <1>6 DEF Drop, Fault, Fail, turnsVars, requestVars, shareVars, workerVars
<1>7. ASSUME NEW s \in Sharer, CountShare(s) PROVE RequestPhase'
  BY <1>7 DEF CountShare, turnsVars, requestVars, shareVars, workerVars
<1>8. ASSUME NEW s \in Sharer, InsertShare(s) PROVE RequestPhase'
  BY <1>8 DEF InsertShare, turnsVars, requestVars, shareVars, workerVars
<1>9. CASE WorkerRead
  BY <1>9 DEF WorkerRead, turnsVars, requestVars, shareVars, workerVars
<1>10. ASSUME NEW i \in Intent, WorkerTake(i) PROVE RequestPhase'
  BY <1>10 DEF WorkerTake, turnsVars, requestVars, shareVars, workerVars
<1>11. CASE WorkerSave
  BY <1>11 DEF WorkerSave, Post, SaveTurn, turnsVars, requestVars, shareVars, workerVars
<1>12. CASE WorkerMark
  BY <1>12 DEF WorkerMark, turnsVars, requestVars, shareVars, workerVars
<1>13. CASE WorkerFail
  BY <1>13
    DEF WorkerFail, Fault, StopWorker, turnsVars, requestVars, shareVars, workerVars
<1>14. CASE Crash
  BY <1>14
    DEF Crash, Fault, Fail, StopWorker, turnsVars, requestVars, shareVars, workerVars
<1>15. CASE UNCHANGED vars
  BY <1>15 DEF vars, turnsVars, requestVars, shareVars, workerVars
<1> QED BY <1>1, <1>2, <1>3, <1>4, <1>5, <1>6, <1>7, <1>8, <1>9, <1>10, <1>11, <1>12,
    <1>13, <1>14, <1>15 DEF Next, Worker

\* A message is processed again only for a reason.
LEMMA RetryStep == ASSUME MInv, [Next]_vars
    PROVE (BegunIsCached /\ CompanyCrowds /\ LateRequest /\ RetryNeedsFault)'
<1> USE MessengerAssumption
    DEF TypeOK, MInv, RequestPhase, BegunIsCached, CompanyCrowds, LateRequest,
        RetryNeedsFault, Active, At, UnderWay
<1>1. ASSUME NEW t \in Turn, Look(t)
    PROVE (BegunIsCached /\ CompanyCrowds /\ LateRequest /\ RetryNeedsFault)'
  BY <1>1 DEF Look, turnsVars, requestVars, shareVars, workerVars
<1>2. ASSUME NEW t \in Turn, Record(t)
    PROVE (BegunIsCached /\ CompanyCrowds /\ LateRequest /\ RetryNeedsFault)'
  BY <1>2 DEF Record, turnsVars, requestVars, shareVars, workerVars
<1>3. ASSUME NEW t \in Turn, BeginTurn(t)
    PROVE (BegunIsCached /\ CompanyCrowds /\ LateRequest /\ RetryNeedsFault)'
  BY <1>3 DEF BeginTurn, Begin, SaveTurn, turnsVars, requestVars, shareVars, workerVars
<1>4. ASSUME NEW t \in Turn, AnswerTurn(t)
    PROVE (BegunIsCached /\ CompanyCrowds /\ LateRequest /\ RetryNeedsFault)'
  BY <1>4
    DEF AnswerTurn, Answer, SaveTurn, turnsVars, requestVars, shareVars, workerVars
<1>5. ASSUME NEW t \in Turn, CacheAnswer(t)
    PROVE (BegunIsCached /\ CompanyCrowds /\ LateRequest /\ RetryNeedsFault)'
  BY <1>5 DEF CacheAnswer, turnsVars, requestVars, shareVars, workerVars
<1>6. ASSUME NEW t \in Turn, Drop(t)
    PROVE (BegunIsCached /\ CompanyCrowds /\ LateRequest /\ RetryNeedsFault)'
  BY <1>6 DEF Drop, Fault, Fail, turnsVars, requestVars, shareVars, workerVars
<1>7. ASSUME NEW s \in Sharer, CountShare(s)
    PROVE (BegunIsCached /\ CompanyCrowds /\ LateRequest /\ RetryNeedsFault)'
  BY <1>7 DEF CountShare, turnsVars, requestVars, shareVars, workerVars
<1>8. ASSUME NEW s \in Sharer, InsertShare(s)
    PROVE (BegunIsCached /\ CompanyCrowds /\ LateRequest /\ RetryNeedsFault)'
  BY <1>8 DEF InsertShare, turnsVars, requestVars, shareVars, workerVars
<1>9. CASE WorkerRead
  BY <1>9 DEF WorkerRead, turnsVars, requestVars, shareVars, workerVars
<1>10. ASSUME NEW i \in Intent, WorkerTake(i)
    PROVE (BegunIsCached /\ CompanyCrowds /\ LateRequest /\ RetryNeedsFault)'
  BY <1>10 DEF WorkerTake, turnsVars, requestVars, shareVars, workerVars
<1>11. CASE WorkerSave
  BY <1>11 DEF WorkerSave, Post, SaveTurn, turnsVars, requestVars, shareVars, workerVars
<1>12. CASE WorkerMark
  BY <1>12 DEF WorkerMark, turnsVars, requestVars, shareVars, workerVars
<1>13. CASE WorkerFail
  BY <1>13
    DEF WorkerFail, Fault, StopWorker, turnsVars, requestVars, shareVars, workerVars
<1>14. CASE Crash
  BY <1>14
    DEF Crash, Fault, Fail, StopWorker, turnsVars, requestVars, shareVars, workerVars
<1>15. CASE UNCHANGED vars
  BY <1>15 DEF vars, turnsVars, requestVars, shareVars, workerVars
<1> QED BY <1>1, <1>2, <1>3, <1>4, <1>5, <1>6, <1>7, <1>8, <1>9, <1>10, <1>11, <1>12,
    <1>13, <1>14, <1>15 DEF Next, Worker

\* What is marked has its row.
LEMMA DeliverStep == ASSUME MInv, [Next]_vars PROVE (MarkingHasRow /\ DeliveredHasRow)'
<1> USE IntentAssumption DEF TypeOK, MInv, MarkingHasRow, DeliveredHasRow
<1>1. ASSUME NEW t \in Turn, Look(t) PROVE (MarkingHasRow /\ DeliveredHasRow)'
  <2>1. \A i \in Intent : HasRow(i)' = HasRow(i)
    BY <1>1 DEF HasRow, Look, turnsVars, requestVars, shareVars, workerVars
  <2> QED BY <1>1, <2>1 DEF Look, turnsVars, requestVars, shareVars, workerVars
<1>2. ASSUME NEW t \in Turn, Record(t) PROVE (MarkingHasRow /\ DeliveredHasRow)'
  <2>1. \A i \in Intent : HasRow(i)' = HasRow(i)
    BY <1>2 DEF HasRow, Record, turnsVars, requestVars, shareVars, workerVars
  <2> QED BY <1>2, <2>1 DEF Record, turnsVars, requestVars, shareVars, workerVars
<1>3. ASSUME NEW t \in Turn, BeginTurn(t) PROVE (MarkingHasRow /\ DeliveredHasRow)'
  <2>1. \A i \in Intent : HasRow(i) => HasRow(i)'
    BY <1>3, RowsStay DEF BeginTurn, Begin
  <2> QED BY <1>3, <2>1
      DEF BeginTurn, Begin, turnsVars, requestVars, shareVars, workerVars
<1>4. ASSUME NEW t \in Turn, AnswerTurn(t) PROVE (MarkingHasRow /\ DeliveredHasRow)'
  <2>1. \A i \in Intent : HasRow(i) => HasRow(i)'
    BY <1>4, RowsStay DEF AnswerTurn, Answer
  <2> QED BY <1>4, <2>1
      DEF AnswerTurn, Answer, turnsVars, requestVars, shareVars, workerVars
<1>5. ASSUME NEW t \in Turn, CacheAnswer(t) PROVE (MarkingHasRow /\ DeliveredHasRow)'
  <2>1. \A i \in Intent : HasRow(i)' = HasRow(i)
    BY <1>5 DEF HasRow, CacheAnswer, turnsVars, requestVars, shareVars, workerVars
  <2> QED BY <1>5, <2>1 DEF CacheAnswer, turnsVars, requestVars, shareVars, workerVars
<1>6. ASSUME NEW t \in Turn, Drop(t) PROVE (MarkingHasRow /\ DeliveredHasRow)'
  <2>1. \A i \in Intent : HasRow(i)' = HasRow(i)
    BY <1>6 DEF HasRow, Drop, Fault, Fail, turnsVars, requestVars, shareVars, workerVars
  <2> QED BY <1>6, <2>1
      DEF Drop, Fault, Fail, turnsVars, requestVars, shareVars, workerVars
<1>7. ASSUME NEW s \in Sharer, CountShare(s) PROVE (MarkingHasRow /\ DeliveredHasRow)'
  <2>1. \A i \in Intent : HasRow(i)' = HasRow(i)
    BY <1>7 DEF HasRow, CountShare, turnsVars, requestVars, shareVars, workerVars
  <2> QED BY <1>7, <2>1 DEF CountShare, turnsVars, requestVars, shareVars, workerVars
<1>8. ASSUME NEW s \in Sharer, InsertShare(s) PROVE (MarkingHasRow /\ DeliveredHasRow)'
  <2>1. \A i \in Intent : HasRow(i)' = HasRow(i)
    BY <1>8 DEF HasRow, InsertShare, turnsVars, requestVars, shareVars, workerVars
  <2> QED BY <1>8, <2>1 DEF InsertShare, turnsVars, requestVars, shareVars, workerVars
<1>9. CASE WorkerRead
  <2>1. \A i \in Intent : HasRow(i)' = HasRow(i)
    BY <1>9 DEF HasRow, WorkerRead, turnsVars, requestVars, shareVars, workerVars
  <2> QED BY <1>9, <2>1 DEF WorkerRead, turnsVars, requestVars, shareVars, workerVars
<1>10. ASSUME NEW i \in Intent, WorkerTake(i) PROVE (MarkingHasRow /\ DeliveredHasRow)'
  <2>1. \A j \in Intent : HasRow(j)' = HasRow(j)
    BY <1>10 DEF HasRow, WorkerTake, turnsVars, requestVars, shareVars, workerVars
  <2> QED BY <1>10, <2>1 DEF WorkerTake, turnsVars, requestVars, shareVars, workerVars
<1>11. CASE WorkerSave
  <2>1. \A i \in Intent : HasRow(i) => HasRow(i)'
    BY <1>11, RowsStay DEF WorkerSave, Post
  <2>2. HasRow(hand)' /\ hand \in Intent
    BY <1>11, RowIsThere DEF WorkerSave, Post
  <2> QED BY <1>11, <2>1, <2>2 DEF WorkerSave, Post, turnsVars, requestVars, shareVars
<1>12. CASE WorkerMark
  <2>1. \A i \in Intent : HasRow(i)' = HasRow(i)
    BY <1>12 DEF HasRow, WorkerMark, turnsVars, requestVars, shareVars, workerVars
  <2> QED BY <1>12, <2>1 DEF WorkerMark, turnsVars, requestVars, shareVars, workerVars
<1>13. CASE WorkerFail
  <2>1. \A i \in Intent : HasRow(i)' = HasRow(i)
    BY <1>13
      DEF HasRow, WorkerFail, Fault, StopWorker, turnsVars, requestVars, shareVars,
          workerVars
  <2> QED BY <1>13, <2>1
      DEF WorkerFail, Fault, StopWorker, turnsVars, requestVars, shareVars, workerVars
<1>14. CASE Crash
  <2>1. \A i \in Intent : HasRow(i)' = HasRow(i)
    BY <1>14
      DEF HasRow, Crash, Fault, Fail, StopWorker, turnsVars, requestVars, shareVars,
          workerVars
  <2> QED BY <1>14, <2>1
      DEF Crash, Fault, Fail, StopWorker, turnsVars, requestVars, shareVars, workerVars
<1>15. CASE UNCHANGED vars
  BY <1>15 DEF vars, HasRow, turnsVars, requestVars, shareVars, workerVars
<1> QED BY <1>1, <1>2, <1>3, <1>4, <1>5, <1>6, <1>7, <1>8, <1>9, <1>10, <1>11, <1>12,
    <1>13, <1>14, <1>15 DEF Next, Worker

\* The agents that passed the brake are finitely many, and their number is one.
LEMMA PassingFinite ==
    IsFiniteSet(Passing) /\ Cardinality(Passing) \in Nat /\ Cardinality(Passing) <= Cardinality(Sharer)
    /\ Cardinality(Sharer) \in Nat
BY MessengerAssumption, FS_Subset, FS_CardinalityType DEF Passing

\* The brake gives no more leaves than there are agents.
LEMMA BrakeStep == ASSUME MInv, BrakeInv, [Next]_vars PROVE BrakeInv'
<1> USE IntentAssumption DEF TypeOK, MInv
<1>1. ASSUME NEW t \in Turn, Look(t) PROVE BrakeInv'
  <2>1. Queued' = Queued /\ Passing' = Passing
    BY <1>1 DEF Look, Queued, Passing, turnsVars, requestVars, shareVars, workerVars
  <2>2. batch' \subseteq Queued /\ (hand' # 0 => hand' \in Queued)
    BY <1>1 DEF Look, BrakeInv, Queued, turnsVars, requestVars, shareVars, workerVars
  <2> QED BY <2>1, <2>2 DEF BrakeInv
<1>2. ASSUME NEW t \in Turn, Record(t) PROVE BrakeInv'
  <2>1. Queued' = Queued /\ Passing' = Passing
    BY <1>2 DEF Record, Queued, Passing, turnsVars, requestVars, shareVars, workerVars
  <2>2. batch' \subseteq Queued /\ (hand' # 0 => hand' \in Queued)
    BY <1>2 DEF Record, BrakeInv, Queued, turnsVars, requestVars, shareVars, workerVars
  <2> QED BY <2>1, <2>2 DEF BrakeInv
<1>3. ASSUME NEW t \in Turn, BeginTurn(t) PROVE BrakeInv'
  <2>1. Queued' = Queued /\ Passing' = Passing
    BY <1>3
      DEF BeginTurn, Begin, SaveTurn, Queued, Passing, turnsVars, requestVars,
          shareVars, workerVars
  <2>2. batch' \subseteq Queued /\ (hand' # 0 => hand' \in Queued)
    BY <1>3
      DEF BeginTurn, Begin, SaveTurn, BrakeInv, Queued, turnsVars, requestVars,
          shareVars, workerVars
  <2> QED BY <2>1, <2>2 DEF BrakeInv
<1>4. ASSUME NEW t \in Turn, AnswerTurn(t) PROVE BrakeInv'
  <2>1. Queued' = Queued /\ Passing' = Passing
    BY <1>4
      DEF AnswerTurn, Answer, SaveTurn, Queued, Passing, turnsVars, requestVars,
          shareVars, workerVars
  <2>2. batch' \subseteq Queued /\ (hand' # 0 => hand' \in Queued)
    BY <1>4
      DEF AnswerTurn, Answer, SaveTurn, BrakeInv, Queued, turnsVars, requestVars,
          shareVars, workerVars
  <2> QED BY <2>1, <2>2 DEF BrakeInv
<1>5. ASSUME NEW t \in Turn, CacheAnswer(t) PROVE BrakeInv'
  <2>1. Queued' = Queued /\ Passing' = Passing
    BY <1>5
      DEF CacheAnswer, Queued, Passing, turnsVars, requestVars, shareVars, workerVars
  <2>2. batch' \subseteq Queued /\ (hand' # 0 => hand' \in Queued)
    BY <1>5
      DEF CacheAnswer, BrakeInv, Queued, turnsVars, requestVars, shareVars, workerVars
  <2> QED BY <2>1, <2>2 DEF BrakeInv
<1>6. ASSUME NEW t \in Turn, Drop(t) PROVE BrakeInv'
  <2>1. Queued' = Queued /\ Passing' = Passing
    BY <1>6
      DEF Drop, Fault, Fail, Queued, Passing, turnsVars, requestVars, shareVars,
          workerVars
  <2>2. batch' \subseteq Queued /\ (hand' # 0 => hand' \in Queued)
    BY <1>6
      DEF Drop, Fault, Fail, BrakeInv, Queued, turnsVars, requestVars, shareVars,
          workerVars
  <2> QED BY <2>1, <2>2 DEF BrakeInv
<1>7. ASSUME NEW s \in Sharer, CountShare(s) PROVE BrakeInv'
  <2>1. Queued' = Queued
    BY <1>7 DEF CountShare, Queued
  <2>2. Cardinality(Queued) < Limit /\ Cardinality(Queued) \in Nat
    BY <1>7, FS_CardinalityType DEF CountShare, BrakeInv
  <2>3. Cardinality(Passing') <= Cardinality(Sharer) /\ Cardinality(Passing') \in Nat
        /\ Cardinality(Sharer) \in Nat
    <3>1. Passing' \in SUBSET Sharer
      BY DEF Passing
    <3> QED BY <3>1, FS_Subset, FS_CardinalityType, MessengerAssumption
  <2>4. UNCHANGED <<batch, hand>>
    BY <1>7 DEF CountShare, workerVars
  <2> QED BY <2>1, <2>2, <2>3, <2>4, MessengerAssumption DEF BrakeInv
<1>8. ASSUME NEW s \in Sharer, InsertShare(s) PROVE BrakeInv'
  <2>1. Passing' = Passing \ {s} /\ s \in Passing
    BY <1>8 DEF InsertShare, Passing
  <2>2. Cardinality(Passing') = Cardinality(Passing) - 1
    BY <2>1, PassingFinite, FS_RemoveElement
  <2>3. /\ Cardinality(Queued) \in Nat
        /\ Cardinality(Queued) + Cardinality(Passing) < Limit + Cardinality(Sharer)
    BY <2>1, FS_CardinalityType DEF BrakeInv
  <2>4. IsFiniteSet(Queued') /\ Cardinality(Queued') \in {Cardinality(Queued),
      Cardinality(Queued) + 1}
    <3>1. CASE UNCHANGED queue
      <4>1. Queued' = Queued
        BY <3>1 DEF Queued
      <4> QED BY <4>1 DEF BrakeInv
    <3>2. ASSUME NEW i \in Intent, queue' = [queue EXCEPT ![i] = "pending"]
          PROVE  IsFiniteSet(Queued')
                 /\ Cardinality(Queued') \in {Cardinality(Queued),
                 Cardinality(Queued) + 1}
      <4>1. Queued' = Queued \cup {i}
        BY <3>2 DEF Queued
      <4> QED BY <4>1, FS_AddElement DEF BrakeInv
    <3> QED BY <1>8, <3>1, <3>2 DEF InsertShare
  <2>5. UNCHANGED <<batch, hand>> /\ Queued \subseteq Queued'
    BY <1>8 DEF InsertShare, workerVars, Queued
  <2> QED BY <2>2, <2>3, <2>4, <2>5, PassingFinite, MessengerAssumption DEF BrakeInv
<1>9. CASE WorkerRead
  <2>1. Queued' = Queued /\ Passing' = Passing
    BY <1>9
      DEF WorkerRead, Queued, Passing, turnsVars, requestVars, shareVars, workerVars
  <2>2. batch' \subseteq Queued /\ (hand' # 0 => hand' \in Queued)
    BY <1>9
      DEF WorkerRead, BrakeInv, Queued, turnsVars, requestVars, shareVars, workerVars
  <2> QED BY <2>1, <2>2 DEF BrakeInv
<1>10. ASSUME NEW i \in Intent, WorkerTake(i) PROVE BrakeInv'
  <2>1. Queued' = Queued
    <3>1. \A j \in Intent : queue'[j] # "none" <=> queue[j] # "none"
      BY <1>10 DEF WorkerTake, BrakeInv, Queued
    <3> QED BY <3>1 DEF Queued
  <2>2. Passing' = Passing
    BY <1>10 DEF WorkerTake, Passing
  <2>3. batch' \subseteq Queued /\ (hand' # 0 => hand' \in Queued)
    BY <1>10 DEF WorkerTake, BrakeInv
  <2> QED BY <2>1, <2>2, <2>3 DEF BrakeInv
<1>11. CASE WorkerSave
  <2>1. Queued' = Queued /\ Passing' = Passing
    BY <1>11
      DEF WorkerSave, Post, SaveTurn, Queued, Passing, turnsVars, requestVars,
          shareVars, workerVars
  <2>2. batch' \subseteq Queued /\ (hand' # 0 => hand' \in Queued)
    BY <1>11
      DEF WorkerSave, Post, SaveTurn, BrakeInv, Queued, turnsVars, requestVars,
          shareVars, workerVars
  <2> QED BY <2>1, <2>2 DEF BrakeInv
<1>12. CASE WorkerMark
  <2>1. Queued' = Queued
    BY <1>12 DEF WorkerMark, Queued, MarkingHasRow, BrakeInv
  <2>2. Passing' = Passing
    BY <1>12 DEF WorkerMark, Passing
  <2>3. batch' \subseteq Queued /\ hand' = 0
    BY <1>12 DEF WorkerMark, BrakeInv
  <2> QED BY <2>1, <2>2, <2>3 DEF BrakeInv
<1>13. CASE WorkerFail
  <2>1. Queued' = Queued /\ Passing' = Passing
    BY <1>13
      DEF WorkerFail, Fault, StopWorker, Queued, Passing, turnsVars, requestVars,
          shareVars, workerVars
  <2>2. batch' \subseteq Queued /\ (hand' # 0 => hand' \in Queued)
    BY <1>13
      DEF WorkerFail, Fault, StopWorker, BrakeInv, Queued, turnsVars, requestVars,
          shareVars, workerVars
  <2> QED BY <2>1, <2>2 DEF BrakeInv
<1>14. CASE Crash
  <2>1. Queued' = Queued
    BY <1>14 DEF Crash, Queued
  <2>2. Passing' = {}
    BY <1>14 DEF Crash, Passing
  <2>3. Cardinality(Passing') = 0
    BY <2>2, FS_EmptySet
  <2>4. Cardinality(Queued) \in Nat
    BY FS_CardinalityType DEF BrakeInv
  <2>5. batch' = {} /\ hand' = 0
    BY <1>14 DEF Crash, StopWorker
  <2> QED BY <2>1, <2>2, <2>3, <2>4, <2>5, PassingFinite, MessengerAssumption
      DEF BrakeInv
<1>15. CASE UNCHANGED vars
  BY <1>15
    DEF vars, BrakeInv, Queued, Passing, turnsVars, requestVars, shareVars, workerVars
<1> QED BY <1>1, <1>2, <1>3, <1>4, <1>5, <1>6, <1>7, <1>8, <1>9, <1>10, <1>11, <1>12,
    <1>13, <1>14, <1>15 DEF Next, Worker

-----------------------------------------------------------------------------
\* A row of a turn is not one of an intent; one of an intent is new.
LEMMA SaveOfTurn ==
    ASSUME conv \in [Session -> Seq(Row)], NEW s \in Session, NEW role, NEW t \in Turn,
           SaveTurn(s, role, t)
    PROVE  Posted' = Posted /\ PostedIntents' = PostedIntents
<1>1. \A i \in Intent : IntentRows(i)' = IntentRows(i)
  <2> SUFFICES ASSUME NEW i \in Intent
               PROVE  IntentRows(i)' = IntentRows(i)
    OBVIOUS
  <2>1. \A u \in Session : \A n :
          (n \in 1 .. Len(conv[u]) /\ conv[u][n].by = i)
            <=> (n \in 1 .. Len(conv'[u]) /\ conv'[u][n].by = i)
    <3> SUFFICES ASSUME NEW u \in Session, NEW n
                 PROVE  (n \in 1 .. Len(conv[u]) /\ conv[u][n].by = i)
                          <=> (n \in 1 .. Len(conv'[u]) /\ conv'[u][n].by = i)
      OBVIOUS
    <3>1. CASE u # s
      BY <3>1 DEF SaveTurn
    <3>2. CASE u = s
      <4>1. conv'[s] = Append(conv[s], [role |-> role, by |-> t])
        BY DEF SaveTurn
      <4>2. t # i
        BY WritersAssumption DEF Intent
      <4> QED BY <3>2, <4>1, <4>2
    <3> QED BY <3>1, <3>2
  <2> QED BY <2>1 DEF IntentRows
<1> QED BY <1>1 DEF Posted, PostedIntents

LEMMA SaveOfIntent ==
    ASSUME conv \in [Session -> Seq(Row)], NEW s \in Session, NEW role, NEW i \in Intent,
           SaveTurn(s, role, i), IsFiniteSet(Posted)
    PROVE  /\ IsFiniteSet(Posted') /\ Cardinality(Posted') = Cardinality(Posted) + 1
           /\ PostedIntents' = PostedIntents \cup {i}
<1> DEFINE new == <<s, Len(conv[s]) + 1>>
<1>1. conv'[s] = Append(conv[s], [role |-> role, by |-> i])
      /\ \A u \in Session : u # s => conv'[u] = conv[u]
  BY DEF SaveTurn
<1>2. new \notin Posted
  BY DEF Posted, IntentRows
<1>3. \A j \in Intent :
        IntentRows(j)' = IF j = i THEN IntentRows(j) \cup {new} ELSE IntentRows(j)
  <2> SUFFICES ASSUME NEW j \in Intent
               PROVE  IntentRows(j)' = IF j = i THEN IntentRows(j) \cup {new}
                                       ELSE IntentRows(j)
    OBVIOUS
  <2>1. \A u \in Session : \A n :
          (n \in 1 .. Len(conv'[u]) /\ conv'[u][n].by = j)
            <=> \/ n \in 1 .. Len(conv[u]) /\ conv[u][n].by = j
                \/ j = i /\ <<u, n>> = new
    <3> SUFFICES ASSUME NEW u \in Session, NEW n
                 PROVE  (n \in 1 .. Len(conv'[u]) /\ conv'[u][n].by = j)
                          <=> \/ n \in 1 .. Len(conv[u]) /\ conv[u][n].by = j
                              \/ j = i /\ <<u, n>> = new
      OBVIOUS
    <3>1. CASE u # s
      BY <1>1, <3>1
    <3>2. CASE u = s
      BY <1>1, <3>2
    <3> QED BY <3>1, <3>2
  <2> QED BY <2>1 DEF IntentRows
<1>4. Posted' = Posted \cup {new}
  BY <1>3 DEF Posted
<1>5. PostedIntents' = PostedIntents \cup {i}
  BY <1>3 DEF PostedIntents
<1> QED BY <1>2, <1>4, <1>5, FS_AddElement

\* The sets that RepeatsCounted counts are finite.
LEMMA CountsFinite ==
    ASSUME BrakeInv, RepeatInv
    PROVE  /\ IsFiniteSet(PostedIntents) /\ IsFiniteSet(Loose)
           /\ Cardinality(Posted) \in Nat /\ Cardinality(PostedIntents) \in Nat
           /\ Cardinality(Loose) \in Nat
<1>1. IsFiniteSet(PostedIntents)
  BY FS_Subset DEF BrakeInv, RepeatInv, PostedIsQueued
<1>2. IsFiniteSet(Loose)
  BY <1>1, FS_Subset DEF Loose
<1> QED BY <1>1, <1>2, FS_CardinalityType DEF RepeatInv, RepeatsCounted

\* Steps that leave the rows of intents and the worker alone.
LEMMA RepeatFrame ==
    ASSUME MInv, BrakeInv, RepeatInv, UNCHANGED <<queue, workerVars>>,
           Posted' = Posted, PostedIntents' = PostedIntents, faults' \in {faults, faults + 1}
    PROVE  RepeatInv'
<1>1. Loose' = Loose
  BY DEF Loose, workerVars
<1>2. WorkerPending' /\ PostedIsQueued'
  BY DEF RepeatInv, WorkerPending, PostedIsQueued, Queued, workerVars
<1>3. faults \in Nat
  BY MessengerAssumption DEF MInv, TypeOK
<1>4. RepeatsCounted'
  BY <1>1, <1>3, CountsFinite DEF RepeatInv, RepeatsCounted
<1> QED BY <1>2, <1>4 DEF RepeatInv

\* The worker stops: what it was about to mark is loose now.
LEMMA RepeatStop ==
    ASSUME MInv, BrakeInv, RepeatInv, StopWorker, UNCHANGED <<conv, queue>>, Fault
    PROVE  RepeatInv'
<1>1. Posted' = Posted /\ PostedIntents' = PostedIntents
  BY DEF Posted, PostedIntents, IntentRows
<1>2. batch' = {} /\ hand' = 0 /\ ~marking'
  BY DEF StopWorker
<1>3. WorkerPending' /\ PostedIsQueued'
  BY <1>1, <1>2 DEF RepeatInv, WorkerPending, PostedIsQueued, Queued
<1>4. Loose \cup {hand} \in SUBSET (Loose \cup {hand}) /\ Loose' \subseteq Loose \cup {hand}
  BY <1>1, <1>2 DEF Loose
<1>5. IsFiniteSet(Loose \cup {hand}) /\ Cardinality(Loose \cup {hand}) <= Cardinality(Loose) + 1
  BY CountsFinite, FS_AddElement
<1>6. Cardinality(Loose') <= Cardinality(Loose) + 1 /\ Cardinality(Loose') \in Nat
  <2>1. IsFiniteSet(Loose') /\ Cardinality(Loose') <= Cardinality(Loose \cup {hand})
    BY <1>4, <1>5, FS_Subset
  <2> QED BY <2>1, <1>5, CountsFinite, FS_CardinalityType
<1>7. faults' = faults + 1 /\ faults \in Nat
  BY MessengerAssumption DEF Fault, MInv, TypeOK
<1>8. RepeatsCounted'
  BY <1>1, <1>6, <1>7, CountsFinite DEF RepeatInv, RepeatsCounted
<1> QED BY <1>3, <1>8 DEF RepeatInv

\* A repetition takes a fault: the worker's row is loose when it is shown again.
LEMMA RepeatStep == ASSUME MInv, BrakeInv, RepeatInv, [Next]_vars PROVE RepeatInv'
<1> USE DEF turnsVars, requestVars, shareVars
<1>1. conv \in [Session -> Seq(Row)] /\ sess \in [Turn -> Session] /\ faults \in Nat
      /\ queue \in [Intent -> {"none", "pending", "delivered", "failed"}]
      /\ batch \subseteq Intent /\ 0 \notin Intent
  BY MessengerAssumption, IntentAssumption DEF MInv, TypeOK
<1>2. UNCHANGED conv => Posted' = Posted /\ PostedIntents' = PostedIntents
  BY DEF Posted, PostedIntents, IntentRows
<1>3. ASSUME NEW t \in Turn, Look(t) PROVE RepeatInv'
  BY <1>1, <1>2, <1>3, RepeatFrame DEF Look
<1>4. ASSUME NEW t \in Turn, Record(t) PROVE RepeatInv'
  BY <1>1, <1>2, <1>4, RepeatFrame DEF Record
<1>5. ASSUME NEW t \in Turn, BeginTurn(t) PROVE RepeatInv'
  <2>1. Posted' = Posted /\ PostedIntents' = PostedIntents
    BY <1>1, <1>5, SaveOfTurn DEF BeginTurn, Begin
  <2> QED BY <1>1, <1>5, <2>1, RepeatFrame DEF BeginTurn
<1>6. ASSUME NEW t \in Turn, AnswerTurn(t) PROVE RepeatInv'
  <2>1. Posted' = Posted /\ PostedIntents' = PostedIntents
    BY <1>1, <1>6, SaveOfTurn DEF AnswerTurn, Answer
  <2> QED BY <1>1, <1>6, <2>1, RepeatFrame DEF AnswerTurn
<1>7. ASSUME NEW t \in Turn, CacheAnswer(t) PROVE RepeatInv'
  BY <1>1, <1>2, <1>7, RepeatFrame DEF CacheAnswer
<1>8. ASSUME NEW t \in Turn, Drop(t) PROVE RepeatInv'
  BY <1>1, <1>2, <1>8, RepeatFrame DEF Drop, Fault, Fail
<1>9. ASSUME NEW s \in Sharer, CountShare(s) PROVE RepeatInv'
  BY <1>1, <1>2, <1>9, RepeatFrame DEF CountShare
<1>10. ASSUME NEW s \in Sharer, InsertShare(s) PROVE RepeatInv'
  <2>1. Posted' = Posted /\ PostedIntents' = PostedIntents
    BY <1>2, <1>10 DEF InsertShare
  <2>2. UNCHANGED <<workerVars, faults>>
    BY <1>10 DEF InsertShare
  <2>3. CASE UNCHANGED queue
    BY <2>1, <2>2, <2>3, RepeatFrame
  <2>4. ASSUME NEW i \in Intent, queue[i] = "none", queue' = [queue EXCEPT ![i] = "pending"]
        PROVE  RepeatInv'
    <3>1. WorkerPending' /\ PostedIsQueued'
      BY <1>1, <2>1, <2>2, <2>4
      DEF RepeatInv, WorkerPending, PostedIsQueued, Queued, workerVars
    <3>2. Loose' = Loose
      <4>1. i \notin PostedIntents
        BY <2>4 DEF RepeatInv, PostedIsQueued, Queued
      <4>2. \A j \in PostedIntents : queue'[j] = queue[j]
        BY <1>1, <2>4, <4>1 DEF PostedIntents
      <4> QED BY <2>1, <2>2, <4>2 DEF Loose, workerVars
    <3> QED BY <2>1, <2>2, <3>1, <3>2 DEF RepeatInv, RepeatsCounted
  <2> QED BY <1>10, <2>3, <2>4 DEF InsertShare
<1>11. CASE WorkerRead
  <2>1. Posted' = Posted /\ PostedIntents' = PostedIntents /\ Loose' = Loose
    BY <1>2, <1>11 DEF WorkerRead, Loose
  <2>2. WorkerPending' /\ PostedIsQueued'
    BY <1>1, <1>11, <2>1
    DEF WorkerRead, RepeatInv, WorkerPending, PostedIsQueued, Queued
  <2> QED BY <1>11, <2>1, <2>2 DEF WorkerRead, RepeatInv, RepeatsCounted
<1>12. ASSUME NEW i \in Intent, WorkerTake(i) PROVE RepeatInv'
  <2>1. Posted' = Posted /\ PostedIntents' = PostedIntents /\ UNCHANGED <<marking, faults>>
    BY <1>2, <1>12 DEF WorkerTake
  <2>2. hand = 0 /\ i \in batch /\ batch' = batch \ {i} /\ hand' \in {0, i}
        /\ (hand' = i => UNCHANGED queue) /\ ~marking
        /\ \A j \in Intent : queue'[j] = queue[j] \/ (j = i /\ queue'[j] = "failed")
    BY <1>1, <1>12 DEF WorkerTake, MInv, MarkingHasRow
  <2>3. WorkerPending' /\ PostedIsQueued'
    BY <1>1, <2>1, <2>2
    DEF RepeatInv, WorkerPending, PostedIsQueued, Queued, PostedIntents
  <2>4. Loose' \in SUBSET Loose
    BY <2>1, <2>2 DEF Loose, PostedIntents
  <2>5. Cardinality(Loose') <= Cardinality(Loose) /\ Cardinality(Loose') \in Nat
    BY <2>4, CountsFinite, FS_Subset, FS_CardinalityType
  <2>6. RepeatsCounted'
    BY <1>1, <2>1, <2>5, CountsFinite DEF RepeatInv, RepeatsCounted
  <2> QED BY <2>3, <2>6 DEF RepeatInv
<1>13. CASE WorkerSave
  <2>1. hand \in Intent /\ ~marking /\ marking' /\ UNCHANGED <<queue, batch, hand, faults>>
        /\ SaveTurn(place, "assistant", hand) /\ place \in Session
    BY <1>13 DEF WorkerSave, Post, MInv, MarkingHasRow, TypeOK
  <2>2. /\ IsFiniteSet(Posted') /\ Cardinality(Posted') = Cardinality(Posted) + 1
        /\ PostedIntents' = PostedIntents \cup {hand}
    BY <1>1, <2>1, SaveOfIntent DEF RepeatInv, RepeatsCounted
  <2>3. queue[hand] = "pending"
    BY <1>1, <2>1 DEF RepeatInv, WorkerPending
  <2>4. WorkerPending' /\ PostedIsQueued'
    BY <1>1, <2>1, <2>2, <2>3 DEF RepeatInv, WorkerPending, PostedIsQueued, Queued
  <2>5. Loose' = Loose \ {hand}
    BY <2>1, <2>2 DEF Loose
  <2>6. CASE hand \in PostedIntents
    <3>1. Cardinality(Loose') = Cardinality(Loose) - 1
      <4>1. hand \in Loose
        BY <2>1, <2>3, <2>6 DEF Loose
      <4> QED BY <2>5, <4>1, CountsFinite, FS_RemoveElement
    <3>2. PostedIntents' = PostedIntents
      BY <2>2, <2>6
    <3>3. Cardinality(Posted') + Cardinality(Loose') = Cardinality(Posted) + Cardinality(Loose)
      BY <2>2, <3>1, CountsFinite
    <3>4. RepeatsCounted'
      BY <2>1, <2>2, <3>2, <3>3 DEF RepeatInv, RepeatsCounted
    <3> QED BY <2>4, <3>4 DEF RepeatInv
  <2>7. CASE hand \notin PostedIntents
    <3>1. Loose' = Loose
      BY <2>5, <2>7 DEF Loose
    <3>2. Cardinality(PostedIntents') = Cardinality(PostedIntents) + 1
      BY <2>2, <2>7, CountsFinite, FS_AddElement
    <3>3. RepeatsCounted'
      BY <1>1, <2>1, <2>2, <3>1, <3>2, CountsFinite DEF RepeatInv, RepeatsCounted
    <3> QED BY <2>4, <3>3 DEF RepeatInv
  <2> QED BY <2>6, <2>7
<1>14. CASE WorkerMark
  <2>1. Posted' = Posted /\ PostedIntents' = PostedIntents
        /\ hand \in Intent /\ marking /\ hand' = 0 /\ ~marking'
        /\ queue' = [queue EXCEPT ![hand] = "delivered"] /\ UNCHANGED <<batch, faults>>
    BY <1>2, <1>14 DEF WorkerMark, MInv, MarkingHasRow
  <2>2. WorkerPending' /\ PostedIsQueued'
    BY <1>1, <2>1 DEF RepeatInv, WorkerPending, PostedIsQueued, Queued, PostedIntents
  <2>3. Loose' = Loose
    BY <1>1, <2>1 DEF Loose, PostedIntents
  <2> QED BY <2>1, <2>2, <2>3 DEF RepeatInv, RepeatsCounted
<1>15. CASE WorkerFail
  BY <1>15, RepeatStop DEF WorkerFail
<1>16. CASE Crash
  BY <1>16, RepeatStop DEF Crash, Fail
<1>17. CASE UNCHANGED vars
  BY <1>1, <1>2, <1>17, RepeatFrame DEF vars
<1> QED BY <1>3, <1>4, <1>5, <1>6, <1>7, <1>8, <1>9, <1>10, <1>11, <1>12, <1>13,
    <1>14, <1>15, <1>16, <1>17 DEF Next, Worker

-----------------------------------------------------------------------------
\* An intent for a thread that is gone never gets into a conversation.
LEMMA AddressedStep ==
    ASSUME MInv, BrakeInv, RepeatInv, ShownIsAddressed, [Next]_vars
    PROVE  ShownIsAddressed'
<1> USE DEF ShownIsAddressed
<1>1. conv \in [Session -> Seq(Row)] /\ sess \in [Turn -> Session]
      /\ target \in [Intent -> Session \cup {Default, Gone}] /\ 0 \notin Intent
      /\ (hand # 0 => hand \in Intent /\ queue[hand] # "none")
      /\ \A i \in PostedIntents : i \in Intent /\ queue[i] # "none"
  BY IntentAssumption
    DEF MInv, TypeOK, RepeatInv, WorkerPending, PostedIsQueued, Queued, PostedIntents
<1>2. UNCHANGED conv => PostedIntents' = PostedIntents
  BY DEF PostedIntents, IntentRows
<1>3. ASSUME PostedIntents' = PostedIntents, UNCHANGED target, hand' \in {0, hand}
      PROVE  ShownIsAddressed'
  BY <1>3
<1>4. ASSUME NEW t \in Turn, BeginTurn(t) \/ AnswerTurn(t) PROVE ShownIsAddressed'
  <2>1. PostedIntents' = PostedIntents
    BY <1>1, <1>4, SaveOfTurn DEF BeginTurn, Begin, AnswerTurn, Answer
  <2> QED BY <1>3, <1>4, <2>1 DEF BeginTurn, AnswerTurn, shareVars, workerVars
<1>5. ASSUME NEW t \in Turn, Look(t) \/ Record(t) \/ CacheAnswer(t) \/ Drop(t)
      PROVE  ShownIsAddressed'
  BY <1>2, <1>3, <1>5
    DEF Look, Record, CacheAnswer, Drop, Fail, turnsVars, shareVars, workerVars
<1>6. ASSUME NEW s \in Sharer, CountShare(s) PROVE ShownIsAddressed'
  BY <1>2, <1>3, <1>6 DEF CountShare, turnsVars, workerVars
<1>7. ASSUME NEW s \in Sharer, InsertShare(s) PROVE ShownIsAddressed'
  <2>1. PostedIntents' = PostedIntents /\ hand' = hand
    BY <1>2, <1>7 DEF InsertShare, turnsVars, workerVars
  <2>2. \A i \in Intent : queue[i] # "none" => target'[i] = target[i]
    BY <1>1, <1>7 DEF InsertShare
  <2> QED BY <1>1, <2>1, <2>2
<1>8. ASSUME NEW i \in Intent, WorkerTake(i) PROVE ShownIsAddressed'
  <2>1. PostedIntents' = PostedIntents /\ UNCHANGED target
        /\ (hand' = hand \/ (hand' = i /\ target[i] # Gone))
    BY <1>2, <1>8 DEF WorkerTake, turnsVars
  <2> QED BY <2>1
<1>9. CASE WorkerSave
  <2>1. hand \in Intent /\ hand # 0 /\ UNCHANGED <<hand, target>>
        /\ SaveTurn(place, "assistant", hand) /\ place \in Session
    BY <1>1, <1>9 DEF WorkerSave, Post, MInv, MarkingHasRow, shareVars
  <2>2. PostedIntents' = PostedIntents \cup {hand}
    BY <1>1, <2>1, SaveOfIntent DEF RepeatInv, RepeatsCounted
  <2> QED BY <2>1, <2>2
<1>10. CASE WorkerRead \/ WorkerMark \/ WorkerFail
  BY <1>2, <1>3, <1>10 DEF WorkerRead, WorkerMark, WorkerFail, StopWorker, turnsVars, shareVars
<1>11. CASE Crash
  BY <1>2, <1>3, <1>11 DEF Crash, StopWorker, Fail
<1>12. CASE UNCHANGED vars
  BY <1>2, <1>3, <1>12 DEF vars, turnsVars, shareVars, workerVars
<1> QED BY <1>4, <1>5, <1>6, <1>7, <1>8, <1>9, <1>10, <1>11, <1>12 DEF Next, Worker

\* The steps of the worker and of the agents as steps of the promise: a row is a
\* showing, the mark a delivery, a thread that is gone the giving up; a second
\* row of an intent is none.
LEMMA DeliveryStep ==
    ASSUME IInv, [Next]_vars
    PROVE  [Delivery!Next]_Delivery!vars
<1> USE DEF Delivery!vars
<1>1. conv \in [Session -> Seq(Row)] /\ sess \in [Turn -> Session]
      /\ queue \in [Intent -> {"none", "pending", "delivered", "failed"}] /\ 0 \notin Intent
  BY IntentAssumption DEF IInv, MInv, TypeOK
<1>2. UNCHANGED conv => PostedIntents' = PostedIntents
  BY DEF PostedIntents, IntentRows
<1>3. ASSUME PostedIntents' = PostedIntents, UNCHANGED queue
      PROVE  [Delivery!Next]_Delivery!vars
  BY <1>3
<1>4. ASSUME NEW t \in Turn, BeginTurn(t) \/ AnswerTurn(t) PROVE [Delivery!Next]_Delivery!vars
  <2>1. PostedIntents' = PostedIntents
    BY <1>1, <1>4, SaveOfTurn DEF BeginTurn, Begin, AnswerTurn, Answer
  <2> QED BY <1>3, <1>4, <2>1 DEF BeginTurn, AnswerTurn, shareVars
<1>5. ASSUME NEW t \in Turn, Look(t) \/ Record(t) \/ CacheAnswer(t) \/ Drop(t)
      PROVE  [Delivery!Next]_Delivery!vars
  BY <1>2, <1>3, <1>5 DEF Look, Record, CacheAnswer, Drop, Fail, turnsVars, shareVars
<1>6. ASSUME NEW s \in Sharer, CountShare(s) PROVE [Delivery!Next]_Delivery!vars
  BY <1>2, <1>3, <1>6 DEF CountShare, turnsVars
<1>7. ASSUME NEW s \in Sharer, InsertShare(s) PROVE [Delivery!Next]_Delivery!vars
  <2>1. PostedIntents' = PostedIntents
    BY <1>2, <1>7 DEF InsertShare, turnsVars
  <2>2. ASSUME NEW i \in Intent, queue[i] = "none", queue' = [queue EXCEPT ![i] = "pending"]
        PROVE  Delivery!Ask(i)
    BY <2>1, <2>2 DEF Delivery!Ask
  <2> QED BY <1>3, <1>7, <2>1, <2>2 DEF InsertShare, Delivery!Next
<1>8. ASSUME NEW i \in Intent, WorkerTake(i) PROVE [Delivery!Next]_Delivery!vars
  <2>1. PostedIntents' = PostedIntents
    BY <1>2, <1>8 DEF WorkerTake, turnsVars
  <2>2. CASE UNCHANGED queue
    BY <1>3, <2>1, <2>2
  <2>3. CASE target[i] = Gone /\ queue' = [queue EXCEPT ![i] = "failed"]
    <3>1. queue[i] = "pending" /\ i \notin PostedIntents
      BY <1>8, <2>3 DEF WorkerTake, IInv, RepeatInv, WorkerPending, ShownIsAddressed
    <3> QED BY <2>1, <2>3, <3>1 DEF Delivery!GiveUp, Delivery!Settle, Delivery!Next
  <2> QED BY <1>8, <2>2, <2>3 DEF WorkerTake
<1>9. CASE WorkerSave
  <2>1. hand \in Intent /\ hand # 0 /\ UNCHANGED queue
        /\ SaveTurn(place, "assistant", hand) /\ place \in Session
    BY <1>1, <1>9 DEF WorkerSave, Post, IInv, MInv, TypeOK, MarkingHasRow, shareVars
  <2>2. PostedIntents' = PostedIntents \cup {hand}
    BY <1>1, <2>1, SaveOfIntent DEF IInv, RepeatInv, RepeatsCounted
  <2>3. queue[hand] = "pending"
    BY <2>1 DEF IInv, RepeatInv, WorkerPending
  <2> QED BY <2>1, <2>2, <2>3 DEF Delivery!Show, Delivery!Next
<1>10. CASE WorkerMark
  <2>1. hand \in Intent /\ HasRow(hand) /\ queue' = [queue EXCEPT ![hand] = "delivered"]
    BY <1>10 DEF WorkerMark, IInv, MInv, MarkingHasRow
  <2>2. queue[hand] = "pending" /\ PostedIntents' = PostedIntents
    BY <1>1, <1>2, <1>10, <2>1 DEF WorkerMark, IInv, RepeatInv, WorkerPending, turnsVars
  <2>3. hand \in PostedIntents
    <3>1. PICK s \in Session : \E n \in 1 .. Len(conv[s]) : conv[s][n].by = hand
      BY <2>1 DEF HasRow
    <3>2. PICK n \in 1 .. Len(conv[s]) : conv[s][n].by = hand
      BY <3>1
    <3>3. <<s, n>> \in IntentRows(hand)
      BY <3>2 DEF IntentRows
    <3> QED BY <2>1, <3>3 DEF PostedIntents
  <2> QED BY <2>1, <2>2, <2>3 DEF Delivery!Deliver, Delivery!Settle, Delivery!Next
<1>11. CASE WorkerRead \/ WorkerFail
  BY <1>2, <1>3, <1>11 DEF WorkerRead, WorkerFail, turnsVars, shareVars
<1>12. CASE Crash
  BY <1>2, <1>3, <1>12 DEF Crash, Fail
<1>13. CASE UNCHANGED vars
  BY <1>2, <1>3, <1>13 DEF vars, turnsVars, shareVars
<1> QED BY <1>4, <1>5, <1>6, <1>7, <1>8, <1>9, <1>10, <1>11, <1>12, <1>13 DEF Next, Worker

-----------------------------------------------------------------------------
\* The invariant holds at the start, is kept by every step, and so always holds.
LEMMA InitMInv == Init => MInv
<1> SUFFICES ASSUME Init PROVE MInv
  OBVIOUS
<1> USE MessengerAssumption, IntentAssumption DEF Init, TurnsInit, At
<1>1. TypeOK
  <2>1. faults \in 0 .. MaxFaults
    OBVIOUS
  <2>2. sharing \in [Sharer -> BOOLEAN] /\ marking \in BOOLEAN
    OBVIOUS
  <2>3. conv \in [Session -> Seq(Row)]
    OBVIOUS
  <2> QED BY <2>1, <2>2, <2>3 DEF TypeOK
<1>2. RequestPhase /\ BegunIsCached /\ CompanyCrowds /\ LateRequest /\ RetryNeedsFault
  BY DEF RequestPhase, BegunIsCached, CompanyCrowds, LateRequest, RetryNeedsFault,
      Active
<1>3. MarkingHasRow /\ DeliveredHasRow
  BY DEF MarkingHasRow, DeliveredHasRow
<1> QED BY <1>1, <1>2, <1>3 DEF MInv

LEMMA InitBrake == Init => BrakeInv
BY FS_EmptySet DEF Init, BrakeInv, Queued, Passing

LEMMA InitRepeat == Init => RepeatInv
<1> SUFFICES ASSUME Init PROVE RepeatInv
  OBVIOUS
<1>1. \A s \in Session : conv[s] = <<>>
  BY DEF Init, TurnsInit
<1>2. \A i \in Intent : IntentRows(i) = {}
  BY <1>1 DEF IntentRows
<1>3. Posted = {} /\ PostedIntents = {} /\ Loose = {} /\ faults = 0
  BY <1>2 DEF Posted, PostedIntents, Loose, Init
<1>4. RepeatsCounted
  BY <1>3, FS_EmptySet DEF RepeatsCounted
<1>5. WorkerPending /\ PostedIsQueued
  BY <1>3 DEF WorkerPending, PostedIsQueued, Init
<1> QED BY <1>4, <1>5 DEF RepeatInv

LEMMA InitAddressed == Init => ShownIsAddressed
<1> SUFFICES ASSUME Init PROVE ShownIsAddressed
  OBVIOUS
<1>1. \A s \in Session : conv[s] = <<>>
  BY DEF Init, TurnsInit
<1>2. PostedIntents = {}
  BY <1>1 DEF PostedIntents, IntentRows
<1> QED BY <1>2 DEF Init, ShownIsAddressed

LEMMA MInvStep == MInv /\ [Next]_vars => MInv'
BY TypeStep, PhaseStep, RetryStep, DeliverStep DEF MInv

LEMMA Invariance == Spec => []MInv
BY InitMInv, MInvStep, PTL DEF Spec

(* The state of the messenger keeps its type.                              *)
THEOREM TypeCorrect == Spec => []TypeOK
BY Invariance, PTL DEF MInv

(* Without a fault and without two of its requests at once, a message is   *)
(* processed once, however often it is sent.                               *)
THEOREM RetryAlwaysNeedsFault == Spec => []RetryNeedsFault
BY Invariance, PTL DEF MInv

(* Whatever fails or crashes, an intent marked delivered is in a           *)
(* conversation.                                                           *)
THEOREM DeliveredAlwaysHasRow == Spec => []DeliveredHasRow
BY Invariance, PTL DEF MInv

\* The same for what is counted, and where it is shown.
LEMMA CountsInvariance == Spec => []IInv
<1>1. Init => IInv
  BY InitMInv, InitBrake, InitRepeat, InitAddressed DEF IInv
<1>2. IInv /\ [Next]_vars => IInv'
  BY MInvStep, BrakeStep, RepeatStep, AddressedStep DEF IInv
<1> QED BY <1>1, <1>2, PTL DEF Spec

(* However often the worker fails or the process dies, an intent's text is *)
(* shown again once per fault at most.                                     *)
THEOREM RepeatAlwaysNeedsFault == Spec => []RepeatNeedsFault
<1>1. IInv => RepeatNeedsFault
  <2> SUFFICES ASSUME IInv PROVE RepeatNeedsFault
    OBVIOUS
  <2>1. faults \in Nat
    BY MessengerAssumption DEF IInv, MInv, TypeOK
  <2> QED BY <2>1, CountsFinite DEF IInv, RepeatInv, RepeatsCounted, RepeatNeedsFault
<1> QED BY <1>1, CountsInvariance, PTL

(* Delivery implements OutboundDelivery, for any number of intents and     *)
(* agents and whatever fails between the two databases: at least once      *)
(* before the mark, and no mark that is taken back.                        *)
THEOREM DeliveryImplemented == Spec => ImplementsDelivery
<1>1. Init => Delivery!Init
  <2> SUFFICES ASSUME Init PROVE Delivery!Init
    OBVIOUS
  <2>1. \A s \in Session : conv[s] = <<>>
    BY DEF Init, TurnsInit
  <2>2. PostedIntents = {}
    BY <2>1 DEF PostedIntents, IntentRows
  <2> QED BY <2>2 DEF Init, Delivery!Init
<1>2. IInv /\ [Next]_vars => [Delivery!Next]_Delivery!vars
  BY DeliveryStep
<1> QED BY <1>1, <1>2, CountsInvariance, PTL DEF Spec, ImplementsDelivery, Delivery!Spec

(* The brake is passed by fewer than the limit and the agents that share   *)
(* at once together.                                                       *)
THEOREM BrakeAlwaysHolds == Spec => []ShareBrake
<1>1. IInv => ShareBrake
  <2> SUFFICES ASSUME IInv, Queued # {}
      PROVE Cardinality(Queued) < Limit + Cardinality(Sharer)
    BY DEF ShareBrake
  <2>1. Cardinality(Queued) \in Nat
    BY FS_CardinalityType DEF IInv, BrakeInv
  <2> QED BY <2>1, PassingFinite, MessengerAssumption DEF IInv, BrakeInv
<1> QED BY <1>1, CountsInvariance, PTL

\* What a request, the worker or a crash does to the conversations is one of
\* the steps that SessionTurns allows, or none.
LEMMA TurnsStep == ASSUME MInv, [Next]_vars PROVE [TurnsNext]_turnsVars
<1>1. ASSUME NEW t \in Turn, \/ Look(t) \/ Record(t) \/ BeginTurn(t) \/ AnswerTurn(t)
                            \/ CacheAnswer(t)
      PROVE  [TurnsNext]_turnsVars
  BY <1>1 DEF Look, Record, BeginTurn, AnswerTurn, CacheAnswer, TurnsNext
<1>2. ASSUME NEW t \in Turn, Drop(t) PROVE [TurnsNext]_turnsVars
  BY <1>2 DEF Drop, TurnsNext
<1>3. ASSUME NEW s \in Sharer, CountShare(s) \/ InsertShare(s) PROVE [TurnsNext]_turnsVars
  BY <1>3 DEF CountShare, InsertShare
<1>4. CASE WorkerSave
  <2>1. place \in Session /\ hand \in Other
    BY <1>4 DEF MInv, TypeOK, MarkingHasRow, WorkerSave, Intent
  <2> QED BY <1>4, <2>1 DEF WorkerSave, TurnsNext
<1>5. CASE WorkerRead \/ (\E i \in Intent : WorkerTake(i)) \/ WorkerMark \/ WorkerFail
  BY <1>5 DEF WorkerRead, WorkerTake, WorkerMark, WorkerFail
<1>6. CASE Crash
  BY <1>6 DEF Crash, TurnsNext
<1>7. CASE UNCHANGED vars
  BY <1>7 DEF vars
<1> QED BY <1>1, <1>2, <1>3, <1>4, <1>5, <1>6, <1>7 DEF Next, Worker

(* The messenger keeps the promise of SessionTurns: an attempt to send a   *)
(* message leaves its user's row and at most one answer, and the worker    *)
(* adds rows of its own, whatever is lost, retried or killed.              *)
THEOREM MessengerImplementsTurns == Spec => TurnsSpec
<1>1. Init => TurnsInit
  BY DEF Init
<1>2. MInv /\ [Next]_vars => [TurnsNext]_turnsVars
  BY TurnsStep
<1> QED BY <1>1, <1>2, Invariance, PTL DEF Spec, TurnsSpec

(* So a thread says of every attempt to send a message what became of it,  *)
(* between whatever rows the worker delivers into it.                      *)
THEOREM ThreadsAreHonest == Spec => []HonestHistory
BY MessengerImplementsTurns, HistoryAlwaysHonest, PTL
=============================================================================
