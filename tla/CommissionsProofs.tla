-------------------------- MODULE CommissionsProofs --------------------------
(***************************************************************************)
(* The safety properties of the commissions queue hold for any number of   *)
(* citizens, commissions and drain threads, and any number of lapsed       *)
(* claims, crashes and failing statements. One lemma per conjunct of the   *)
(* invariant, one step per action; each says which operations of the table *)
(* it needs to see. DoneHasResult rests on what a thread knows between its *)
(* outbox write and its complete, RepeatedWasRequeued on who may have a    *)
(* row in hand at all.                                                     *)
(***************************************************************************)
EXTENDS CommissionsInvariant, FiniteSetTheorems, TLAPS

\* The table keeps its shape: every state written is one of its CHECK.
LEMMA TableTypeStep ==
    TypeOK /\ ThreadKnows /\ HeartKnows /\ [Next]_vars
        => TableTypeOK'
<1> SUFFICES
     ASSUME TypeOK, ThreadKnows, HeartKnows, [Next]_vars
     PROVE  TableTypeOK'
  OBVIOUS
<1> USE HouseAssumption DEF vars, tableVars, threadVars, historyVars, At, Goto,
    Drop, Fault, NoFault, QuietBut, Quiet, Working, Commission, TypeOK,
    TableTypeOK, ThreadTypeOK, RestTypeOK, ThreadKnows, HeartKnows
<1>1. CASE \E x \in Thread, c \in Commission : SweepRead(x, c) BY <1>1 DEF SweepRead
<1>2. CASE \E x \in Thread, c \in Commission : Start(x, c) BY <1>2 DEF Start
<1>3. CASE \E x \in Thread, w \in Citizen : CheckIdle(x, w)
  BY <1>3 DEF CheckIdle, IsRunning
<1>4. CASE \E x \in Thread, w \in Citizen : CheckSkip(x, w) BY <1>4 DEF CheckSkip
<1>5. CASE \E x \in Thread : Requeue(x) BY <1>5 DEF Requeue, Write
<1>6. CASE \E x \in Thread : Claim(x) BY <1>6 DEF Claim, Write, OldestQueued
<1>7. CASE \E x \in Thread : Process(x) BY <1>7 DEF Process
<1>8. CASE \E x \in Thread : Complete(x)
  BY <1>8 DEF Complete, Write, CompleteRow, AfterClose, Followed
<1>9. CASE \E x \in Thread : Incomplete(x) BY <1>9 DEF Incomplete, Write, FailRow
<1>10. CASE \E x \in Thread : Fail(x)
  BY <1>10 DEF Fail, Write, FailRow, AfterClose, Followed
<1>11. CASE \E x \in Thread : Abort(x) BY <1>11 DEF Abort, Write, FailRow
<1>12. CASE \E x \in Thread : RelayCheck(x) BY <1>12 DEF RelayCheck, Row
<1>13. CASE \E x \in Thread : RelayEnqueue(x) BY <1>13 DEF RelayEnqueue, Insert, Row
<1>14. CASE Drain(Daemon, Citizen) \/ \E x \in Thread, w \in Citizen : Drain(x, {w})
  BY <1>14 DEF Drain
<1>15. CASE \E c \in Work, w \in Citizen : Enqueue(c, w)
  BY <1>15 DEF Enqueue, Insert, Row
<1>16. CASE \E c \in Pulse : PulseBegin(c) BY <1>16 DEF PulseBegin, Insert, Row
<1>17. CASE \E c \in Commission : CancelRead(c) BY <1>17 DEF CancelRead
<1>18. CASE \E c \in Commission : Lapse(c) BY <1>18 DEF Lapse, Live, Holds
<1>19. CASE PulseEnd BY <1>19 DEF PulseEnd, Write, CompleteRow, FailRow
<1>20. CASE PulseDies BY <1>20 DEF PulseDies
<1>21. CASE CancelWrite BY <1>21 DEF CancelWrite, Write
<1>22. CASE Crash BY <1>22 DEF Crash
<1>23. CASE UNCHANGED vars BY <1>23
<1> QED
  BY <1>1, <1>2, <1>3, <1>4, <1>5, <1>6, <1>7, <1>8, <1>9, <1>10, <1>11,
    <1>12, <1>13, <1>14, <1>15, <1>16, <1>17, <1>18, <1>19, <1>20, <1>21,
    <1>22, <1>23 DEF Next, Step

\* A thread is at a known point with rows and citizens it knows.
LEMMA ThreadTypeStep ==
    TypeOK /\ [Next]_vars
        => ThreadTypeOK'
<1> SUFFICES
     ASSUME TypeOK, [Next]_vars
     PROVE  ThreadTypeOK'
  OBVIOUS
<1> USE HouseAssumption DEF vars, tableVars, threadVars, historyVars, At, Goto,
    Drop, Fault, NoFault, QuietBut, Quiet, Working, Commission, TypeOK,
    TableTypeOK, ThreadTypeOK, RestTypeOK, PC
<1>1. CASE \E x \in Thread, c \in Commission : SweepRead(x, c) BY <1>1 DEF SweepRead
<1>2. CASE \E x \in Thread, c \in Commission : Start(x, c) BY <1>2 DEF Start
<1>3. CASE \E x \in Thread, w \in Citizen : CheckIdle(x, w)
  BY <1>3 DEF CheckIdle, IsRunning
<1>4. CASE \E x \in Thread, w \in Citizen : CheckSkip(x, w) BY <1>4 DEF CheckSkip
<1>5. CASE \E x \in Thread : Requeue(x) BY <1>5 DEF Requeue, Write
<1>6. CASE \E x \in Thread : Claim(x) BY <1>6 DEF Claim, Write, OldestQueued
<1>7. CASE \E x \in Thread : Process(x) BY <1>7 DEF Process
<1>8. CASE \E x \in Thread : Complete(x)
  BY <1>8 DEF Complete, Write, CompleteRow, AfterClose, Followed
<1>9. CASE \E x \in Thread : Incomplete(x) BY <1>9 DEF Incomplete, Write, FailRow
<1>10. CASE \E x \in Thread : Fail(x)
  BY <1>10 DEF Fail, Write, FailRow, AfterClose, Followed
<1>11. CASE \E x \in Thread : Abort(x) BY <1>11 DEF Abort, Write, FailRow
<1>12. CASE \E x \in Thread : RelayCheck(x) BY <1>12 DEF RelayCheck, Row
<1>13. CASE \E x \in Thread : RelayEnqueue(x) BY <1>13 DEF RelayEnqueue, Insert, Row
<1>14. CASE Drain(Daemon, Citizen) \/ \E x \in Thread, w \in Citizen : Drain(x, {w})
  BY <1>14 DEF Drain
<1>15. CASE \E c \in Work, w \in Citizen : Enqueue(c, w)
  BY <1>15 DEF Enqueue, Insert, Row
<1>16. CASE \E c \in Pulse : PulseBegin(c) BY <1>16 DEF PulseBegin, Insert, Row
<1>17. CASE \E c \in Commission : CancelRead(c) BY <1>17 DEF CancelRead
<1>18. CASE \E c \in Commission : Lapse(c) BY <1>18 DEF Lapse, Live, Holds
<1>19. CASE PulseEnd BY <1>19 DEF PulseEnd, Write, CompleteRow, FailRow
<1>20. CASE PulseDies BY <1>20 DEF PulseDies
<1>21. CASE CancelWrite BY <1>21 DEF CancelWrite, Write
<1>22. CASE Crash BY <1>22 DEF Crash
<1>23. CASE UNCHANGED vars BY <1>23
<1> QED
  BY <1>1, <1>2, <1>3, <1>4, <1>5, <1>6, <1>7, <1>8, <1>9, <1>10, <1>11,
    <1>12, <1>13, <1>14, <1>15, <1>16, <1>17, <1>18, <1>19, <1>20, <1>21,
    <1>22, <1>23 DEF Next, Step

\* The heartbeat, the cancel request, the histories and the bounds.
LEMMA RestTypeStep ==
    TypeOK /\ ThreadKnows /\ [Next]_vars
        => RestTypeOK'
<1> SUFFICES
     ASSUME TypeOK, ThreadKnows, [Next]_vars
     PROVE  RestTypeOK'
  OBVIOUS
<1> USE HouseAssumption, LimitAssumption DEF vars, tableVars, threadVars, historyVars, At, Goto,
    Drop, Fault, NoFault, QuietBut, Quiet, Working, Commission, TypeOK,
    TableTypeOK, ThreadTypeOK, RestTypeOK, ThreadKnows
<1>1. CASE \E x \in Thread, c \in Commission : SweepRead(x, c) BY <1>1 DEF SweepRead
<1>2. CASE \E x \in Thread, c \in Commission : Start(x, c) BY <1>2 DEF Start
<1>3. CASE \E x \in Thread, w \in Citizen : CheckIdle(x, w)
  BY <1>3 DEF CheckIdle, IsRunning
<1>4. CASE \E x \in Thread, w \in Citizen : CheckSkip(x, w) BY <1>4 DEF CheckSkip
<1>5. CASE \E x \in Thread : Requeue(x) BY <1>5 DEF Requeue, Write
<1>6. CASE \E x \in Thread : Claim(x) BY <1>6 DEF Claim, Write, OldestQueued
<1>7. CASE \E x \in Thread : Process(x) BY <1>7 DEF Process
<1>8. CASE \E x \in Thread : Complete(x)
  BY <1>8 DEF Complete, Write, CompleteRow, AfterClose, Followed
<1>9. CASE \E x \in Thread : Incomplete(x) BY <1>9 DEF Incomplete, Write, FailRow
<1>10. CASE \E x \in Thread : Fail(x)
  BY <1>10 DEF Fail, Write, FailRow, AfterClose, Followed
<1>11. CASE \E x \in Thread : Abort(x) BY <1>11 DEF Abort, Write, FailRow
<1>12. CASE \E x \in Thread : RelayCheck(x) BY <1>12 DEF RelayCheck, Row
<1>13. CASE \E x \in Thread : RelayEnqueue(x) BY <1>13 DEF RelayEnqueue, Insert, Row
<1>14. CASE Drain(Daemon, Citizen) \/ \E x \in Thread, w \in Citizen : Drain(x, {w})
  BY <1>14 DEF Drain
<1>15. CASE \E c \in Work, w \in Citizen : Enqueue(c, w)
  BY <1>15 DEF Enqueue, Insert, Row
<1>16. CASE \E c \in Pulse : PulseBegin(c) BY <1>16 DEF PulseBegin, Insert, Row
<1>17. CASE \E c \in Commission : CancelRead(c) BY <1>17 DEF CancelRead
<1>18. CASE \E c \in Commission : Lapse(c) BY <1>18 DEF Lapse, Live, Holds
<1>19. CASE PulseEnd BY <1>19 DEF PulseEnd, Write, CompleteRow, FailRow
<1>20. CASE PulseDies BY <1>20 DEF PulseDies
<1>21. CASE CancelWrite BY <1>21 DEF CancelWrite, Write
<1>22. CASE Crash BY <1>22 DEF Crash
<1>23. CASE UNCHANGED vars BY <1>23
<1> QED
  BY <1>1, <1>2, <1>3, <1>4, <1>5, <1>6, <1>7, <1>8, <1>9, <1>10, <1>11,
    <1>12, <1>13, <1>14, <1>15, <1>16, <1>17, <1>18, <1>19, <1>20, <1>21,
    <1>22, <1>23 DEF Next, Step

\* Only a thread itself moves what it has in hand, and results stay on disk.
LEMMA ThreadKnowsStep ==
    TypeOK /\ ThreadKnows /\ [Next]_vars
        => ThreadKnows'
<1> SUFFICES
     ASSUME TypeOK, ThreadKnows, [Next]_vars
     PROVE  ThreadKnows'
  OBVIOUS
<1> USE HouseAssumption DEF vars, tableVars, threadVars, historyVars, At, Goto,
    Drop, Fault, NoFault, QuietBut, Quiet, Working, Commission, TypeOK,
    TableTypeOK, ThreadTypeOK, RestTypeOK, ThreadKnows
<1>1. CASE \E x \in Thread, c \in Commission : SweepRead(x, c) BY <1>1 DEF SweepRead
<1>2. CASE \E x \in Thread, c \in Commission : Start(x, c) BY <1>2 DEF Start
<1>3. CASE \E x \in Thread, w \in Citizen : CheckIdle(x, w)
  BY <1>3 DEF CheckIdle, IsRunning
<1>4. CASE \E x \in Thread, w \in Citizen : CheckSkip(x, w) BY <1>4 DEF CheckSkip
<1>5. CASE \E x \in Thread : Requeue(x) BY <1>5 DEF Requeue, Write
<1>6. CASE \E x \in Thread : Claim(x) BY <1>6 DEF Claim, Write, OldestQueued
<1>7. CASE \E x \in Thread : Process(x) BY <1>7 DEF Process
<1>8. CASE \E x \in Thread : Complete(x)
  BY <1>8 DEF Complete, Write, CompleteRow, AfterClose, Followed
<1>9. CASE \E x \in Thread : Incomplete(x) BY <1>9 DEF Incomplete, Write, FailRow
<1>10. CASE \E x \in Thread : Fail(x)
  BY <1>10 DEF Fail, Write, FailRow, AfterClose, Followed
<1>11. CASE \E x \in Thread : Abort(x) BY <1>11 DEF Abort, Write, FailRow
<1>12. CASE \E x \in Thread : RelayCheck(x) BY <1>12 DEF RelayCheck, Row
<1>13. CASE \E x \in Thread : RelayEnqueue(x) BY <1>13 DEF RelayEnqueue, Insert, Row
<1>14. CASE Drain(Daemon, Citizen) \/ \E x \in Thread, w \in Citizen : Drain(x, {w})
  BY <1>14 DEF Drain
<1>15. CASE \E c \in Work, w \in Citizen : Enqueue(c, w)
  BY <1>15 DEF Enqueue, Insert, Row
<1>16. CASE \E c \in Pulse : PulseBegin(c) BY <1>16 DEF PulseBegin, Insert, Row
<1>17. CASE \E c \in Commission : CancelRead(c) BY <1>17 DEF CancelRead
<1>18. CASE \E c \in Commission : Lapse(c) BY <1>18 DEF Lapse, Live, Holds
<1>19. CASE PulseEnd BY <1>19 DEF PulseEnd, Write, CompleteRow, FailRow
<1>20. CASE PulseDies BY <1>20 DEF PulseDies
<1>21. CASE CancelWrite BY <1>21 DEF CancelWrite, Write
<1>22. CASE Crash BY <1>22 DEF Crash
<1>23. CASE UNCHANGED vars BY <1>23
<1> QED
  BY <1>1, <1>2, <1>3, <1>4, <1>5, <1>6, <1>7, <1>8, <1>9, <1>10, <1>11,
    <1>12, <1>13, <1>14, <1>15, <1>16, <1>17, <1>18, <1>19, <1>20, <1>21,
    <1>22, <1>23 DEF Next, Step

\* The heartbeat begins pulses and nothing else.
LEMMA HeartKnowsStep ==
    TypeOK /\ HeartKnows /\ [Next]_vars
        => HeartKnows'
<1> SUFFICES
     ASSUME TypeOK, HeartKnows, [Next]_vars
     PROVE  HeartKnows'
  OBVIOUS
<1> USE HouseAssumption DEF vars, tableVars, threadVars, historyVars, At, Goto,
    Drop, Fault, NoFault, QuietBut, Quiet, Working, Commission, TypeOK,
    TableTypeOK, ThreadTypeOK, RestTypeOK, HeartKnows
<1>1. CASE \E x \in Thread, c \in Commission : SweepRead(x, c) BY <1>1 DEF SweepRead
<1>2. CASE \E x \in Thread, c \in Commission : Start(x, c) BY <1>2 DEF Start
<1>3. CASE \E x \in Thread, w \in Citizen : CheckIdle(x, w)
  BY <1>3 DEF CheckIdle, IsRunning
<1>4. CASE \E x \in Thread, w \in Citizen : CheckSkip(x, w) BY <1>4 DEF CheckSkip
<1>5. CASE \E x \in Thread : Requeue(x) BY <1>5 DEF Requeue, Write
<1>6. CASE \E x \in Thread : Claim(x) BY <1>6 DEF Claim, Write, OldestQueued
<1>7. CASE \E x \in Thread : Process(x) BY <1>7 DEF Process
<1>8. CASE \E x \in Thread : Complete(x)
  BY <1>8 DEF Complete, Write, CompleteRow, AfterClose, Followed
<1>9. CASE \E x \in Thread : Incomplete(x) BY <1>9 DEF Incomplete, Write, FailRow
<1>10. CASE \E x \in Thread : Fail(x)
  BY <1>10 DEF Fail, Write, FailRow, AfterClose, Followed
<1>11. CASE \E x \in Thread : Abort(x) BY <1>11 DEF Abort, Write, FailRow
<1>12. CASE \E x \in Thread : RelayCheck(x) BY <1>12 DEF RelayCheck, Row
<1>13. CASE \E x \in Thread : RelayEnqueue(x) BY <1>13 DEF RelayEnqueue, Insert, Row
<1>14. CASE Drain(Daemon, Citizen) \/ \E x \in Thread, w \in Citizen : Drain(x, {w})
  BY <1>14 DEF Drain
<1>15. CASE \E c \in Work, w \in Citizen : Enqueue(c, w)
  BY <1>15 DEF Enqueue, Insert, Row
<1>16. CASE \E c \in Pulse : PulseBegin(c) BY <1>16 DEF PulseBegin, Insert, Row
<1>17. CASE \E c \in Commission : CancelRead(c) BY <1>17 DEF CancelRead
<1>18. CASE \E c \in Commission : Lapse(c) BY <1>18 DEF Lapse, Live, Holds
<1>19. CASE PulseEnd BY <1>19 DEF PulseEnd, Write, CompleteRow, FailRow
<1>20. CASE PulseDies BY <1>20 DEF PulseDies
<1>21. CASE CancelWrite BY <1>21 DEF CancelWrite, Write
<1>22. CASE Crash BY <1>22 DEF Crash
<1>23. CASE UNCHANGED vars BY <1>23
<1> QED
  BY <1>1, <1>2, <1>3, <1>4, <1>5, <1>6, <1>7, <1>8, <1>9, <1>10, <1>11,
    <1>12, <1>13, <1>14, <1>15, <1>16, <1>17, <1>18, <1>19, <1>20, <1>21,
    <1>22, <1>23 DEF Next, Step

\* A claim takes a queued row, and only requeue queues one that was claimed.
LEMMA HandedOutStep ==
    TypeOK /\ ThreadKnows /\ HeartKnows /\ HandedOut /\ [Next]_vars
        => HandedOut'
<1> SUFFICES
     ASSUME TypeOK, ThreadKnows, HeartKnows, HandedOut, [Next]_vars
     PROVE  HandedOut'
  OBVIOUS
<1> USE HouseAssumption DEF vars, tableVars, threadVars, historyVars, At, Goto,
    Drop, Fault, NoFault, QuietBut, Quiet, Working, Commission, TypeOK,
    TableTypeOK, ThreadTypeOK, RestTypeOK, ThreadKnows, HeartKnows, HandedOut
<1>1. CASE \E x \in Thread, c \in Commission : SweepRead(x, c) BY <1>1 DEF SweepRead
<1>2. CASE \E x \in Thread, c \in Commission : Start(x, c) BY <1>2 DEF Start
<1>3. CASE \E x \in Thread, w \in Citizen : CheckIdle(x, w)
  BY <1>3 DEF CheckIdle, IsRunning
<1>4. CASE \E x \in Thread, w \in Citizen : CheckSkip(x, w) BY <1>4 DEF CheckSkip
<1>5. CASE \E x \in Thread : Requeue(x) BY <1>5 DEF Requeue, Write
<1>6. CASE \E x \in Thread : Claim(x) BY <1>6 DEF Claim, Write, OldestQueued
<1>7. CASE \E x \in Thread : Process(x) BY <1>7 DEF Process
<1>8. CASE \E x \in Thread : Complete(x)
  BY <1>8 DEF Complete, Write, CompleteRow, AfterClose, Followed
<1>9. CASE \E x \in Thread : Incomplete(x) BY <1>9 DEF Incomplete, Write, FailRow
<1>10. CASE \E x \in Thread : Fail(x)
  BY <1>10 DEF Fail, Write, FailRow, AfterClose, Followed
<1>11. CASE \E x \in Thread : Abort(x) BY <1>11 DEF Abort, Write, FailRow
<1>12. CASE \E x \in Thread : RelayCheck(x) BY <1>12 DEF RelayCheck, Row
<1>13. CASE \E x \in Thread : RelayEnqueue(x) BY <1>13 DEF RelayEnqueue, Insert, Row
<1>14. CASE Drain(Daemon, Citizen) \/ \E x \in Thread, w \in Citizen : Drain(x, {w})
  BY <1>14 DEF Drain
<1>15. CASE \E c \in Work, w \in Citizen : Enqueue(c, w)
  BY <1>15 DEF Enqueue, Insert, Row
<1>16. CASE \E c \in Pulse : PulseBegin(c) BY <1>16 DEF PulseBegin, Insert, Row
<1>17. CASE \E c \in Commission : CancelRead(c) BY <1>17 DEF CancelRead
<1>18. CASE \E c \in Commission : Lapse(c) BY <1>18 DEF Lapse, Live, Holds
<1>19. CASE PulseEnd BY <1>19 DEF PulseEnd, Write, CompleteRow, FailRow
<1>20. CASE PulseDies BY <1>20 DEF PulseDies
<1>21. CASE CancelWrite BY <1>21 DEF CancelWrite, Write
<1>22. CASE Crash BY <1>22 DEF Crash
<1>23. CASE UNCHANGED vars BY <1>23
<1> QED
  BY <1>1, <1>2, <1>3, <1>4, <1>5, <1>6, <1>7, <1>8, <1>9, <1>10, <1>11,
    <1>12, <1>13, <1>14, <1>15, <1>16, <1>17, <1>18, <1>19, <1>20, <1>21,
    <1>22, <1>23 DEF Next, Step

\* A row is closed as done by the thread that wrote its result.
LEMMA DoneHasResultStep ==
    TypeOK /\ ThreadKnows /\ HeartKnows /\ DoneHasResult /\ [Next]_vars
        => DoneHasResult'
<1> SUFFICES
     ASSUME TypeOK, ThreadKnows, HeartKnows, DoneHasResult, [Next]_vars
     PROVE  DoneHasResult'
  OBVIOUS
<1> USE HouseAssumption DEF vars, tableVars, threadVars, historyVars, At, Goto,
    Drop, Fault, NoFault, QuietBut, Quiet, Working, Commission, TypeOK,
    TableTypeOK, ThreadTypeOK, RestTypeOK, ThreadKnows, HeartKnows,
    DoneHasResult
<1>1. CASE \E x \in Thread, c \in Commission : SweepRead(x, c) BY <1>1 DEF SweepRead
<1>2. CASE \E x \in Thread, c \in Commission : Start(x, c) BY <1>2 DEF Start
<1>3. CASE \E x \in Thread, w \in Citizen : CheckIdle(x, w)
  BY <1>3 DEF CheckIdle, IsRunning
<1>4. CASE \E x \in Thread, w \in Citizen : CheckSkip(x, w) BY <1>4 DEF CheckSkip
<1>5. CASE \E x \in Thread : Requeue(x) BY <1>5 DEF Requeue, Write
<1>6. CASE \E x \in Thread : Claim(x) BY <1>6 DEF Claim, Write, OldestQueued
<1>7. CASE \E x \in Thread : Process(x) BY <1>7 DEF Process
<1>8. CASE \E x \in Thread : Complete(x)
  BY <1>8 DEF Complete, Write, CompleteRow, AfterClose, Followed
<1>9. CASE \E x \in Thread : Incomplete(x) BY <1>9 DEF Incomplete, Write, FailRow
<1>10. CASE \E x \in Thread : Fail(x)
  BY <1>10 DEF Fail, Write, FailRow, AfterClose, Followed
<1>11. CASE \E x \in Thread : Abort(x) BY <1>11 DEF Abort, Write, FailRow
<1>12. CASE \E x \in Thread : RelayCheck(x) BY <1>12 DEF RelayCheck, Row
<1>13. CASE \E x \in Thread : RelayEnqueue(x) BY <1>13 DEF RelayEnqueue, Insert, Row
<1>14. CASE Drain(Daemon, Citizen) \/ \E x \in Thread, w \in Citizen : Drain(x, {w})
  BY <1>14 DEF Drain
<1>15. CASE \E c \in Work, w \in Citizen : Enqueue(c, w)
  BY <1>15 DEF Enqueue, Insert, Row
<1>16. CASE \E c \in Pulse : PulseBegin(c) BY <1>16 DEF PulseBegin, Insert, Row
<1>17. CASE \E c \in Commission : CancelRead(c) BY <1>17 DEF CancelRead
<1>18. CASE \E c \in Commission : Lapse(c) BY <1>18 DEF Lapse, Live, Holds
<1>19. CASE PulseEnd BY <1>19 DEF PulseEnd, Write, CompleteRow, FailRow
<1>20. CASE PulseDies BY <1>20 DEF PulseDies
<1>21. CASE CancelWrite BY <1>21 DEF CancelWrite, Write
<1>22. CASE Crash BY <1>22 DEF Crash
<1>23. CASE UNCHANGED vars BY <1>23
<1> QED
  BY <1>1, <1>2, <1>3, <1>4, <1>5, <1>6, <1>7, <1>8, <1>9, <1>10, <1>11,
    <1>12, <1>13, <1>14, <1>15, <1>16, <1>17, <1>18, <1>19, <1>20, <1>21,
    <1>22, <1>23 DEF Next, Step

\* Start marks the row as overlapped when it finds another thread at work on it.
LEMMA OneAtWorkStep ==
    TypeOK /\ OneAtWork /\ [Next]_vars
        => OneAtWork'
<1> SUFFICES
     ASSUME TypeOK, OneAtWork, [Next]_vars
     PROVE  OneAtWork'
  OBVIOUS
<1> USE HouseAssumption DEF vars, tableVars, threadVars, historyVars, At, Goto,
    Drop, Fault, NoFault, QuietBut, Quiet, Working, Commission, TypeOK,
    TableTypeOK, ThreadTypeOK, RestTypeOK, OneAtWork
<1>1. CASE \E x \in Thread, c \in Commission : SweepRead(x, c) BY <1>1 DEF SweepRead
<1>2. CASE \E x \in Thread, c \in Commission : Start(x, c) BY <1>2 DEF Start
<1>3. CASE \E x \in Thread, w \in Citizen : CheckIdle(x, w)
  BY <1>3 DEF CheckIdle, IsRunning
<1>4. CASE \E x \in Thread, w \in Citizen : CheckSkip(x, w) BY <1>4 DEF CheckSkip
<1>5. CASE \E x \in Thread : Requeue(x) BY <1>5 DEF Requeue, Write
<1>6. CASE \E x \in Thread : Claim(x) BY <1>6 DEF Claim, Write, OldestQueued
<1>7. CASE \E x \in Thread : Process(x) BY <1>7 DEF Process
<1>8. CASE \E x \in Thread : Complete(x)
  BY <1>8 DEF Complete, Write, CompleteRow, AfterClose, Followed
<1>9. CASE \E x \in Thread : Incomplete(x) BY <1>9 DEF Incomplete, Write, FailRow
<1>10. CASE \E x \in Thread : Fail(x)
  BY <1>10 DEF Fail, Write, FailRow, AfterClose, Followed
<1>11. CASE \E x \in Thread : Abort(x) BY <1>11 DEF Abort, Write, FailRow
<1>12. CASE \E x \in Thread : RelayCheck(x) BY <1>12 DEF RelayCheck, Row
<1>13. CASE \E x \in Thread : RelayEnqueue(x) BY <1>13 DEF RelayEnqueue, Insert, Row
<1>14. CASE Drain(Daemon, Citizen) \/ \E x \in Thread, w \in Citizen : Drain(x, {w})
  BY <1>14 DEF Drain
<1>15. CASE \E c \in Work, w \in Citizen : Enqueue(c, w)
  BY <1>15 DEF Enqueue, Insert, Row
<1>16. CASE \E c \in Pulse : PulseBegin(c) BY <1>16 DEF PulseBegin, Insert, Row
<1>17. CASE \E c \in Commission : CancelRead(c) BY <1>17 DEF CancelRead
<1>18. CASE \E c \in Commission : Lapse(c) BY <1>18 DEF Lapse, Live, Holds
<1>19. CASE PulseEnd BY <1>19 DEF PulseEnd, Write, CompleteRow, FailRow
<1>20. CASE PulseDies BY <1>20 DEF PulseDies
<1>21. CASE CancelWrite BY <1>21 DEF CancelWrite, Write
<1>22. CASE Crash BY <1>22 DEF Crash
<1>23. CASE UNCHANGED vars BY <1>23
<1> QED
  BY <1>1, <1>2, <1>3, <1>4, <1>5, <1>6, <1>7, <1>8, <1>9, <1>10, <1>11,
    <1>12, <1>13, <1>14, <1>15, <1>16, <1>17, <1>18, <1>19, <1>20, <1>21,
    <1>22, <1>23 DEF Next, Step

\* A relay of the row is inserted by a thread at work on it, and there is one.
LEMMA LookIsFreshStep ==
    TypeOK /\ ThreadKnows /\ SourceOfRows /\ OneAtWork /\ LookIsFresh /\ [Next]_vars
        => LookIsFresh'
<1> SUFFICES
     ASSUME TypeOK, ThreadKnows, SourceOfRows, OneAtWork, LookIsFresh, [Next]_vars
     PROVE  LookIsFresh'
  OBVIOUS
<1> USE HouseAssumption DEF vars, tableVars, threadVars, historyVars, At, Goto,
    Drop, Fault, NoFault, QuietBut, Quiet, Working, Commission, TypeOK,
    TableTypeOK, ThreadTypeOK, RestTypeOK, ThreadKnows, SourceOfRows, OneAtWork,
    LookIsFresh
<1>1. CASE \E x \in Thread, c \in Commission : SweepRead(x, c) BY <1>1 DEF SweepRead
<1>2. CASE \E x \in Thread, c \in Commission : Start(x, c) BY <1>2 DEF Start
<1>3. CASE \E x \in Thread, w \in Citizen : CheckIdle(x, w)
  BY <1>3 DEF CheckIdle, IsRunning
<1>4. CASE \E x \in Thread, w \in Citizen : CheckSkip(x, w) BY <1>4 DEF CheckSkip
<1>5. CASE \E x \in Thread : Requeue(x) BY <1>5 DEF Requeue, Write
<1>6. CASE \E x \in Thread : Claim(x) BY <1>6 DEF Claim, Write, OldestQueued
<1>7. CASE \E x \in Thread : Process(x) BY <1>7 DEF Process
<1>8. CASE \E x \in Thread : Complete(x)
  BY <1>8 DEF Complete, Write, CompleteRow, AfterClose, Followed
<1>9. CASE \E x \in Thread : Incomplete(x) BY <1>9 DEF Incomplete, Write, FailRow
<1>10. CASE \E x \in Thread : Fail(x)
  BY <1>10 DEF Fail, Write, FailRow, AfterClose, Followed
<1>11. CASE \E x \in Thread : Abort(x) BY <1>11 DEF Abort, Write, FailRow
<1>12. CASE \E x \in Thread : RelayCheck(x) BY <1>12 DEF RelayCheck, Row
<1>13. CASE \E x \in Thread : RelayEnqueue(x) BY <1>13 DEF RelayEnqueue, Insert, Row
<1>14. CASE Drain(Daemon, Citizen) \/ \E x \in Thread, w \in Citizen : Drain(x, {w})
  BY <1>14 DEF Drain
<1>15. CASE \E c \in Work, w \in Citizen : Enqueue(c, w)
  BY <1>15 DEF Enqueue, Insert, Row
<1>16. CASE \E c \in Pulse : PulseBegin(c) BY <1>16 DEF PulseBegin, Insert, Row
<1>17. CASE \E c \in Commission : CancelRead(c) BY <1>17 DEF CancelRead
<1>18. CASE \E c \in Commission : Lapse(c) BY <1>18 DEF Lapse, Live, Holds
<1>19. CASE PulseEnd BY <1>19 DEF PulseEnd, Write, CompleteRow, FailRow
<1>20. CASE PulseDies BY <1>20 DEF PulseDies
<1>21. CASE CancelWrite BY <1>21 DEF CancelWrite, Write
<1>22. CASE Crash BY <1>22 DEF Crash
<1>23. CASE UNCHANGED vars BY <1>23
<1> QED
  BY <1>1, <1>2, <1>3, <1>4, <1>5, <1>6, <1>7, <1>8, <1>9, <1>10, <1>11,
    <1>12, <1>13, <1>14, <1>15, <1>16, <1>17, <1>18, <1>19, <1>20, <1>21,
    <1>22, <1>23 DEF Next, Step

\* A source is written by the insert of its row.
LEMMA SourceOfRowsStep ==
    TypeOK /\ HeartKnows /\ ThreadKnows /\ SourceOfRows /\ [Next]_vars
        => SourceOfRows'
<1> SUFFICES
     ASSUME TypeOK, HeartKnows, ThreadKnows, SourceOfRows, [Next]_vars
     PROVE  SourceOfRows'
  OBVIOUS
<1> USE HouseAssumption DEF vars, tableVars, threadVars, historyVars, At, Goto,
    Drop, Fault, NoFault, QuietBut, Quiet, Working, Commission, TypeOK,
    TableTypeOK, ThreadTypeOK, RestTypeOK, HeartKnows,
    ThreadKnows, SourceOfRows
<1>1. CASE \E x \in Thread, c \in Commission : SweepRead(x, c) BY <1>1 DEF SweepRead
<1>2. CASE \E x \in Thread, c \in Commission : Start(x, c) BY <1>2 DEF Start
<1>3. CASE \E x \in Thread, w \in Citizen : CheckIdle(x, w)
  BY <1>3 DEF CheckIdle, IsRunning
<1>4. CASE \E x \in Thread, w \in Citizen : CheckSkip(x, w) BY <1>4 DEF CheckSkip
<1>5. CASE \E x \in Thread : Requeue(x) BY <1>5 DEF Requeue, Write
<1>6. CASE \E x \in Thread : Claim(x) BY <1>6 DEF Claim, Write, OldestQueued
<1>7. CASE \E x \in Thread : Process(x) BY <1>7 DEF Process
<1>8. CASE \E x \in Thread : Complete(x)
  BY <1>8 DEF Complete, Write, CompleteRow, AfterClose, Followed
<1>9. CASE \E x \in Thread : Incomplete(x) BY <1>9 DEF Incomplete, Write, FailRow
<1>10. CASE \E x \in Thread : Fail(x)
  BY <1>10 DEF Fail, Write, FailRow, AfterClose, Followed
<1>11. CASE \E x \in Thread : Abort(x) BY <1>11 DEF Abort, Write, FailRow
<1>12. CASE \E x \in Thread : RelayCheck(x) BY <1>12 DEF RelayCheck, Row
<1>13. CASE \E x \in Thread : RelayEnqueue(x) BY <1>13 DEF RelayEnqueue, Insert, Row
<1>14. CASE Drain(Daemon, Citizen) \/ \E x \in Thread, w \in Citizen : Drain(x, {w})
  BY <1>14 DEF Drain
<1>15. CASE \E c \in Work, w \in Citizen : Enqueue(c, w)
  BY <1>15 DEF Enqueue, Insert, Row
<1>16. CASE \E c \in Pulse : PulseBegin(c) BY <1>16 DEF PulseBegin, Insert, Row
<1>17. CASE \E c \in Commission : CancelRead(c) BY <1>17 DEF CancelRead
<1>18. CASE \E c \in Commission : Lapse(c) BY <1>18 DEF Lapse, Live, Holds
<1>19. CASE PulseEnd BY <1>19 DEF PulseEnd, Write, CompleteRow, FailRow
<1>20. CASE PulseDies BY <1>20 DEF PulseDies
<1>21. CASE CancelWrite BY <1>21 DEF CancelWrite, Write
<1>22. CASE Crash BY <1>22 DEF Crash
<1>23. CASE UNCHANGED vars BY <1>23
<1> QED
  BY <1>1, <1>2, <1>3, <1>4, <1>5, <1>6, <1>7, <1>8, <1>9, <1>10, <1>11,
    <1>12, <1>13, <1>14, <1>15, <1>16, <1>17, <1>18, <1>19, <1>20, <1>21,
    <1>22, <1>23 DEF Next, Step

\* A relay is inserted with a source that no row had when it was looked for.
LEMMA SourcesDifferStep ==
    TypeOK /\ LookIsFresh /\ SourceOfRows /\ SourcesDiffer /\ [Next]_vars
        => SourcesDiffer'
<1> SUFFICES
     ASSUME TypeOK, LookIsFresh, SourceOfRows, SourcesDiffer, [Next]_vars
     PROVE  SourcesDiffer'
  OBVIOUS
<1> USE HouseAssumption DEF vars, tableVars, threadVars, historyVars, At, Goto,
    Drop, Fault, NoFault, QuietBut, Quiet, Working, Commission, TypeOK,
    TableTypeOK, ThreadTypeOK, RestTypeOK, LookIsFresh,
    SourceOfRows, SourcesDiffer
<1>1. CASE \E x \in Thread, c \in Commission : SweepRead(x, c) BY <1>1 DEF SweepRead
<1>2. CASE \E x \in Thread, c \in Commission : Start(x, c) BY <1>2 DEF Start
<1>3. CASE \E x \in Thread, w \in Citizen : CheckIdle(x, w)
  BY <1>3 DEF CheckIdle, IsRunning
<1>4. CASE \E x \in Thread, w \in Citizen : CheckSkip(x, w) BY <1>4 DEF CheckSkip
<1>5. CASE \E x \in Thread : Requeue(x) BY <1>5 DEF Requeue, Write
<1>6. CASE \E x \in Thread : Claim(x) BY <1>6 DEF Claim, Write, OldestQueued
<1>7. CASE \E x \in Thread : Process(x) BY <1>7 DEF Process
<1>8. CASE \E x \in Thread : Complete(x)
  BY <1>8 DEF Complete, Write, CompleteRow, AfterClose, Followed
<1>9. CASE \E x \in Thread : Incomplete(x) BY <1>9 DEF Incomplete, Write, FailRow
<1>10. CASE \E x \in Thread : Fail(x)
  BY <1>10 DEF Fail, Write, FailRow, AfterClose, Followed
<1>11. CASE \E x \in Thread : Abort(x) BY <1>11 DEF Abort, Write, FailRow
<1>12. CASE \E x \in Thread : RelayCheck(x) BY <1>12 DEF RelayCheck, Row
<1>13. CASE \E x \in Thread : RelayEnqueue(x) BY <1>13 DEF RelayEnqueue, Insert, Row
<1>14. CASE Drain(Daemon, Citizen) \/ \E x \in Thread, w \in Citizen : Drain(x, {w})
  BY <1>14 DEF Drain
<1>15. CASE \E c \in Work, w \in Citizen : Enqueue(c, w)
  BY <1>15 DEF Enqueue, Insert, Row
<1>16. CASE \E c \in Pulse : PulseBegin(c) BY <1>16 DEF PulseBegin, Insert, Row
<1>17. CASE \E c \in Commission : CancelRead(c) BY <1>17 DEF CancelRead
<1>18. CASE \E c \in Commission : Lapse(c) BY <1>18 DEF Lapse, Live, Holds
<1>19. CASE PulseEnd BY <1>19 DEF PulseEnd, Write, CompleteRow, FailRow
<1>20. CASE PulseDies BY <1>20 DEF PulseDies
<1>21. CASE CancelWrite BY <1>21 DEF CancelWrite, Write
<1>22. CASE Crash BY <1>22 DEF Crash
<1>23. CASE UNCHANGED vars BY <1>23
<1> QED
  BY <1>1, <1>2, <1>3, <1>4, <1>5, <1>6, <1>7, <1>8, <1>9, <1>10, <1>11,
    <1>12, <1>13, <1>14, <1>15, <1>16, <1>17, <1>18, <1>19, <1>20, <1>21,
    <1>22, <1>23 DEF Next, Step

\* A thread that has found a citizen idle goes on to claim for an idle one, or
\* it is crossed.
LEMMA ClaimsForIdleStep ==
    TypeOK /\ ThreadKnows /\ HeartKnows /\ ClaimsForIdle /\ [Next]_vars
        => ClaimsForIdle'
<1> SUFFICES
     ASSUME TypeOK, ThreadKnows, HeartKnows, ClaimsForIdle, [Next]_vars
     PROVE  ClaimsForIdle'
  OBVIOUS
<1> USE HouseAssumption DEF vars, tableVars, threadVars, historyVars, At, Goto,
    Drop, Fault, NoFault, QuietBut, Quiet, Working, Commission, TypeOK,
    TableTypeOK, ThreadTypeOK, RestTypeOK, ThreadKnows, HeartKnows,
    ClaimsForIdle, Claiming
<1>1. CASE \E x \in Thread, c \in Commission : SweepRead(x, c) BY <1>1 DEF SweepRead
<1>2. CASE \E x \in Thread, c \in Commission : Start(x, c) BY <1>2 DEF Start
<1>3. CASE \E x \in Thread, w \in Citizen : CheckIdle(x, w)
  BY <1>3 DEF CheckIdle, IsRunning
<1>4. CASE \E x \in Thread, w \in Citizen : CheckSkip(x, w) BY <1>4 DEF CheckSkip
<1>5. CASE \E x \in Thread : Requeue(x) BY <1>5 DEF Requeue, Write
<1>6. CASE \E x \in Thread : Claim(x) BY <1>6 DEF Claim, Write, OldestQueued
<1>7. CASE \E x \in Thread : Process(x) BY <1>7 DEF Process
<1>8. CASE \E x \in Thread : Complete(x)
  BY <1>8 DEF Complete, Write, CompleteRow, AfterClose, Followed
<1>9. CASE \E x \in Thread : Incomplete(x) BY <1>9 DEF Incomplete, Write, FailRow
<1>10. CASE \E x \in Thread : Fail(x)
  BY <1>10 DEF Fail, Write, FailRow, AfterClose, Followed
<1>11. CASE \E x \in Thread : Abort(x) BY <1>11 DEF Abort, Write, FailRow
<1>12. CASE \E x \in Thread : RelayCheck(x) BY <1>12 DEF RelayCheck, Row
<1>13. CASE \E x \in Thread : RelayEnqueue(x) BY <1>13 DEF RelayEnqueue, Insert, Row
<1>14. CASE Drain(Daemon, Citizen) \/ \E x \in Thread, w \in Citizen : Drain(x, {w})
  BY <1>14 DEF Drain
<1>15. CASE \E c \in Work, w \in Citizen : Enqueue(c, w)
  BY <1>15 DEF Enqueue, Insert, Row
<1>16. CASE \E c \in Pulse : PulseBegin(c) BY <1>16 DEF PulseBegin, Insert, Row
<1>17. CASE \E c \in Commission : CancelRead(c) BY <1>17 DEF CancelRead
<1>18. CASE \E c \in Commission : Lapse(c) BY <1>18 DEF Lapse, Live, Holds
<1>19. CASE PulseEnd BY <1>19 DEF PulseEnd, Write, CompleteRow, FailRow
<1>20. CASE PulseDies BY <1>20 DEF PulseDies
<1>21. CASE CancelWrite BY <1>21 DEF CancelWrite, Write
<1>22. CASE Crash BY <1>22 DEF Crash
<1>23. CASE UNCHANGED vars BY <1>23
<1> QED
  BY <1>1, <1>2, <1>3, <1>4, <1>5, <1>6, <1>7, <1>8, <1>9, <1>10, <1>11,
    <1>12, <1>13, <1>14, <1>15, <1>16, <1>17, <1>18, <1>19, <1>20, <1>21,
    <1>22, <1>23 DEF Next, Step

\* So a second commission in flight is that of a crossed citizen; no other step
\* puts a row in flight, and the citizen stays crossed while one is.
LEMMA TogetherStep ==
    TypeOK /\ ThreadKnows /\ HeartKnows /\ ClaimsForIdle /\ TogetherByCrossingOnly /\ [Next]_vars
        => TogetherByCrossingOnly'
<1> SUFFICES
     ASSUME TypeOK, ThreadKnows, HeartKnows, ClaimsForIdle, TogetherByCrossingOnly, [Next]_vars
     PROVE  TogetherByCrossingOnly'
  OBVIOUS
<1> USE HouseAssumption DEF vars, tableVars, threadVars, historyVars, At, Goto,
    Drop, Fault, NoFault, QuietBut, Quiet, Working, Commission, TypeOK,
    TableTypeOK, ThreadTypeOK, RestTypeOK, ThreadKnows, HeartKnows,
    ClaimsForIdle, Claiming, TogetherByCrossingOnly, Together
<1>1. CASE \E x \in Thread, c \in Commission : SweepRead(x, c) BY <1>1 DEF SweepRead
<1>2. CASE \E x \in Thread, c \in Commission : Start(x, c) BY <1>2 DEF Start
<1>3. CASE \E x \in Thread, w \in Citizen : CheckIdle(x, w)
  BY <1>3 DEF CheckIdle, IsRunning
<1>4. CASE \E x \in Thread, w \in Citizen : CheckSkip(x, w) BY <1>4 DEF CheckSkip
<1>5. CASE \E x \in Thread : Requeue(x) BY <1>5 DEF Requeue, Write
<1>6. CASE \E x \in Thread : Claim(x) BY <1>6 DEF Claim, Write, OldestQueued
<1>7. CASE \E x \in Thread : Process(x) BY <1>7 DEF Process
<1>8. CASE \E x \in Thread : Complete(x)
  BY <1>8 DEF Complete, Write, CompleteRow, AfterClose, Followed
<1>9. CASE \E x \in Thread : Incomplete(x) BY <1>9 DEF Incomplete, Write, FailRow
<1>10. CASE \E x \in Thread : Fail(x)
  BY <1>10 DEF Fail, Write, FailRow, AfterClose, Followed
<1>11. CASE \E x \in Thread : Abort(x) BY <1>11 DEF Abort, Write, FailRow
<1>12. CASE \E x \in Thread : RelayCheck(x) BY <1>12 DEF RelayCheck, Row
<1>13. CASE \E x \in Thread : RelayEnqueue(x) BY <1>13 DEF RelayEnqueue, Insert, Row
<1>14. CASE Drain(Daemon, Citizen) \/ \E x \in Thread, w \in Citizen : Drain(x, {w})
  BY <1>14 DEF Drain
<1>15. CASE \E c \in Work, w \in Citizen : Enqueue(c, w)
  BY <1>15 DEF Enqueue, Insert, Row
<1>16. CASE \E c \in Pulse : PulseBegin(c) BY <1>16 DEF PulseBegin, Insert, Row
<1>17. CASE \E c \in Commission : CancelRead(c) BY <1>17 DEF CancelRead
<1>18. CASE \E c \in Commission : Lapse(c) BY <1>18 DEF Lapse, Live, Holds
<1>19. CASE PulseEnd BY <1>19 DEF PulseEnd, Write, CompleteRow, FailRow
<1>20. CASE PulseDies BY <1>20 DEF PulseDies
<1>21. CASE CancelWrite BY <1>21 DEF CancelWrite, Write
<1>22. CASE Crash BY <1>22 DEF Crash
<1>23. CASE UNCHANGED vars BY <1>23
<1> QED
  BY <1>1, <1>2, <1>3, <1>4, <1>5, <1>6, <1>7, <1>8, <1>9, <1>10, <1>11,
    <1>12, <1>13, <1>14, <1>15, <1>16, <1>17, <1>18, <1>19, <1>20, <1>21,
    <1>22, <1>23 DEF Next, Step

\* The invariant holds at the start: an empty table and idle threads.
LEMMA InitHolds == Init => IInv
<1> SUFFICES ASSUME Init PROVE IInv
  OBVIOUS
<1> USE HouseAssumption, LimitAssumption DEF Init
<1>1. TypeOK
  BY DEF TypeOK, TableTypeOK, ThreadTypeOK, RestTypeOK, PC
<1>2. ThreadKnows /\ HeartKnows
  BY DEF ThreadKnows, HeartKnows, Working
<1>3. HandedOut /\ DoneHasResult
  BY DEF HandedOut, DoneHasResult
<1>4. ClaimsForIdle /\ TogetherByCrossingOnly
  BY DEF ClaimsForIdle, TogetherByCrossingOnly, Together
<1>5. RelayInv
  BY DEF RelayInv, OneAtWork, LookIsFresh, SourceOfRows, SourcesDiffer, Working,
    Commission
<1> QED
  BY <1>1, <1>2, <1>3, <1>4, <1>5 DEF IInv

\* The invariant is inductive.
LEMMA IInvStep == IInv /\ [Next]_vars => IInv'
<1> SUFFICES ASSUME IInv, [Next]_vars PROVE IInv'
  OBVIOUS
<1>1. TypeOK'
  BY TableTypeStep, ThreadTypeStep, RestTypeStep DEF IInv, TypeOK
<1>2. ThreadKnows' /\ HeartKnows'
  BY ThreadKnowsStep, HeartKnowsStep DEF IInv
<1>3. HandedOut' /\ DoneHasResult'
  BY HandedOutStep, DoneHasResultStep DEF IInv
<1>4. RelayInv'
  BY OneAtWorkStep, LookIsFreshStep, SourceOfRowsStep, SourcesDifferStep
  DEF IInv, RelayInv
<1>5. ClaimsForIdle' /\ TogetherByCrossingOnly'
  BY ClaimsForIdleStep, TogetherStep DEF IInv
<1> QED
  BY <1>1, <1>2, <1>3, <1>4, <1>5 DEF IInv

\* The invariant of CommissionsInvariant holds in every reachable state.
THEOREM Invariance == Spec => []IInv
<1>1. Init => IInv
  BY InitHolds
<1>2. IInv /\ [Next]_vars => IInv'
  BY IInvStep
<1> QED
  BY <1>1, <1>2, PTL DEF Spec

\* Every variable keeps its type, whatever threads, crashes and requests do.
THEOREM TypeCorrect == Spec => []TypeOK
<1>1. IInv => TypeOK
  BY DEF IInv
<1> QED
  BY <1>1, Invariance, PTL

\* Success without a file is impossible: complete runs only after the outbox
\* write of execute_claimed, in whichever thread.
THEOREM DoneAlwaysHasResult == Spec => []DoneHasResult
<1>1. IInv => DoneHasResult
  BY DEF IInv
<1> QED
  BY <1>1, Invariance, PTL

\* At most one relay names a commission that two threads were never at work on
\* at the same time, whatever was requeued, crashed or failed.
THEOREM RelayedAtMostOnce == Spec => []RelayedOnce
<1>1. IInv => RelayedOnce
  <2> SUFFICES ASSUME IInv, NEW c \in Commission \ overlapped
               PROVE  Cardinality({d \in Row : source[d] = c}) <= 1
    BY DEF RelayedOnce
  <2> DEFINE Relays == {d \in Row : source[d] = c}
  <2>1. \A d, e \in Relays : d = e
    BY DEF IInv, RelayInv, SourcesDiffer, Row
  <2>2. CASE Relays = {}
    BY <2>2, FS_EmptySet
  <2>3. ASSUME NEW d \in Relays
        PROVE  Cardinality(Relays) <= 1
    <3>1. Relays = {d}
      BY <2>1, <2>3
    <3> QED
      BY <3>1, FS_Singleton
  <2> QED
    BY <2>2, <2>3
<1> QED
  BY <1>1, Invariance, PTL

\* A thread starts what it holds, which was not started before.
LEMMA RepeatStep ==
    TypeOK /\ HandedOut /\ [Next]_vars
        => RepeatsRequeued
<1> SUFFICES
     ASSUME TypeOK, HandedOut, [Next]_vars
     PROVE  RepeatsRequeued
  OBVIOUS
<1> USE HouseAssumption DEF vars, tableVars, threadVars, historyVars, At, Goto,
    Drop, Fault, NoFault, QuietBut, Quiet, Working, Commission, TypeOK,
    TableTypeOK, ThreadTypeOK, RestTypeOK, HandedOut, RepeatsRequeued
<1>1. CASE \E x \in Thread, c \in Commission : SweepRead(x, c) BY <1>1 DEF SweepRead
<1>2. CASE \E x \in Thread, c \in Commission : Start(x, c) BY <1>2 DEF Start
<1>3. CASE \E x \in Thread, w \in Citizen : CheckIdle(x, w)
  BY <1>3 DEF CheckIdle, IsRunning
<1>4. CASE \E x \in Thread, w \in Citizen : CheckSkip(x, w) BY <1>4 DEF CheckSkip
<1>5. CASE \E x \in Thread : Requeue(x) BY <1>5 DEF Requeue, Write
<1>6. CASE \E x \in Thread : Claim(x) BY <1>6 DEF Claim, Write, OldestQueued
<1>7. CASE \E x \in Thread : Process(x) BY <1>7 DEF Process
<1>8. CASE \E x \in Thread : Complete(x)
  BY <1>8 DEF Complete, Write, CompleteRow, AfterClose, Followed
<1>9. CASE \E x \in Thread : Incomplete(x) BY <1>9 DEF Incomplete, Write, FailRow
<1>10. CASE \E x \in Thread : Fail(x)
  BY <1>10 DEF Fail, Write, FailRow, AfterClose, Followed
<1>11. CASE \E x \in Thread : Abort(x) BY <1>11 DEF Abort, Write, FailRow
<1>12. CASE \E x \in Thread : RelayCheck(x) BY <1>12 DEF RelayCheck, Row
<1>13. CASE \E x \in Thread : RelayEnqueue(x) BY <1>13 DEF RelayEnqueue, Insert, Row
<1>14. CASE Drain(Daemon, Citizen) \/ \E x \in Thread, w \in Citizen : Drain(x, {w})
  BY <1>14 DEF Drain
<1>15. CASE \E c \in Work, w \in Citizen : Enqueue(c, w)
  BY <1>15 DEF Enqueue, Insert, Row
<1>16. CASE \E c \in Pulse : PulseBegin(c) BY <1>16 DEF PulseBegin, Insert, Row
<1>17. CASE \E c \in Commission : CancelRead(c) BY <1>17 DEF CancelRead
<1>18. CASE \E c \in Commission : Lapse(c) BY <1>18 DEF Lapse, Live, Holds
<1>19. CASE PulseEnd BY <1>19 DEF PulseEnd, Write, CompleteRow, FailRow
<1>20. CASE PulseDies BY <1>20 DEF PulseDies
<1>21. CASE CancelWrite BY <1>21 DEF CancelWrite, Write
<1>22. CASE Crash BY <1>22 DEF Crash
<1>23. CASE UNCHANGED vars BY <1>23
<1> QED
  BY <1>1, <1>2, <1>3, <1>4, <1>5, <1>6, <1>7, <1>8, <1>9, <1>10, <1>11,
    <1>12, <1>13, <1>14, <1>15, <1>16, <1>17, <1>18, <1>19, <1>20, <1>21,
    <1>22, <1>23 DEF Next, Step

\* The guarded claim hands a row out once; a second execution is requeue's
\* doing alone.
THEOREM RepeatsAreRequeued == Spec => RepeatedWasRequeued
<1>1. IInv /\ [Next]_vars => [RepeatsRequeued]_vars
  BY RepeatStep DEF IInv
<1> QED
  BY <1>1, Invariance, PTL DEF Spec, RepeatedWasRequeued

\* complete and fail leave a done row alone, and claim passes over it.
LEMMA DoneLeftStep ==
    TypeOK /\ ThreadKnows /\ HeartKnows /\ [Next]_vars
        => LeavesDoneByRace
<1> SUFFICES
     ASSUME TypeOK, ThreadKnows, HeartKnows, [Next]_vars
     PROVE  LeavesDoneByRace
  OBVIOUS
<1> USE HouseAssumption DEF vars, tableVars, threadVars, historyVars, At, Goto,
    Drop, Fault, NoFault, QuietBut, Quiet, Working, Commission, TypeOK,
    TableTypeOK, ThreadTypeOK, RestTypeOK, ThreadKnows, HeartKnows,
    LeavesDoneByRace
<1>1. CASE \E x \in Thread, c \in Commission : SweepRead(x, c) BY <1>1 DEF SweepRead
<1>2. CASE \E x \in Thread, c \in Commission : Start(x, c) BY <1>2 DEF Start
<1>3. CASE \E x \in Thread, w \in Citizen : CheckIdle(x, w)
  BY <1>3 DEF CheckIdle, IsRunning
<1>4. CASE \E x \in Thread, w \in Citizen : CheckSkip(x, w) BY <1>4 DEF CheckSkip
<1>5. CASE \E x \in Thread : Requeue(x) BY <1>5 DEF Requeue, Write
<1>6. CASE \E x \in Thread : Claim(x) BY <1>6 DEF Claim, Write, OldestQueued
<1>7. CASE \E x \in Thread : Process(x) BY <1>7 DEF Process
<1>8. CASE \E x \in Thread : Complete(x)
  BY <1>8 DEF Complete, Write, CompleteRow, AfterClose, Followed
<1>9. CASE \E x \in Thread : Incomplete(x) BY <1>9 DEF Incomplete, Write, FailRow
<1>10. CASE \E x \in Thread : Fail(x)
  BY <1>10 DEF Fail, Write, FailRow, AfterClose, Followed
<1>11. CASE \E x \in Thread : Abort(x) BY <1>11 DEF Abort, Write, FailRow
<1>12. CASE \E x \in Thread : RelayCheck(x) BY <1>12 DEF RelayCheck, Row
<1>13. CASE \E x \in Thread : RelayEnqueue(x) BY <1>13 DEF RelayEnqueue, Insert, Row
<1>14. CASE Drain(Daemon, Citizen) \/ \E x \in Thread, w \in Citizen : Drain(x, {w})
  BY <1>14 DEF Drain
<1>15. CASE \E c \in Work, w \in Citizen : Enqueue(c, w)
  BY <1>15 DEF Enqueue, Insert, Row
<1>16. CASE \E c \in Pulse : PulseBegin(c) BY <1>16 DEF PulseBegin, Insert, Row
<1>17. CASE \E c \in Commission : CancelRead(c) BY <1>17 DEF CancelRead
<1>18. CASE \E c \in Commission : Lapse(c) BY <1>18 DEF Lapse, Live, Holds
<1>19. CASE PulseEnd BY <1>19 DEF PulseEnd, Write, CompleteRow, FailRow
<1>20. CASE PulseDies BY <1>20 DEF PulseDies
<1>21. CASE CancelWrite BY <1>21 DEF CancelWrite, Write
<1>22. CASE Crash BY <1>22 DEF Crash
<1>23. CASE UNCHANGED vars BY <1>23
<1> QED
  BY <1>1, <1>2, <1>3, <1>4, <1>5, <1>6, <1>7, <1>8, <1>9, <1>10, <1>11,
    <1>12, <1>13, <1>14, <1>15, <1>16, <1>17, <1>18, <1>19, <1>20, <1>21,
    <1>22, <1>23 DEF Next, Step

\* No worker turns a finished row into anything else: only the unguarded
\* writes of requeue and cancel can.
THEOREM DoneIsLeftOnlyByRace == Spec => DoneIsLeftByRaceOnly
<1>1. IInv /\ [Next]_vars => [LeavesDoneByRace]_vars
  BY DoneLeftStep DEF IInv
<1> QED
  BY <1>1, Invariance, PTL DEF Spec, DoneIsLeftByRaceOnly

\* However many threads drain, a citizen has two commissions in flight only if
\* two of them had found it idle before either claimed; nothing else that the
\* threads, the requests, the heartbeat, a crash or a failing statement do
\* brings it about.
THEOREM SecondOnlyByCrossing == Spec => []TogetherByCrossingOnly
<1>1. IInv => TogetherByCrossingOnly
  BY DEF IInv
<1> QED
  BY <1>1, Invariance, PTL
=============================================================================
