------------------------- MODULE KernelJobsProofs -------------------------
(***************************************************************************)
(* Proofs about the coding children, for any number of jobs, of turns that *)
(* use the store at once, and any limit on the jobs it keeps.              *)
(***************************************************************************)
EXTENDS KernelJobsInvariant, TLAPS

\* A call that is over, or goes on to its follow-up, is in a state of the type.
LEMMA OverType ==
    ASSUME TypeOK, NEW c \in Caller, Over(c)
    PROVE  /\ at' \in [Caller -> At] /\ on' \in [Caller -> Job \cup {None}]
           /\ follow' \in [Caller -> BOOLEAN] /\ joins' \in [Caller -> BOOLEAN]
BY DEF Over, Goto, TypeOK, At

LEMMA ReturnType ==
    ASSUME TypeOK, NEW c \in Caller, StopReturns(c)
    PROVE  /\ at' \in [Caller -> At] /\ on' \in [Caller -> Job \cup {None}]
           /\ follow' \in [Caller -> BOOLEAN] /\ joins' \in [Caller -> BOOLEAN]
<1>1. CASE follow[c]
  BY <1>1 DEF StopReturns, Goto, TypeOK, At
<1>2. CASE ~follow[c]
  BY <1>2, OverType DEF StopReturns
<1> QED BY <1>1, <1>2

\* Every step keeps the types.
LEMMA TypeStep == ASSUME IInv, [Next]_vars PROVE TypeOK'
<1> USE JobAssumption DEF IInv, TypeOK, Status, Terminal, Proc, Waiter, At, CallPhase
<1>1. ASSUME NEW c \in Caller, List(c) PROVE TypeOK'
  BY <1>1 DEF List, Collect, storeVars, jobVars, waiterVars, callVars
<1>2. ASSUME NEW c \in Caller, Spawn(c) PROVE TypeOK'
  BY <1>2 DEF Spawn, Collect, Goto, storeVars, jobVars, waiterVars, callVars
<1>3. ASSUME NEW c \in Caller, NEW j \in Job, Popen(c, j) PROVE TypeOK'
  BY <1>3 DEF Popen, Goto, storeVars, jobVars, waiterVars, callVars
<1>4. ASSUME NEW c \in Caller, PopenFails(c) PROVE TypeOK'
  BY <1>4 DEF PopenFails, Over, Goto, storeVars, jobVars, waiterVars, callVars
<1>5. ASSUME NEW c \in Caller, RecordThread(c) PROVE TypeOK'
  BY <1>5 DEF RecordThread, Goto, storeVars, jobVars, waiterVars, callVars
<1>6. ASSUME NEW c \in Caller, StartThread(c) PROVE TypeOK'
  <2>1. at' \in [Caller -> At] /\ on' \in [Caller -> Job \cup {None}]
        /\ follow' \in [Caller -> BOOLEAN] /\ joins' \in [Caller -> BOOLEAN]
    <3>1. CASE follow[c]
      BY <1>6, <3>1, OverType DEF StartThread
    <3>2. CASE ~follow[c]
      BY <1>6, <3>2 DEF StartThread, Goto
    <3> QED BY <3>1, <3>2
  <2>2. waiter' \in [Job -> Waiter]
    BY <1>6 DEF StartThread
  <2> QED BY <1>6, <2>1, <2>2 DEF StartThread, storeVars, jobVars
<1>7. ASSUME NEW c \in Caller, Wait(c) PROVE TypeOK'
  BY <1>7 DEF Wait, Over, Goto, storeVars, jobVars, waiterVars, callVars
<1>8. ASSUME NEW c \in Caller, WaitEnds(c) PROVE TypeOK'
  BY <1>8 DEF WaitEnds, Over, Goto, storeVars, jobVars, waiterVars, callVars
<1>9. ASSUME NEW c \in Caller, Mark(c) PROVE TypeOK'
  <2>1. at' \in [Caller -> At] /\ on' \in [Caller -> Job \cup {None}]
        /\ follow' \in [Caller -> BOOLEAN] /\ joins' \in [Caller -> BOOLEAN]
    <3>1. CASE on[c] \in threads /\ waiter[on[c]] = "recorded"
      BY <1>9, <3>1, OverType DEF Mark
    <3>2. CASE ~(on[c] \in threads /\ waiter[on[c]] = "recorded")
      <4>1. (IF on[c] \in threads THEN "join" ELSE "kill") \in At
        OBVIOUS
      <4>2. at' \in [Caller -> At] /\ on' = on /\ follow' = follow
        BY <1>9, <3>2, <4>1 DEF Mark, Goto
      <4>3. joins' = [joins EXCEPT ![c] = on[c] \in threads]
        BY <1>9, <3>2 DEF Mark
      <4>4. joins' \in [Caller -> BOOLEAN]
        <5> DEFINE found == on[c] \in threads
        <5>1. joins' = [joins EXCEPT ![c] = found] /\ found \in BOOLEAN
          BY <4>3
        <5> HIDE DEF found
        <5> QED BY <5>1
      <4> QED BY <4>2, <4>4
    <3> QED BY <3>1, <3>2
  <2> QED BY <1>9, <2>1 DEF Mark, jobVars, waiterVars
<1>10. ASSUME NEW c \in Caller, Join(c) PROVE TypeOK'
  BY <1>10 DEF Join, Goto, Blocked, storeVars, jobVars, waiterVars, callVars
<1>11. ASSUME NEW c \in Caller, Kill(c) PROVE TypeOK'
  BY <1>11 DEF Kill, Dead, Goto, storeVars, jobVars, waiterVars, callVars
<1>12. ASSUME NEW c \in Caller, Settle(c) PROVE TypeOK'
  <2>1. at' \in [Caller -> At] /\ on' \in [Caller -> Job \cup {None}]
        /\ follow' \in [Caller -> BOOLEAN] /\ joins' \in [Caller -> BOOLEAN]
    BY <1>12, ReturnType DEF Settle, Goto
  <2>2. status' \in [Job -> Status]
    BY <1>12 DEF Settle
  <2> QED BY <1>12, <2>1, <2>2 DEF Settle, storeVars, waiterVars
<1>13. ASSUME NEW c \in Caller, Stamp(c) PROVE TypeOK'
  <2>1. at' \in [Caller -> At] /\ on' \in [Caller -> Job \cup {None}]
        /\ follow' \in [Caller -> BOOLEAN] /\ joins' \in [Caller -> BOOLEAN]
    BY <1>13, ReturnType DEF Stamp
  <2> QED BY <1>13, <2>1 DEF Stamp, storeVars, waiterVars
<1>14. ASSUME NEW c \in Caller, Respawn(c) PROVE TypeOK'
  BY <1>14 DEF Respawn, Collect, Goto, storeVars, jobVars, waiterVars, callVars
<1>15. ASSUME NEW c \in Caller, NEW j \in Job, NEW steer \in BOOLEAN, Stop(c, j, steer) PROVE TypeOK'
  BY <1>15 DEF Stop, Goto, storeVars, jobVars, waiterVars, callVars
<1>16. ASSUME NEW j \in Job, Begin(j) PROVE TypeOK'
  BY <1>16 DEF Begin, Continue, storeVars, jobVars, waiterVars, callVars
<1>17. ASSUME NEW j \in Job, Communicate(j) PROVE TypeOK'
  BY <1>17 DEF Communicate, Continue, storeVars, jobVars, waiterVars, callVars
<1>18. ASSUME NEW j \in Job, Expire(j) PROVE TypeOK'
  BY <1>18 DEF Expire, Continue, storeVars, jobVars, waiterVars, callVars
<1>19. ASSUME NEW j \in Job, Drain(j) PROVE TypeOK'
  BY <1>19 DEF Drain, Continue, storeVars, jobVars, waiterVars, callVars
<1>20. ASSUME NEW j \in Job, Conclude(j) PROVE TypeOK'
  BY <1>20 DEF Conclude, Continue, storeVars, jobVars, waiterVars, callVars
<1>21. ASSUME NEW j \in Job, Assign(j) PROVE TypeOK'
  BY <1>21 DEF Assign, Continue, storeVars, jobVars, waiterVars, callVars
<1>22. ASSUME NEW j \in Job, Exit(j) PROVE TypeOK'
  BY <1>22 DEF Exit, Dead, storeVars, jobVars, waiterVars, callVars
<1>23. CASE UNCHANGED vars
  BY <1>23 DEF vars, storeVars, jobVars, waiterVars, callVars
<1> HIDE DEF IInv, TypeOK, Status, Terminal, Proc, Waiter, At, CallPhase
<1> QED BY <1>1, <1>2, <1>3, <1>4, <1>5, <1>6, <1>7, <1>8, <1>9, <1>10, <1>11, <1>12, <1>13,
           <1>14, <1>15, <1>16, <1>17, <1>18, <1>19, <1>20, <1>21, <1>22, <1>23
        DEF Next, Step, Waits

\* Every step keeps the store, the statuses and the threads in step.
LEMMA JobPhaseStep == ASSUME IInv, [Next]_vars PROVE JobPhase'
<1> USE JobAssumption DEF IInv, TypeOK, Status, Terminal, Proc, Waiter, At, JobPhase, CallPhase, WaiterKnows
<1>1. ASSUME NEW c \in Caller, List(c) PROVE JobPhase'
  BY <1>1 DEF List, Collect, storeVars, jobVars, waiterVars, callVars
<1>2. ASSUME NEW c \in Caller, Spawn(c) PROVE JobPhase'
  BY <1>2 DEF Spawn, Collect, Goto, storeVars, jobVars, waiterVars, callVars
<1>3. ASSUME NEW c \in Caller, NEW j \in Job, Popen(c, j) PROVE JobPhase'
  BY <1>3 DEF Popen, Goto, storeVars, jobVars, waiterVars, callVars
<1>4. ASSUME NEW c \in Caller, PopenFails(c) PROVE JobPhase'
  BY <1>4 DEF PopenFails, Over, Goto, storeVars, jobVars, waiterVars, callVars
<1>5. ASSUME NEW c \in Caller, RecordThread(c) PROVE JobPhase'
  BY <1>5 DEF RecordThread, Goto, storeVars, jobVars, waiterVars, callVars
<1>6. ASSUME NEW c \in Caller, StartThread(c) PROVE JobPhase'
  BY <1>6 DEF StartThread, Over, Goto, storeVars, jobVars, waiterVars, callVars
<1>7. ASSUME NEW c \in Caller, Wait(c) PROVE JobPhase'
  BY <1>7 DEF Wait, Over, Goto, storeVars, jobVars, waiterVars, callVars
<1>8. ASSUME NEW c \in Caller, WaitEnds(c) PROVE JobPhase'
  BY <1>8 DEF WaitEnds, Over, Goto, storeVars, jobVars, waiterVars, callVars
<1>9. ASSUME NEW c \in Caller, Mark(c) PROVE JobPhase'
  BY <1>9 DEF Mark, Over, Goto, storeVars, jobVars, waiterVars, callVars
<1>10. ASSUME NEW c \in Caller, Join(c) PROVE JobPhase'
  BY <1>10 DEF Join, Goto, Blocked, storeVars, jobVars, waiterVars, callVars
<1>11. ASSUME NEW c \in Caller, Kill(c) PROVE JobPhase'
  BY <1>11 DEF Kill, Dead, Goto, storeVars, jobVars, waiterVars, callVars
<1>12. ASSUME NEW c \in Caller, Settle(c) PROVE JobPhase'
  BY <1>12 DEF Settle, StopReturns, Over, Goto, storeVars, jobVars, waiterVars, callVars
<1>13. ASSUME NEW c \in Caller, Stamp(c) PROVE JobPhase'
  BY <1>13 DEF Stamp, StopReturns, Over, Goto, storeVars, jobVars, waiterVars, callVars
<1>14. ASSUME NEW c \in Caller, Respawn(c) PROVE JobPhase'
  BY <1>14 DEF Respawn, Collect, Goto, storeVars, jobVars, waiterVars, callVars
<1>15. ASSUME NEW c \in Caller, NEW j \in Job, NEW steer \in BOOLEAN, Stop(c, j, steer) PROVE JobPhase'
  BY <1>15 DEF Stop, Goto, storeVars, jobVars, waiterVars, callVars
<1>16. ASSUME NEW j \in Job, Begin(j) PROVE JobPhase'
  BY <1>16 DEF Begin, Continue, storeVars, jobVars, waiterVars, callVars
<1>17. ASSUME NEW j \in Job, Communicate(j) PROVE JobPhase'
  BY <1>17 DEF Communicate, Continue, storeVars, jobVars, waiterVars, callVars
<1>18. ASSUME NEW j \in Job, Expire(j) PROVE JobPhase'
  BY <1>18 DEF Expire, Continue, storeVars, jobVars, waiterVars, callVars
<1>19. ASSUME NEW j \in Job, Drain(j) PROVE JobPhase'
  BY <1>19 DEF Drain, Continue, storeVars, jobVars, waiterVars, callVars
<1>20. ASSUME NEW j \in Job, Conclude(j) PROVE JobPhase'
  BY <1>20 DEF Conclude, Continue, storeVars, jobVars, waiterVars, callVars
<1>21. ASSUME NEW j \in Job, Assign(j) PROVE JobPhase'
  BY <1>21 DEF Assign, Continue, storeVars, jobVars, waiterVars, callVars
<1>22. ASSUME NEW j \in Job, Exit(j) PROVE JobPhase'
  BY <1>22 DEF Exit, Dead, storeVars, jobVars, waiterVars, callVars
<1>23. CASE UNCHANGED vars
  BY <1>23 DEF vars, storeVars, jobVars, waiterVars, callVars
<1> HIDE DEF IInv, TypeOK, Status, Terminal, Proc, Waiter, At, JobPhase, CallPhase, WaiterKnows
<1> QED BY <1>1, <1>2, <1>3, <1>4, <1>5, <1>6, <1>7, <1>8, <1>9, <1>10, <1>11, <1>12, <1>13,
           <1>14, <1>15, <1>16, <1>17, <1>18, <1>19, <1>20, <1>21, <1>22, <1>23
        DEF Next, Step, Waits

\* Every step keeps what a thread knows of its child.
LEMMA WaiterStep == ASSUME IInv, [Next]_vars PROVE WaiterKnows'
<1> USE JobAssumption DEF IInv, TypeOK, Status, Terminal, Proc, Waiter, At, JobPhase, WaiterKnows, CallPhase, StopperKnows
<1>1. ASSUME NEW c \in Caller, List(c) PROVE WaiterKnows'
  BY <1>1 DEF List, Collect, storeVars, jobVars, waiterVars, callVars
<1>2. ASSUME NEW c \in Caller, Spawn(c) PROVE WaiterKnows'
  BY <1>2 DEF Spawn, Collect, Goto, storeVars, jobVars, waiterVars, callVars
<1>3. ASSUME NEW c \in Caller, NEW j \in Job, Popen(c, j) PROVE WaiterKnows'
  BY <1>3 DEF Popen, Goto, storeVars, jobVars, waiterVars, callVars
<1>4. ASSUME NEW c \in Caller, PopenFails(c) PROVE WaiterKnows'
  BY <1>4 DEF PopenFails, Over, Goto, storeVars, jobVars, waiterVars, callVars
<1>5. ASSUME NEW c \in Caller, RecordThread(c) PROVE WaiterKnows'
  BY <1>5 DEF RecordThread, Goto, storeVars, jobVars, waiterVars, callVars
<1>6. ASSUME NEW c \in Caller, StartThread(c) PROVE WaiterKnows'
  BY <1>6 DEF StartThread, Over, Goto, storeVars, jobVars, waiterVars, callVars
<1>7. ASSUME NEW c \in Caller, Wait(c) PROVE WaiterKnows'
  BY <1>7 DEF Wait, Over, Goto, storeVars, jobVars, waiterVars, callVars
<1>8. ASSUME NEW c \in Caller, WaitEnds(c) PROVE WaiterKnows'
  BY <1>8 DEF WaitEnds, Over, Goto, storeVars, jobVars, waiterVars, callVars
<1>9. ASSUME NEW c \in Caller, Mark(c) PROVE WaiterKnows'
  BY <1>9 DEF Mark, Over, Goto, storeVars, jobVars, waiterVars, callVars
<1>10. ASSUME NEW c \in Caller, Join(c) PROVE WaiterKnows'
  BY <1>10 DEF Join, Goto, Blocked, storeVars, jobVars, waiterVars, callVars
<1>11. ASSUME NEW c \in Caller, Kill(c) PROVE WaiterKnows'
  BY <1>11 DEF Kill, Dead, Goto, storeVars, jobVars, waiterVars, callVars
<1>12. ASSUME NEW c \in Caller, Settle(c) PROVE WaiterKnows'
  BY <1>12 DEF Settle, StopReturns, Over, Goto, storeVars, jobVars, waiterVars, callVars
<1>13. ASSUME NEW c \in Caller, Stamp(c) PROVE WaiterKnows'
  BY <1>13 DEF Stamp, StopReturns, Over, Goto, storeVars, jobVars, waiterVars, callVars
<1>14. ASSUME NEW c \in Caller, Respawn(c) PROVE WaiterKnows'
  BY <1>14 DEF Respawn, Collect, Goto, storeVars, jobVars, waiterVars, callVars
<1>15. ASSUME NEW c \in Caller, NEW j \in Job, NEW steer \in BOOLEAN, Stop(c, j, steer) PROVE WaiterKnows'
  BY <1>15 DEF Stop, Goto, storeVars, jobVars, waiterVars, callVars
<1>16. ASSUME NEW j \in Job, Begin(j) PROVE WaiterKnows'
  BY <1>16 DEF Begin, Continue, storeVars, jobVars, waiterVars, callVars
<1>17. ASSUME NEW j \in Job, Communicate(j) PROVE WaiterKnows'
  BY <1>17 DEF Communicate, Continue, storeVars, jobVars, waiterVars, callVars
<1>18. ASSUME NEW j \in Job, Expire(j) PROVE WaiterKnows'
  BY <1>18 DEF Expire, Continue, storeVars, jobVars, waiterVars, callVars
<1>19. ASSUME NEW j \in Job, Drain(j) PROVE WaiterKnows'
  BY <1>19 DEF Drain, Continue, storeVars, jobVars, waiterVars, callVars
<1>20. ASSUME NEW j \in Job, Conclude(j) PROVE WaiterKnows'
  BY <1>20 DEF Conclude, Continue, storeVars, jobVars, waiterVars, callVars
<1>21. ASSUME NEW j \in Job, Assign(j) PROVE WaiterKnows'
  BY <1>21 DEF Assign, Continue, storeVars, jobVars, waiterVars, callVars
<1>22. ASSUME NEW j \in Job, Exit(j) PROVE WaiterKnows'
  BY <1>22 DEF Exit, Dead, storeVars, jobVars, waiterVars, callVars
<1>23. CASE UNCHANGED vars
  BY <1>23 DEF vars, storeVars, jobVars, waiterVars, callVars
<1> HIDE DEF IInv, TypeOK, Status, Terminal, Proc, Waiter, At, JobPhase, WaiterKnows, CallPhase, StopperKnows
<1> QED BY <1>1, <1>2, <1>3, <1>4, <1>5, <1>6, <1>7, <1>8, <1>9, <1>10, <1>11, <1>12, <1>13,
           <1>14, <1>15, <1>16, <1>17, <1>18, <1>19, <1>20, <1>21, <1>22, <1>23
        DEF Next, Step, Waits

\* Every step keeps what a call knows of its job.
LEMMA CallStep == ASSUME IInv, [Next]_vars PROVE CallPhase'
<1> USE JobAssumption DEF IInv, TypeOK, Status, Terminal, Proc, Waiter, At, JobPhase, WaiterKnows, CallPhase
<1>1. ASSUME NEW c \in Caller, List(c) PROVE CallPhase'
  BY <1>1 DEF List, Collect, storeVars, jobVars, waiterVars, callVars
<1>2. ASSUME NEW c \in Caller, Spawn(c) PROVE CallPhase'
  BY <1>2 DEF Spawn, Collect, Goto, storeVars, jobVars, waiterVars, callVars
<1>3. ASSUME NEW c \in Caller, NEW j \in Job, Popen(c, j) PROVE CallPhase'
  BY <1>3 DEF Popen, Goto, storeVars, jobVars, waiterVars, callVars
<1>4. ASSUME NEW c \in Caller, PopenFails(c) PROVE CallPhase'
  BY <1>4 DEF PopenFails, Over, Goto, storeVars, jobVars, waiterVars, callVars
<1>5. ASSUME NEW c \in Caller, RecordThread(c) PROVE CallPhase'
  BY <1>5 DEF RecordThread, Goto, storeVars, jobVars, waiterVars, callVars
<1>6. ASSUME NEW c \in Caller, StartThread(c) PROVE CallPhase'
  BY <1>6 DEF StartThread, Over, Goto, storeVars, jobVars, waiterVars, callVars
<1>7. ASSUME NEW c \in Caller, Wait(c) PROVE CallPhase'
  BY <1>7 DEF Wait, Over, Goto, storeVars, jobVars, waiterVars, callVars
<1>8. ASSUME NEW c \in Caller, WaitEnds(c) PROVE CallPhase'
  BY <1>8 DEF WaitEnds, Over, Goto, storeVars, jobVars, waiterVars, callVars
<1>9. ASSUME NEW c \in Caller, Mark(c) PROVE CallPhase'
  BY <1>9 DEF Mark, Over, Goto, storeVars, jobVars, waiterVars, callVars
<1>10. ASSUME NEW c \in Caller, Join(c) PROVE CallPhase'
  BY <1>10 DEF Join, Goto, Blocked, storeVars, jobVars, waiterVars, callVars
<1>11. ASSUME NEW c \in Caller, Kill(c) PROVE CallPhase'
  BY <1>11 DEF Kill, Dead, Goto, storeVars, jobVars, waiterVars, callVars
<1>12. ASSUME NEW c \in Caller, Settle(c) PROVE CallPhase'
  BY <1>12 DEF Settle, StopReturns, Over, Goto, storeVars, jobVars, waiterVars, callVars
<1>13. ASSUME NEW c \in Caller, Stamp(c) PROVE CallPhase'
  BY <1>13 DEF Stamp, StopReturns, Over, Goto, storeVars, jobVars, waiterVars, callVars
<1>14. ASSUME NEW c \in Caller, Respawn(c) PROVE CallPhase'
  BY <1>14 DEF Respawn, Collect, Goto, storeVars, jobVars, waiterVars, callVars
<1>15. ASSUME NEW c \in Caller, NEW j \in Job, NEW steer \in BOOLEAN, Stop(c, j, steer) PROVE CallPhase'
  BY <1>15 DEF Stop, Goto, storeVars, jobVars, waiterVars, callVars
<1>16. ASSUME NEW j \in Job, Begin(j) PROVE CallPhase'
  BY <1>16 DEF Begin, Continue, storeVars, jobVars, waiterVars, callVars
<1>17. ASSUME NEW j \in Job, Communicate(j) PROVE CallPhase'
  BY <1>17 DEF Communicate, Continue, storeVars, jobVars, waiterVars, callVars
<1>18. ASSUME NEW j \in Job, Expire(j) PROVE CallPhase'
  BY <1>18 DEF Expire, Continue, storeVars, jobVars, waiterVars, callVars
<1>19. ASSUME NEW j \in Job, Drain(j) PROVE CallPhase'
  BY <1>19 DEF Drain, Continue, storeVars, jobVars, waiterVars, callVars
<1>20. ASSUME NEW j \in Job, Conclude(j) PROVE CallPhase'
  BY <1>20 DEF Conclude, Continue, storeVars, jobVars, waiterVars, callVars
<1>21. ASSUME NEW j \in Job, Assign(j) PROVE CallPhase'
  BY <1>21 DEF Assign, Continue, storeVars, jobVars, waiterVars, callVars
<1>22. ASSUME NEW j \in Job, Exit(j) PROVE CallPhase'
  BY <1>22 DEF Exit, Dead, storeVars, jobVars, waiterVars, callVars
<1>23. CASE UNCHANGED vars
  BY <1>23 DEF vars, storeVars, jobVars, waiterVars, callVars
<1> HIDE DEF IInv, TypeOK, Status, Terminal, Proc, Waiter, At, JobPhase, WaiterKnows, CallPhase
<1> QED BY <1>1, <1>2, <1>3, <1>4, <1>5, <1>6, <1>7, <1>8, <1>9, <1>10, <1>11, <1>12, <1>13,
           <1>14, <1>15, <1>16, <1>17, <1>18, <1>19, <1>20, <1>21, <1>22, <1>23
        DEF Next, Step, Waits

\* Every step keeps what a stop knows of its job.
LEMMA StopperStep == ASSUME IInv, [Next]_vars PROVE StopperKnows'
<1> USE JobAssumption DEF IInv, TypeOK, Status, Terminal, Proc, Waiter, At, JobPhase, CallPhase, StopperKnows, WaiterKnows
<1>1. ASSUME NEW c \in Caller, List(c) PROVE StopperKnows'
  BY <1>1 DEF List, Collect, storeVars, jobVars, waiterVars, callVars
<1>2. ASSUME NEW c \in Caller, Spawn(c) PROVE StopperKnows'
  BY <1>2 DEF Spawn, Collect, Goto, storeVars, jobVars, waiterVars, callVars
<1>3. ASSUME NEW c \in Caller, NEW j \in Job, Popen(c, j) PROVE StopperKnows'
  BY <1>3 DEF Popen, Goto, storeVars, jobVars, waiterVars, callVars
<1>4. ASSUME NEW c \in Caller, PopenFails(c) PROVE StopperKnows'
  BY <1>4 DEF PopenFails, Over, Goto, storeVars, jobVars, waiterVars, callVars
<1>5. ASSUME NEW c \in Caller, RecordThread(c) PROVE StopperKnows'
  BY <1>5 DEF RecordThread, Goto, storeVars, jobVars, waiterVars, callVars
<1>6. ASSUME NEW c \in Caller, StartThread(c) PROVE StopperKnows'
  BY <1>6 DEF StartThread, Over, Goto, storeVars, jobVars, waiterVars, callVars
<1>7. ASSUME NEW c \in Caller, Wait(c) PROVE StopperKnows'
  BY <1>7 DEF Wait, Over, Goto, storeVars, jobVars, waiterVars, callVars
<1>8. ASSUME NEW c \in Caller, WaitEnds(c) PROVE StopperKnows'
  BY <1>8 DEF WaitEnds, Over, Goto, storeVars, jobVars, waiterVars, callVars
<1>9. ASSUME NEW c \in Caller, Mark(c) PROVE StopperKnows'
  BY <1>9 DEF Mark, Over, Goto, storeVars, jobVars, waiterVars, callVars
<1>10. ASSUME NEW c \in Caller, Join(c) PROVE StopperKnows'
  BY <1>10 DEF Join, Goto, Blocked, storeVars, jobVars, waiterVars, callVars
<1>11. ASSUME NEW c \in Caller, Kill(c) PROVE StopperKnows'
  BY <1>11 DEF Kill, Dead, Goto, storeVars, jobVars, waiterVars, callVars
<1>12. ASSUME NEW c \in Caller, Settle(c) PROVE StopperKnows'
  BY <1>12 DEF Settle, StopReturns, Over, Goto, storeVars, jobVars, waiterVars, callVars
<1>13. ASSUME NEW c \in Caller, Stamp(c) PROVE StopperKnows'
  BY <1>13 DEF Stamp, StopReturns, Over, Goto, storeVars, jobVars, waiterVars, callVars
<1>14. ASSUME NEW c \in Caller, Respawn(c) PROVE StopperKnows'
  BY <1>14 DEF Respawn, Collect, Goto, storeVars, jobVars, waiterVars, callVars
<1>15. ASSUME NEW c \in Caller, NEW j \in Job, NEW steer \in BOOLEAN, Stop(c, j, steer) PROVE StopperKnows'
  BY <1>15 DEF Stop, Goto, storeVars, jobVars, waiterVars, callVars
<1>16. ASSUME NEW j \in Job, Begin(j) PROVE StopperKnows'
  BY <1>16 DEF Begin, Continue, storeVars, jobVars, waiterVars, callVars
<1>17. ASSUME NEW j \in Job, Communicate(j) PROVE StopperKnows'
  BY <1>17 DEF Communicate, Continue, storeVars, jobVars, waiterVars, callVars
<1>18. ASSUME NEW j \in Job, Expire(j) PROVE StopperKnows'
  BY <1>18 DEF Expire, Continue, storeVars, jobVars, waiterVars, callVars
<1>19. ASSUME NEW j \in Job, Drain(j) PROVE StopperKnows'
  BY <1>19 DEF Drain, Continue, storeVars, jobVars, waiterVars, callVars
<1>20. ASSUME NEW j \in Job, Conclude(j) PROVE StopperKnows'
  BY <1>20 DEF Conclude, Continue, storeVars, jobVars, waiterVars, callVars
<1>21. ASSUME NEW j \in Job, Assign(j) PROVE StopperKnows'
  BY <1>21 DEF Assign, Continue, storeVars, jobVars, waiterVars, callVars
<1>22. ASSUME NEW j \in Job, Exit(j) PROVE StopperKnows'
  BY <1>22 DEF Exit, Dead, storeVars, jobVars, waiterVars, callVars
<1>23. CASE UNCHANGED vars
  BY <1>23 DEF vars, storeVars, jobVars, waiterVars, callVars
<1> HIDE DEF IInv, TypeOK, Status, Terminal, Proc, Waiter, At, JobPhase, CallPhase, StopperKnows, WaiterKnows
<1> QED BY <1>1, <1>2, <1>3, <1>4, <1>5, <1>6, <1>7, <1>8, <1>9, <1>10, <1>11, <1>12, <1>13,
           <1>14, <1>15, <1>16, <1>17, <1>18, <1>19, <1>20, <1>21, <1>22, <1>23
        DEF Next, Step, Waits

\* Every step keeps known what runs.
LEMMA LiveStep == ASSUME IInv, [Next]_vars PROVE LiveIsKnown'
<1> USE JobAssumption DEF IInv, TypeOK, Status, Terminal, Proc, Waiter, At, JobPhase, WaiterKnows, CallPhase, StopperKnows, LiveIsKnown
<1>1. ASSUME NEW c \in Caller, List(c) PROVE LiveIsKnown'
  BY <1>1 DEF List, Collect, storeVars, jobVars, waiterVars, callVars
<1>2. ASSUME NEW c \in Caller, Spawn(c) PROVE LiveIsKnown'
  BY <1>2 DEF Spawn, Collect, Goto, storeVars, jobVars, waiterVars, callVars
<1>3. ASSUME NEW c \in Caller, NEW j \in Job, Popen(c, j) PROVE LiveIsKnown'
  BY <1>3 DEF Popen, Goto, storeVars, jobVars, waiterVars, callVars
<1>4. ASSUME NEW c \in Caller, PopenFails(c) PROVE LiveIsKnown'
  BY <1>4 DEF PopenFails, Over, Goto, storeVars, jobVars, waiterVars, callVars
<1>5. ASSUME NEW c \in Caller, RecordThread(c) PROVE LiveIsKnown'
  BY <1>5 DEF RecordThread, Goto, storeVars, jobVars, waiterVars, callVars
<1>6. ASSUME NEW c \in Caller, StartThread(c) PROVE LiveIsKnown'
  BY <1>6 DEF StartThread, Over, Goto, storeVars, jobVars, waiterVars, callVars
<1>7. ASSUME NEW c \in Caller, Wait(c) PROVE LiveIsKnown'
  BY <1>7 DEF Wait, Over, Goto, storeVars, jobVars, waiterVars, callVars
<1>8. ASSUME NEW c \in Caller, WaitEnds(c) PROVE LiveIsKnown'
  BY <1>8 DEF WaitEnds, Over, Goto, storeVars, jobVars, waiterVars, callVars
<1>9. ASSUME NEW c \in Caller, Mark(c) PROVE LiveIsKnown'
  BY <1>9 DEF Mark, Over, Goto, storeVars, jobVars, waiterVars, callVars
<1>10. ASSUME NEW c \in Caller, Join(c) PROVE LiveIsKnown'
  BY <1>10 DEF Join, Goto, Blocked, storeVars, jobVars, waiterVars, callVars
<1>11. ASSUME NEW c \in Caller, Kill(c) PROVE LiveIsKnown'
  BY <1>11 DEF Kill, Dead, Goto, storeVars, jobVars, waiterVars, callVars
<1>12. ASSUME NEW c \in Caller, Settle(c) PROVE LiveIsKnown'
  BY <1>12 DEF Settle, StopReturns, Over, Goto, storeVars, jobVars, waiterVars, callVars
<1>13. ASSUME NEW c \in Caller, Stamp(c) PROVE LiveIsKnown'
  BY <1>13 DEF Stamp, StopReturns, Over, Goto, storeVars, jobVars, waiterVars, callVars
<1>14. ASSUME NEW c \in Caller, Respawn(c) PROVE LiveIsKnown'
  BY <1>14 DEF Respawn, Collect, Goto, storeVars, jobVars, waiterVars, callVars
<1>15. ASSUME NEW c \in Caller, NEW j \in Job, NEW steer \in BOOLEAN, Stop(c, j, steer) PROVE LiveIsKnown'
  BY <1>15 DEF Stop, Goto, storeVars, jobVars, waiterVars, callVars
<1>16. ASSUME NEW j \in Job, Begin(j) PROVE LiveIsKnown'
  BY <1>16 DEF Begin, Continue, storeVars, jobVars, waiterVars, callVars
<1>17. ASSUME NEW j \in Job, Communicate(j) PROVE LiveIsKnown'
  BY <1>17 DEF Communicate, Continue, storeVars, jobVars, waiterVars, callVars
<1>18. ASSUME NEW j \in Job, Expire(j) PROVE LiveIsKnown'
  BY <1>18 DEF Expire, Continue, storeVars, jobVars, waiterVars, callVars
<1>19. ASSUME NEW j \in Job, Drain(j) PROVE LiveIsKnown'
  BY <1>19 DEF Drain, Continue, storeVars, jobVars, waiterVars, callVars
<1>20. ASSUME NEW j \in Job, Conclude(j) PROVE LiveIsKnown'
  BY <1>20 DEF Conclude, Continue, storeVars, jobVars, waiterVars, callVars
<1>21. ASSUME NEW j \in Job, Assign(j) PROVE LiveIsKnown'
  BY <1>21 DEF Assign, Continue, storeVars, jobVars, waiterVars, callVars
<1>22. ASSUME NEW j \in Job, Exit(j) PROVE LiveIsKnown'
  BY <1>22 DEF Exit, Dead, storeVars, jobVars, waiterVars, callVars
<1>23. CASE UNCHANGED vars
  BY <1>23 DEF vars, storeVars, jobVars, waiterVars, callVars
<1> HIDE DEF IInv, TypeOK, Status, Terminal, Proc, Waiter, At, JobPhase, WaiterKnows, CallPhase, StopperKnows, LiveIsKnown
<1> QED BY <1>1, <1>2, <1>3, <1>4, <1>5, <1>6, <1>7, <1>8, <1>9, <1>10, <1>11, <1>12, <1>13,
           <1>14, <1>15, <1>16, <1>17, <1>18, <1>19, <1>20, <1>21, <1>22, <1>23
        DEF Next, Step, Waits

LEMMA Inductive == Spec => []IInv
<1>1. Init => IInv
  BY JobAssumption
     DEF Init, IInv, TypeOK, Status, Terminal, Proc, Waiter, At, JobPhase, WaiterKnows,
         CallPhase, StopperKnows, LiveIsKnown
<1>2. IInv /\ [Next]_vars => IInv'
  BY TypeStep, JobPhaseStep, WaiterStep, CallStep, StopperStep, LiveStep DEF IInv
<1> QED BY <1>1, <1>2, PTL DEF Spec

-----------------------------------------------------------------------------
\* Every variable of the store, its threads and its callers keeps its type.
THEOREM TypeCorrect == Spec => []TypeOK
<1>1. IInv => TypeOK
  BY DEF IInv
<1> QED BY <1>1, Inductive, PTL

\* A child that is alive is listed as running, or has outlived its time.
THEOREM LiveIsAlwaysKnown == Spec => []LiveIsKnown
<1>1. IInv => LiveIsKnown
  BY DEF IInv
<1> QED BY <1>1, Inductive, PTL

\* What a job became it stays, however its stops and its thread interleave.
THEOREM TerminalAlwaysStays == Spec => TerminalStays
<1> DEFINE Stays == \A j \in Job : status[j] \in Terminal => status'[j] = status[j]
<1>1. ASSUME IInv, Next PROVE Stays
  <2> USE <1>1 DEF IInv, TypeOK, Status, Terminal
  <2>1. ASSUME NEW c \in Caller, NEW j \in Job, Popen(c, j) PROVE Stays
    BY <2>1 DEF Popen
  <2>2. ASSUME NEW c \in Caller, Settle(c) PROVE Stays
    BY <2>2 DEF Settle
  <2>3. ASSUME NEW j \in Job, Assign(j) PROVE Stays
    BY <2>3 DEF Assign, JobPhase, WaiterKnows
  <2>4. CASE UNCHANGED status
    BY <2>4
  <2> QED
    BY <1>1, <2>1, <2>2, <2>3, <2>4
       DEF Next, Step, Waits, List, Spawn, PopenFails, RecordThread, StartThread, Wait, WaitEnds,
           Mark, Join, Kill, Stamp, Respawn, Stop, Begin, Communicate, Expire, Drain, Conclude,
           Exit, jobVars
<1>2. IInv /\ [Next]_vars => [Stays]_vars
  BY <1>1
<1> QED BY <1>2, Inductive, PTL DEF Spec, TerminalStays
=============================================================================
