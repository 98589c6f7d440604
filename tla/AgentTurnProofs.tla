-------------------------- MODULE AgentTurnProofs --------------------------
(***************************************************************************)
(* Proofs about the agent loop and the approval gate, for any number of    *)
(* turns, sessions, rounds and deciders: what the ledger says of a call    *)
(* that left the house, what a governed agent may say unvetted, and when   *)
(* the loop's assertion can fail.                                          *)
(***************************************************************************)
EXTENDS AgentTurnInvariant, TLAPS

\* A turn at the gate asks for a call of its current round.
LEMMA AskedIsRequest ==
    ASSUME TypeOK, RoundsLeft, NEW t \in Turn, pc[t] \in Waiting \cup {"dispatch",
    "send"}
    PROVE  /\ Asked(t) \in Request /\ rounds[t] \in Int
           /\ Asked(t)[1] = t /\ Asked(t)[2] = rounds[t] + 1
<1>1. rounds[t] \in 0 .. MaxRounds /\ rounds[t] < MaxRounds /\ t \in Egress
  BY DEF TypeOK, RoundsLeft
<1>2. rounds[t] + 1 \in 1 .. MaxRounds
  BY <1>1, LoopAssumption
<1> QED BY <1>1, <1>2, RequestAssumption DEF Asked

\* A row appended to a session keeps its type.
LEMMA SaveTurnType ==
    ASSUME conv \in [Session -> Seq(Row)], NEW s \in Session, NEW role, NEW by,
           [role |-> role, by |-> by] \in Row, SaveTurn(s, role, by)
    PROVE  conv' \in [Session -> Seq(Row)]
BY DEF SaveTurn

\* So do the position of a turn and its count of rounds.
LEMMA GotoType ==
    ASSUME pc \in [Turn -> PC], NEW t \in Turn, NEW there \in PC, Goto(t, there)
    PROVE  pc' \in [Turn -> PC]
BY DEF Goto

LEMMA EndRoundType ==
    ASSUME rounds \in [Turn -> 0 .. MaxRounds], NEW t \in Turn, rounds[t] < MaxRounds,
           NEW there, EndRound(t, there)
    PROVE  rounds' \in [Turn -> 0 .. MaxRounds]
BY LoopAssumption DEF EndRound

\* Every step keeps the types.
LEMMA TypeStep == ASSUME IInv, [Next]_vars PROVE TypeOK'
<1> USE RequestAssumption, LoopAssumption, NoRequestAssumption
    DEF TypeOK, GateTypeOK, IInv, RoundsLeft, Running, Waiting, Ended, Draft, Terminal,
        Asked, Under, PC
<1>1. ASSUME NEW t \in Turn, Receive(t) PROVE TypeOK'
  <2>1. [role |-> "user", by |-> t] \in Row
    BY DEF Row
  <2>2. conv' \in [Session -> Seq(Row)]
    BY <1>1, <2>1, SaveTurnType DEF Receive
  <2> QED BY <1>1, <2>2 DEF Receive, Goto, gateVars, turnVars, historyVars, boundVars
<1>2. ASSUME NEW t \in Turn, Load(t) PROVE TypeOK'
  BY <1>2 DEF Load, Goto, gateVars, turnVars, historyVars, boundVars
<1>3. ASSUME NEW t \in Turn, AskTools(t) PROVE TypeOK'
  <2>1. PICK lookUp \in BOOLEAN : named' = [named EXCEPT ![t] = @ \/ lookUp]
    BY <1>3 DEF AskTools
  <2>2. named' \in [Turn -> BOOLEAN]
    BY <2>1
  <2>3. pc' \in [Turn -> PC]
    BY <1>3 DEF AskTools, Goto, EndRound, PC
  <2>4. rounds' \in [Turn -> 0 .. MaxRounds]
    <3>1. CASE UNCHANGED rounds
      BY <3>1
    <3>2. CASE EndRound(t, "ask")
      BY <1>3, <3>2, EndRoundType DEF AskTools
    <3> QED BY <1>3, <3>1, <3>2 DEF AskTools
  <2> QED BY <1>3, <2>2, <2>3, <2>4
      DEF AskTools, gateVars, turnVars, historyVars, boundVars
<1>4. ASSUME NEW t \in Turn, AskForced(t) PROVE TypeOK'
  BY <1>4 DEF AskForced, Goto, Accept, gateVars, turnVars, historyVars, boundVars
<1>5. ASSUME NEW t \in Turn, AskFinal(t) PROVE TypeOK'
  <2>1. pc' \in [Turn -> PC]
    BY <1>5 DEF AskFinal, Goto, Accept, PC
  <2>4. answer' \in [Turn -> Draft]
    BY <1>5 DEF AskFinal, Accept, HonestFloor
  <2>2. budget' \in [Turn -> 0 .. VerifyBudget]
    <3>1. \/ UNCHANGED budget
          \/ budget[t] > 0 /\ budget' = [budget EXCEPT ![t] = @ - 1]
      BY <1>5 DEF AskFinal
    <3>2. budget[t] > 0 => budget[t] - 1 \in 0 .. VerifyBudget
      BY LoopAssumption
    <3> QED BY <3>1, <3>2
  <2>3. faults' \in 0 .. MaxFaults /\ waived' \subseteq Turn
    BY <1>5 DEF AskFinal
  <2> QED BY <1>5, <2>1, <2>2, <2>3, <2>4
      DEF AskFinal, gateVars, turnVars, historyVars, boundVars
<1>6. ASSUME NEW t \in Turn, File(t) PROVE TypeOK'
  BY <1>6 DEF File, Goto, Create, gateVars, turnVars, historyVars, boundVars
<1>7. ASSUME NEW t \in Turn, Poll(t) PROVE TypeOK'
  <2>1. pc' \in [Turn -> PC]
    <3>1. CASE Goto(t, "send")
      BY <3>1, GotoType DEF PC
    <3>2. CASE Goto(t, "ask")
      BY <3>2, GotoType DEF PC
    <3> QED BY <1>7, <3>1, <3>2 DEF Poll, EndRound
  <2>2. rounds' \in [Turn -> 0 .. MaxRounds]
    <3>1. CASE EndRound(t, "ask")
      BY <1>7, <3>1, EndRoundType DEF Poll
    <3>2. CASE UNCHANGED rounds
      BY <3>2
    <3> QED BY <1>7, <3>1, <3>2 DEF Poll
  <2> QED BY <1>7, <2>1, <2>2 DEF Poll, gateVars, historyVars, boundVars
<1>8. ASSUME NEW t \in Turn, TimeOut(t) PROVE TypeOK'
  BY <1>8 DEF TimeOut, Goto, gateVars, turnVars, historyVars, boundVars
<1>9. ASSUME NEW t \in Turn, Expire(t) PROVE TypeOK'
  <2>1. Asked(t) \in Request
    BY <1>9 DEF Expire
  <2>2. pc' \in [Turn -> PC]
    BY <1>9, GotoType DEF Expire, EndRound, PC
  <2>3. rounds' \in [Turn -> 0 .. MaxRounds]
    BY <1>9, EndRoundType DEF Expire
  <2>4. verdict' \in [Request -> {"none", "pending"} \cup Terminal]
    BY <1>9, <2>1 DEF Expire, WriteState
  <2> QED BY <1>9, <2>2, <2>3, <2>4
      DEF Expire, gateVars, turnVars, historyVars, boundVars
<1>10. ASSUME NEW t \in Turn, Send(t) PROVE TypeOK'
  <2>1. Asked(t) \in Request
    BY <1>10 DEF Send
  <2>2. pc' \in [Turn -> PC]
    BY <1>10, GotoType DEF Send, EndRound, PC
  <2>3. rounds' \in [Turn -> 0 .. MaxRounds]
    BY <1>10, EndRoundType DEF Send
  <2>4. sent' \subseteq Request
    BY <1>10, <2>1 DEF Send
  <2> QED BY <1>10, <2>2, <2>3, <2>4
      DEF Send, gateVars, turnVars, historyVars, boundVars
<1>11. ASSUME NEW t \in Turn, Save(t) PROVE TypeOK'
  <2>1. [role |-> "assistant", by |-> t] \in Row
    BY DEF Row
  <2>2. conv' \in [Session -> Seq(Row)]
    BY <1>11, <2>1, SaveTurnType DEF Save
  <2> QED BY <1>11, <2>2 DEF Save, Goto, gateVars, turnVars, historyVars, boundVars
<1>12. ASSUME NEW t \in Turn, Break(t) PROVE TypeOK'
  <2>1. pc' \in [Turn -> PC]
    BY <1>12, GotoType DEF Break
  <2>2. faults' \in 0 .. MaxFaults
    BY <1>12 DEF Break
  <2> QED BY <1>12, <2>1, <2>2 DEF Break, gateVars, turnVars, historyVars, boundVars
<1>13. ASSUME NEW d \in Decider, Decide(d) PROVE TypeOK'
  <2>1. ASSUME NEW q \in Request, DecideRead(d, q) PROVE TypeOK'
    BY <1>13, <2>1 DEF Decide, DecideRead, turnVars, historyVars, boundVars
  <2>2. CASE DecideWrite(d)
    <3>1. deciding[d] \in Request
      BY <2>2 DEF DecideWrite
    <3>2. verdict' \in [Request -> {"none", "pending"} \cup Terminal]
      BY <2>2, <3>1 DEF DecideWrite, WriteState
    <3>3. yes' \subseteq Request /\ deciding' \in [Decider -> Request \cup {NoRequest}]
      BY <2>2, <3>1 DEF DecideWrite
    <3> QED BY <1>13, <3>2, <3>3 DEF Decide, turnVars, historyVars, boundVars
  <2> QED BY <1>13, <2>1, <2>2 DEF Decide
<1>14. ASSUME NEW s \in Session, Post(s) PROVE TypeOK'
  <2>1. [role |-> "assistant", by |-> "posted"] \in Row
    BY DEF Row
  <2>2. conv' \in [Session -> Seq(Row)]
    BY <1>14, <2>1, SaveTurnType DEF Post
  <2>3. posts' \in 0 .. MaxPosts /\ crowded' \subseteq Turn
    BY <1>14 DEF Post
  <2> QED BY <1>14, <2>2, <2>3 DEF Post, gateVars, turnVars
<1>15. CASE Crash
  <2>1. pc' \in [Turn -> PC]
    BY <1>15 DEF Crash, PC
  <2>2. deciding' \in [Decider -> Request \cup {NoRequest}]
    BY <1>15 DEF Crash, GateCrash
  <2>3. faults' \in 0 .. MaxFaults
    BY <1>15 DEF Crash
  <2> QED BY <1>15, <2>1, <2>2, <2>3 DEF Crash, GateCrash, historyVars
<1>16. CASE UNCHANGED vars
  BY <1>16 DEF vars, gateVars, turnVars, historyVars, boundVars
<1> QED BY <1>1, <1>2, <1>3, <1>4, <1>5, <1>6, <1>7, <1>8, <1>9, <1>10, <1>11, <1>12,
    <1>13, <1>14, <1>15, <1>16 DEF Next, Step

\* A yes is a human's, a sender has one, and so has what was sent.
LEMMA YesStep == ASSUME IInv, [Next]_vars
    PROVE (ApprovedByHuman /\ SenderHasYes /\ EgressNeedsYes)'
<1> USE RequestAssumption
    DEF IInv, TypeOK, GateTypeOK, ApprovedByHuman, SenderHasYes, EgressNeedsYes, Asked,
        Terminal, RoundsLeft, Under, Running, Waiting, Ended
<1>1. ASSUME NEW t \in Turn, Receive(t)
    PROVE (ApprovedByHuman /\ SenderHasYes /\ EgressNeedsYes)'
  BY <1>1 DEF Receive, SaveTurn, Goto, gateVars, turnVars, historyVars, boundVars
<1>2. ASSUME NEW t \in Turn, Load(t)
    PROVE (ApprovedByHuman /\ SenderHasYes /\ EgressNeedsYes)'
  BY <1>2 DEF Load, Goto, gateVars, turnVars, historyVars, boundVars
<1>3. ASSUME NEW t \in Turn, AskTools(t)
    PROVE (ApprovedByHuman /\ SenderHasYes /\ EgressNeedsYes)'
  BY <1>3 DEF AskTools, Goto, EndRound, gateVars, turnVars, historyVars, boundVars
<1>4. ASSUME NEW t \in Turn, AskForced(t)
    PROVE (ApprovedByHuman /\ SenderHasYes /\ EgressNeedsYes)'
  BY <1>4 DEF AskForced, Goto, Accept, gateVars, turnVars, historyVars, boundVars
<1>5. ASSUME NEW t \in Turn, AskFinal(t)
    PROVE (ApprovedByHuman /\ SenderHasYes /\ EgressNeedsYes)'
  BY <1>5
    DEF AskFinal, Goto, Accept, HonestFloor, gateVars, turnVars, historyVars, boundVars
<1>6. ASSUME NEW t \in Turn, File(t)
    PROVE (ApprovedByHuman /\ SenderHasYes /\ EgressNeedsYes)'
  BY <1>6 DEF File, Goto, Create, gateVars, turnVars, historyVars, boundVars
<1>7. ASSUME NEW t \in Turn, Poll(t)
    PROVE (ApprovedByHuman /\ SenderHasYes /\ EgressNeedsYes)'
  <2>1. \A u \in Turn \ {t} : pc'[u] = pc[u] /\ rounds'[u] = rounds[u]
    BY <1>7 DEF Poll, EndRound, Goto
  <2>2. pc'[t] = "send" => Asked(t) \in yes /\ rounds' = rounds
    BY <1>7, AskedIsRequest DEF Poll, EndRound, Goto
  <2> QED BY <1>7, <2>1, <2>2 DEF Poll, gateVars, historyVars
<1>8. ASSUME NEW t \in Turn, TimeOut(t)
    PROVE (ApprovedByHuman /\ SenderHasYes /\ EgressNeedsYes)'
  BY <1>8 DEF TimeOut, Goto, gateVars, turnVars, historyVars, boundVars
<1>9. ASSUME NEW t \in Turn, Expire(t)
    PROVE (ApprovedByHuman /\ SenderHasYes /\ EgressNeedsYes)'
  BY <1>9
    DEF Expire, EndRound, Goto, WriteState, gateVars, turnVars, historyVars, boundVars
<1>10. ASSUME NEW t \in Turn, Send(t)
    PROVE (ApprovedByHuman /\ SenderHasYes /\ EgressNeedsYes)'
  BY <1>10 DEF Send, EndRound, Goto, gateVars, turnVars, historyVars, boundVars
<1>11. ASSUME NEW t \in Turn, Save(t)
    PROVE (ApprovedByHuman /\ SenderHasYes /\ EgressNeedsYes)'
  BY <1>11 DEF Save, Goto, SaveTurn, gateVars, turnVars, historyVars, boundVars
<1>12. ASSUME NEW t \in Turn, Break(t)
    PROVE (ApprovedByHuman /\ SenderHasYes /\ EgressNeedsYes)'
  BY <1>12 DEF Break, Goto, gateVars, turnVars, historyVars, boundVars
<1>13. ASSUME NEW d \in Decider, Decide(d)
    PROVE (ApprovedByHuman /\ SenderHasYes /\ EgressNeedsYes)'
  <2>1. ASSUME NEW q \in Request, DecideRead(d, q)
      PROVE (ApprovedByHuman /\ SenderHasYes /\ EgressNeedsYes)'
    BY <1>13, <2>1 DEF Decide, DecideRead, turnVars, historyVars, boundVars
  <2>2. CASE DecideWrite(d)
    BY <1>13, <2>2 DEF Decide, DecideWrite, WriteState, turnVars, historyVars, boundVars
  <2> QED BY <1>13, <2>1, <2>2 DEF Decide
<1>14. ASSUME NEW s \in Session, Post(s)
    PROVE (ApprovedByHuman /\ SenderHasYes /\ EgressNeedsYes)'
  BY <1>14 DEF Post, SaveTurn, gateVars, turnVars
<1>15. CASE Crash
  BY <1>15 DEF Crash, GateCrash, historyVars
<1>16. CASE UNCHANGED vars
  BY <1>16 DEF vars, gateVars, turnVars, historyVars, boundVars
<1> QED BY <1>1, <1>2, <1>3, <1>4, <1>5, <1>6, <1>7, <1>8, <1>9, <1>10, <1>11, <1>12,
    <1>13, <1>14, <1>15, <1>16 DEF Next, Step

\* Calls are filed with rounds left; drafts are accepted last.
LEMMA RoundsStep == ASSUME IInv, [Next]_vars PROVE (RoundsLeft /\ AcceptedLast)'
<1> USE DEF IInv, TypeOK, RoundsLeft, AcceptedLast, Running, Waiting, Under
<1>1. ASSUME NEW t \in Turn, Receive(t) PROVE (RoundsLeft /\ AcceptedLast)'
  BY <1>1 DEF Receive, SaveTurn, Goto, gateVars, turnVars, historyVars, boundVars
<1>2. ASSUME NEW t \in Turn, Load(t) PROVE (RoundsLeft /\ AcceptedLast)'
  BY <1>2 DEF Load, Goto, gateVars, turnVars, historyVars, boundVars
<1>3. ASSUME NEW t \in Turn, AskTools(t) PROVE (RoundsLeft /\ AcceptedLast)'
  BY <1>3 DEF AskTools, Goto, EndRound, gateVars, turnVars, historyVars, boundVars
<1>4. ASSUME NEW t \in Turn, AskForced(t) PROVE (RoundsLeft /\ AcceptedLast)'
  BY <1>4 DEF AskForced, Goto, Accept, gateVars, turnVars, historyVars, boundVars
<1>5. ASSUME NEW t \in Turn, AskFinal(t) PROVE (RoundsLeft /\ AcceptedLast)'
  BY <1>5
    DEF AskFinal, Goto, Accept, HonestFloor, gateVars, turnVars, historyVars, boundVars
<1>6. ASSUME NEW t \in Turn, File(t) PROVE (RoundsLeft /\ AcceptedLast)'
  BY <1>6 DEF File, Goto, Create, gateVars, turnVars, historyVars, boundVars
<1>7. ASSUME NEW t \in Turn, Poll(t) PROVE (RoundsLeft /\ AcceptedLast)'
  BY <1>7 DEF Poll, Goto, EndRound, gateVars, turnVars, historyVars, boundVars
<1>8. ASSUME NEW t \in Turn, TimeOut(t) PROVE (RoundsLeft /\ AcceptedLast)'
  BY <1>8 DEF TimeOut, Goto, gateVars, turnVars, historyVars, boundVars
<1>9. ASSUME NEW t \in Turn, Expire(t) PROVE (RoundsLeft /\ AcceptedLast)'
  BY <1>9
    DEF Expire, EndRound, Goto, WriteState, gateVars, turnVars, historyVars, boundVars
<1>10. ASSUME NEW t \in Turn, Send(t) PROVE (RoundsLeft /\ AcceptedLast)'
  BY <1>10 DEF Send, EndRound, Goto, gateVars, turnVars, historyVars, boundVars
<1>11. ASSUME NEW t \in Turn, Save(t) PROVE (RoundsLeft /\ AcceptedLast)'
  BY <1>11 DEF Save, Goto, SaveTurn, gateVars, turnVars, historyVars, boundVars
<1>12. ASSUME NEW t \in Turn, Break(t) PROVE (RoundsLeft /\ AcceptedLast)'
  BY <1>12 DEF Break, Goto, gateVars, turnVars, historyVars, boundVars
<1>13. ASSUME NEW d \in Decider, Decide(d) PROVE (RoundsLeft /\ AcceptedLast)'
  <2>1. ASSUME NEW q \in Request, DecideRead(d, q) PROVE (RoundsLeft /\ AcceptedLast)'
    BY <1>13, <2>1 DEF Decide, DecideRead, turnVars, historyVars, boundVars
  <2>2. CASE DecideWrite(d)
    BY <1>13, <2>2 DEF Decide, DecideWrite, WriteState, turnVars, historyVars, boundVars
  <2> QED BY <1>13, <2>1, <2>2 DEF Decide
<1>14. ASSUME NEW s \in Session, Post(s) PROVE (RoundsLeft /\ AcceptedLast)'
  BY <1>14 DEF Post, SaveTurn, gateVars, turnVars
<1>15. CASE Crash
  BY <1>15 DEF Crash, GateCrash, historyVars
<1>16. CASE UNCHANGED vars
  BY <1>16 DEF vars, gateVars, turnVars, historyVars, boundVars
<1> QED BY <1>1, <1>2, <1>3, <1>4, <1>5, <1>6, <1>7, <1>8, <1>9, <1>10, <1>11, <1>12,
    <1>13, <1>14, <1>15, <1>16 DEF Next, Step

\* The gate lets no risky draft through unexcused.
LEMMA VetStep == ASSUME IInv, [Next]_vars PROVE GuessIsVetted'
<1> USE DEF IInv, TypeOK, GuessIsVetted, AcceptedLast, Running, Waiting, Draft, Under
<1>1. ASSUME NEW t \in Turn, Receive(t) PROVE GuessIsVetted'
  BY <1>1 DEF Receive, SaveTurn, Goto, gateVars, turnVars, historyVars, boundVars
<1>2. ASSUME NEW t \in Turn, Load(t) PROVE GuessIsVetted'
  BY <1>2 DEF Load, Goto, gateVars, turnVars, historyVars, boundVars
<1>3. ASSUME NEW t \in Turn, AskTools(t) PROVE GuessIsVetted'
  BY <1>3 DEF AskTools, Goto, EndRound, gateVars, turnVars, historyVars, boundVars
<1>4. ASSUME NEW t \in Turn, AskForced(t) PROVE GuessIsVetted'
  BY <1>4 DEF AskForced, Goto, Accept, gateVars, turnVars, historyVars, boundVars
<1>5. ASSUME NEW t \in Turn, AskFinal(t) PROVE GuessIsVetted'
  BY <1>5
    DEF AskFinal, Goto, Accept, HonestFloor, gateVars, turnVars, historyVars, boundVars
<1>6. ASSUME NEW t \in Turn, File(t) PROVE GuessIsVetted'
  BY <1>6 DEF File, Goto, Create, gateVars, turnVars, historyVars, boundVars
<1>7. ASSUME NEW t \in Turn, Poll(t) PROVE GuessIsVetted'
  BY <1>7 DEF Poll, Goto, EndRound, gateVars, turnVars, historyVars, boundVars
<1>8. ASSUME NEW t \in Turn, TimeOut(t) PROVE GuessIsVetted'
  BY <1>8 DEF TimeOut, Goto, gateVars, turnVars, historyVars, boundVars
<1>9. ASSUME NEW t \in Turn, Expire(t) PROVE GuessIsVetted'
  BY <1>9
    DEF Expire, EndRound, Goto, WriteState, gateVars, turnVars, historyVars, boundVars
<1>10. ASSUME NEW t \in Turn, Send(t) PROVE GuessIsVetted'
  BY <1>10 DEF Send, EndRound, Goto, gateVars, turnVars, historyVars, boundVars
<1>11. ASSUME NEW t \in Turn, Save(t) PROVE GuessIsVetted'
  BY <1>11 DEF Save, Goto, SaveTurn, gateVars, turnVars, historyVars, boundVars
<1>12. ASSUME NEW t \in Turn, Break(t) PROVE GuessIsVetted'
  BY <1>12 DEF Break, Goto, gateVars, turnVars, historyVars, boundVars
<1>13. ASSUME NEW d \in Decider, Decide(d) PROVE GuessIsVetted'
  <2>1. ASSUME NEW q \in Request, DecideRead(d, q) PROVE GuessIsVetted'
    BY <1>13, <2>1 DEF Decide, DecideRead, turnVars, historyVars, boundVars
  <2>2. CASE DecideWrite(d)
    BY <1>13, <2>2 DEF Decide, DecideWrite, WriteState, turnVars, historyVars, boundVars
  <2> QED BY <1>13, <2>1, <2>2 DEF Decide
<1>14. ASSUME NEW s \in Session, Post(s) PROVE GuessIsVetted'
  BY <1>14 DEF Post, SaveTurn, gateVars, turnVars
<1>15. CASE Crash
  BY <1>15 DEF Crash, GateCrash, historyVars
<1>16. CASE UNCHANGED vars
  BY <1>16 DEF vars, gateVars, turnVars, historyVars, boundVars
<1> QED BY <1>1, <1>2, <1>3, <1>4, <1>5, <1>6, <1>7, <1>8, <1>9, <1>10, <1>11, <1>12,
    <1>13, <1>14, <1>15, <1>16 DEF Next, Step

\* Overlapping turns of a session know of each other.
LEMMA CompanyStep == ASSUME IInv, [Next]_vars PROVE CompanyIsKnown'
<1> USE DEF IInv, TypeOK, CompanyIsKnown, Under, Running, Waiting
<1>1. ASSUME NEW t \in Turn, Receive(t) PROVE CompanyIsKnown'
  BY <1>1 DEF Receive, SaveTurn, Goto, gateVars, turnVars, historyVars, boundVars
<1>2. ASSUME NEW t \in Turn, Load(t) PROVE CompanyIsKnown'
  BY <1>2 DEF Load, Goto, gateVars, turnVars, historyVars, boundVars
<1>3. ASSUME NEW t \in Turn, AskTools(t) PROVE CompanyIsKnown'
  BY <1>3 DEF AskTools, Goto, EndRound, gateVars, turnVars, historyVars, boundVars
<1>4. ASSUME NEW t \in Turn, AskForced(t) PROVE CompanyIsKnown'
  BY <1>4 DEF AskForced, Goto, Accept, gateVars, turnVars, historyVars, boundVars
<1>5. ASSUME NEW t \in Turn, AskFinal(t) PROVE CompanyIsKnown'
  BY <1>5
    DEF AskFinal, Goto, Accept, HonestFloor, gateVars, turnVars, historyVars, boundVars
<1>6. ASSUME NEW t \in Turn, File(t) PROVE CompanyIsKnown'
  BY <1>6 DEF File, Goto, Create, gateVars, turnVars, historyVars, boundVars
<1>7. ASSUME NEW t \in Turn, Poll(t) PROVE CompanyIsKnown'
  BY <1>7 DEF Poll, Goto, EndRound, gateVars, turnVars, historyVars, boundVars
<1>8. ASSUME NEW t \in Turn, TimeOut(t) PROVE CompanyIsKnown'
  BY <1>8 DEF TimeOut, Goto, gateVars, turnVars, historyVars, boundVars
<1>9. ASSUME NEW t \in Turn, Expire(t) PROVE CompanyIsKnown'
  BY <1>9
    DEF Expire, EndRound, Goto, WriteState, gateVars, turnVars, historyVars, boundVars
<1>10. ASSUME NEW t \in Turn, Send(t) PROVE CompanyIsKnown'
  BY <1>10 DEF Send, EndRound, Goto, gateVars, turnVars, historyVars, boundVars
<1>11. ASSUME NEW t \in Turn, Save(t) PROVE CompanyIsKnown'
  BY <1>11 DEF Save, Goto, SaveTurn, gateVars, turnVars, historyVars, boundVars
<1>12. ASSUME NEW t \in Turn, Break(t) PROVE CompanyIsKnown'
  BY <1>12 DEF Break, Goto, gateVars, turnVars, historyVars, boundVars
<1>13. ASSUME NEW d \in Decider, Decide(d) PROVE CompanyIsKnown'
  <2>1. ASSUME NEW q \in Request, DecideRead(d, q) PROVE CompanyIsKnown'
    BY <1>13, <2>1 DEF Decide, DecideRead, turnVars, historyVars, boundVars
  <2>2. CASE DecideWrite(d)
    BY <1>13, <2>2 DEF Decide, DecideWrite, WriteState, turnVars, historyVars, boundVars
  <2> QED BY <1>13, <2>1, <2>2 DEF Decide
<1>14. ASSUME NEW s \in Session, Post(s) PROVE CompanyIsKnown'
  BY <1>14 DEF Post, SaveTurn, gateVars, turnVars
<1>15. CASE Crash
  BY <1>15 DEF Crash, GateCrash, historyVars
<1>16. CASE UNCHANGED vars
  BY <1>16 DEF vars, gateVars, turnVars, historyVars, boundVars
<1> QED BY <1>1, <1>2, <1>3, <1>4, <1>5, <1>6, <1>7, <1>8, <1>9, <1>10, <1>11, <1>12,
    <1>13, <1>14, <1>15, <1>16 DEF Next, Step

\* A turn alone in its session finds its own row last.
LEMMA AloneStep == ASSUME IInv, [Next]_vars
    PROVE (AloneFindsItsRow /\ AssertNeedsCompany)'
<1> USE
    DEF IInv, TypeOK, AloneFindsItsRow, AssertNeedsCompany, CompanyIsKnown, Turns!UserRow,
        Running, Waiting, Under
<1>1. ASSUME NEW t \in Turn, Receive(t) PROVE (AloneFindsItsRow /\ AssertNeedsCompany)'
  <2>1. crowded \subseteq crowded' /\ sess' = sess
    BY <1>1 DEF Receive
  <2>2. ASSUME NEW u \in Turn, u # t, Under(u)', u \notin crowded'
        PROVE  Under(u) /\ sess[u] # sess[t]
    BY <1>1, <2>2 DEF Receive, Goto
  <2>3. ASSUME NEW u \in Turn, sess[u] # sess[t] PROVE conv'[sess[u]] = conv[sess[u]]
    BY <1>1, <2>3 DEF Receive, SaveTurn
  <2>4. /\ conv'[sess[t]] # <<>>
        /\ conv'[sess[t]][Len(conv'[sess[t]])] = [role |-> "user", by |-> t]
    <3>1. conv'[sess[t]] = Append(conv[sess[t]], [role |-> "user", by |-> t])
      BY <1>1 DEF Receive, SaveTurn
    <3>2. [role |-> "user", by |-> t] \in Row /\ conv[sess[t]] \in Seq(Row)
      BY DEF Row
    <3> HIDE DEF IInv, TypeOK
    <3> QED BY <3>1, <3>2
  <2>5. AloneFindsItsRow'
    BY <2>1, <2>2, <2>3, <2>4
  <2>6. AssertNeedsCompany'
    BY <1>1, <2>1 DEF Receive, Goto
  <2> QED BY <2>5, <2>6
<1>2. ASSUME NEW t \in Turn, Load(t) PROVE (AloneFindsItsRow /\ AssertNeedsCompany)'
  <2>1. CASE t \in crowded
    BY <1>2, <2>1 DEF Load, Goto, gateVars, historyVars, boundVars
  <2>2. CASE t \notin crowded
    <3>1. conv[sess[t]][Len(conv[sess[t]])] = Turns!UserRow(t)
      BY <1>2, <2>2 DEF Load
    <3>3. Turns!UserRow(t).role = "user"
      OBVIOUS
    <3>2. Goto(t, "ask")
      BY <1>2, <3>1, <3>3 DEF Load
    <3> QED BY <1>2, <3>2 DEF Load, Goto, gateVars, historyVars, boundVars
  <2> QED BY <2>1, <2>2
<1>3. ASSUME NEW t \in Turn, AskTools(t) PROVE (AloneFindsItsRow /\ AssertNeedsCompany)'
  BY <1>3 DEF AskTools, Goto, EndRound, gateVars, turnVars, historyVars, boundVars
<1>4. ASSUME NEW t \in Turn, AskForced(t)
    PROVE (AloneFindsItsRow /\ AssertNeedsCompany)'
  BY <1>4 DEF AskForced, Goto, Accept, gateVars, turnVars, historyVars, boundVars
<1>5. ASSUME NEW t \in Turn, AskFinal(t) PROVE (AloneFindsItsRow /\ AssertNeedsCompany)'
  BY <1>5
    DEF AskFinal, Goto, Accept, HonestFloor, gateVars, turnVars, historyVars, boundVars
<1>6. ASSUME NEW t \in Turn, File(t) PROVE (AloneFindsItsRow /\ AssertNeedsCompany)'
  BY <1>6 DEF File, Goto, Create, gateVars, turnVars, historyVars, boundVars
<1>7. ASSUME NEW t \in Turn, Poll(t) PROVE (AloneFindsItsRow /\ AssertNeedsCompany)'
  BY <1>7 DEF Poll, Goto, EndRound, gateVars, turnVars, historyVars, boundVars
<1>8. ASSUME NEW t \in Turn, TimeOut(t) PROVE (AloneFindsItsRow /\ AssertNeedsCompany)'
  BY <1>8 DEF TimeOut, Goto, gateVars, turnVars, historyVars, boundVars
<1>9. ASSUME NEW t \in Turn, Expire(t) PROVE (AloneFindsItsRow /\ AssertNeedsCompany)'
  BY <1>9
    DEF Expire, EndRound, Goto, WriteState, gateVars, turnVars, historyVars, boundVars
<1>10. ASSUME NEW t \in Turn, Send(t) PROVE (AloneFindsItsRow /\ AssertNeedsCompany)'
  BY <1>10 DEF Send, EndRound, Goto, gateVars, turnVars, historyVars, boundVars
<1>11. ASSUME NEW t \in Turn, Save(t) PROVE (AloneFindsItsRow /\ AssertNeedsCompany)'
  <2>1. ASSUME NEW u \in Turn, Under(u)', u \notin crowded
        PROVE  Under(u) /\ sess[u] # sess[t]
    BY <1>11, <2>1 DEF Save, Goto
  <2>2. ASSUME NEW u \in Turn, sess[u] # sess[t] PROVE conv'[sess[u]] = conv[sess[u]]
    BY <1>11, <2>2 DEF Save, SaveTurn
  <2>3. AloneFindsItsRow'
    BY <1>11, <2>1, <2>2 DEF Save, historyVars
  <2>4. AssertNeedsCompany'
    BY <1>11 DEF Save, Goto, historyVars
  <2> QED BY <2>3, <2>4
<1>12. ASSUME NEW t \in Turn, Break(t) PROVE (AloneFindsItsRow /\ AssertNeedsCompany)'
  BY <1>12 DEF Break, Goto, gateVars, turnVars, historyVars, boundVars
<1>13. ASSUME NEW d \in Decider, Decide(d)
    PROVE (AloneFindsItsRow /\ AssertNeedsCompany)'
  <2>1. ASSUME NEW q \in Request, DecideRead(d, q)
      PROVE (AloneFindsItsRow /\ AssertNeedsCompany)'
    BY <1>13, <2>1 DEF Decide, DecideRead, turnVars, historyVars, boundVars
  <2>2. CASE DecideWrite(d)
    BY <1>13, <2>2 DEF Decide, DecideWrite, WriteState, turnVars, historyVars, boundVars
  <2> QED BY <1>13, <2>1, <2>2 DEF Decide
<1>14. ASSUME NEW s \in Session, Post(s) PROVE (AloneFindsItsRow /\ AssertNeedsCompany)'
  BY <1>14 DEF Post, SaveTurn, gateVars, turnVars
<1>15. CASE Crash
  BY <1>15 DEF Crash, GateCrash, historyVars
<1>16. CASE UNCHANGED vars
  BY <1>16 DEF vars, gateVars, turnVars, historyVars, boundVars
<1> QED BY <1>1, <1>2, <1>3, <1>4, <1>5, <1>6, <1>7, <1>8, <1>9, <1>10, <1>11, <1>12,
    <1>13, <1>14, <1>15, <1>16 DEF Next, Step

\* An answer below its question stays there when rows are appended.
LEMMA AnsweredFrame ==
    ASSUME TypeOK, AloneIsAnswered, UNCHANGED sess, crowded \subseteq crowded',
           \/ UNCHANGED conv
           \/ \E s \in Session : \E role, by : SaveTurn(s, role, by)
    PROVE  \A t \in Turn \ crowded' :
             pc[t] = "done" =>
               \E i \in 1 .. Len(conv'[sess'[t]]) - 1 :
                 /\ conv'[sess'[t]][i] = Turns!UserRow(t)
                 /\ conv'[sess'[t]][i + 1] = Turns!AnswerRow(t)
<1> SUFFICES ASSUME NEW t \in Turn \ crowded', pc[t] = "done"
             PROVE  \E i \in 1 .. Len(conv'[sess'[t]]) - 1 :
                      /\ conv'[sess'[t]][i] = Turns!UserRow(t)
                      /\ conv'[sess'[t]][i + 1] = Turns!AnswerRow(t)
  OBVIOUS
<1> DEFINE rows == conv[sess[t]]
<1>1. PICK i \in 1 .. Len(rows) - 1 :
        rows[i] = Turns!UserRow(t) /\ rows[i + 1] = Turns!AnswerRow(t)
  BY DEF AloneIsAnswered
<1>2. rows \in Seq(Row) /\ sess[t] \in Session /\ sess'[t] = sess[t]
  BY DEF TypeOK
<1>3. conv'[sess[t]] = rows \/ \E row : conv'[sess[t]] = Append(rows, row)
  <2>1. CASE UNCHANGED conv
    BY <2>1
  <2>2. ASSUME NEW s \in Session, NEW role, NEW by, SaveTurn(s, role, by)
        PROVE  conv'[sess[t]] = rows \/ \E row : conv'[sess[t]] = Append(rows, row)
    BY <1>2, <2>2 DEF SaveTurn, TypeOK
  <2> QED BY <2>1, <2>2
<1>4. /\ i \in 1 .. Len(conv'[sess[t]]) - 1
      /\ conv'[sess[t]][i] = rows[i] /\ conv'[sess[t]][i + 1] = rows[i + 1]
  <2>1. CASE conv'[sess[t]] = rows
    BY <1>1, <2>1
  <2>2. ASSUME NEW row, conv'[sess[t]] = Append(rows, row)
        PROVE  /\ i \in 1 .. Len(conv'[sess[t]]) - 1
               /\ conv'[sess[t]][i] = rows[i] /\ conv'[sess[t]][i + 1] = rows[i + 1]
    BY <1>1, <1>2, <2>2
  <2> QED BY <1>3, <2>1, <2>2
<1> QED BY <1>1, <1>2, <1>4 DEF Turns!UserRow, Turns!AnswerRow

\* What a turn alone saves is next to what it was asked.
LEMMA AnsweredStep == ASSUME IInv, [Next]_vars PROVE AloneIsAnswered'
<1> USE DEF IInv, gateVars, turnVars, historyVars, boundVars
<1>1. ASSUME \A u \in Turn : pc'[u] = "done" => pc[u] = "done", UNCHANGED <<conv, sess>>,
             UNCHANGED crowded
      PROVE  AloneIsAnswered'
  BY <1>1, AnsweredFrame DEF AloneIsAnswered
<1>2. ASSUME NEW t \in Turn, NEW there \in PC \ {"done"}, Goto(t, there),
             UNCHANGED <<conv, sess, crowded>>
      PROVE  AloneIsAnswered'
  BY <1>1, <1>2 DEF Goto, TypeOK
<1>3. ASSUME NEW t \in Turn, Receive(t) PROVE AloneIsAnswered'
  <2>1. \A u \in Turn : pc'[u] = "done" => pc[u] = "done"
    BY <1>3 DEF Receive, Goto, TypeOK
  <2>2. UNCHANGED sess /\ crowded \subseteq crowded' /\ SaveTurn(sess[t], "user", t)
    BY <1>3 DEF Receive
  <2>3. sess[t] \in Session
    BY DEF TypeOK
  <2> QED BY <2>1, <2>2, <2>3, AnsweredFrame DEF AloneIsAnswered
<1>4. ASSUME NEW s \in Session, Post(s) PROVE AloneIsAnswered'
  BY <1>4, AnsweredFrame DEF AloneIsAnswered, Post
<1>5. ASSUME NEW t \in Turn, Save(t) PROVE AloneIsAnswered'
  <2> DEFINE s == sess[t]
             end == Len(conv[s])
  <2>1. UNCHANGED <<sess, crowded>> /\ SaveTurn(s, "assistant", t) /\ pc[t] = "save"
        /\ s \in Session
    BY <1>5 DEF Save, TypeOK
  <2>2. \A u \in Turn \ {t} : pc'[u] = pc[u]
    BY <1>5 DEF Save, Goto, TypeOK
  <2>3. ASSUME t \notin crowded
        PROVE  \E i \in 1 .. Len(conv'[s]) - 1 :
                 /\ conv'[s][i] = Turns!UserRow(t) /\ conv'[s][i + 1] = Turns!AnswerRow(t)
    <3>1. conv[s] # <<>> /\ conv[s][end] = Turns!UserRow(t) /\ conv[s] \in Seq(Row)
      BY <2>1, <2>3 DEF AloneFindsItsRow, Under, Running, TypeOK
    <3>2. conv'[s] = Append(conv[s], Turns!AnswerRow(t))
      BY <2>1 DEF SaveTurn, TypeOK, Turns!AnswerRow
    <3>3. end \in 1 .. Len(conv'[s]) - 1 /\ conv'[s][end] = conv[s][end]
          /\ conv'[s][end + 1] = Turns!AnswerRow(t)
      BY <3>1, <3>2
    <3> QED BY <3>1, <3>3
  <2>4. \A u \in Turn \ crowded' :
          pc[u] = "done" =>
            \E i \in 1 .. Len(conv'[sess'[u]]) - 1 :
              /\ conv'[sess'[u]][i] = Turns!UserRow(u)
              /\ conv'[sess'[u]][i + 1] = Turns!AnswerRow(u)
    BY <2>1, AnsweredFrame
  <2> QED BY <2>1, <2>2, <2>3, <2>4 DEF AloneIsAnswered, Turns!UserRow, Turns!AnswerRow
<1>6. ASSUME NEW t \in Turn, Load(t) PROVE AloneIsAnswered'
  BY <1>2, <1>6 DEF Load, PC, Running, Ended
<1>7. ASSUME NEW t \in Turn, AskTools(t) PROVE AloneIsAnswered'
  BY <1>2, <1>7 DEF AskTools, EndRound, PC, Running
<1>8. ASSUME NEW t \in Turn, AskForced(t) PROVE AloneIsAnswered'
  BY <1>2, <1>8 DEF AskForced, Accept, PC, Running, Ended
<1>9. ASSUME NEW t \in Turn, AskFinal(t) PROVE AloneIsAnswered'
  <2>1. UNCHANGED <<conv, sess, crowded>>
    BY <1>9 DEF AskFinal
  <2>2. UNCHANGED pc \/ \E there \in {"silent", "save"} : Goto(t, there)
    BY <1>9 DEF AskFinal, Accept
  <2> QED BY <1>1, <1>2, <2>1, <2>2 DEF PC, Running, Ended
<1>10. ASSUME NEW t \in Turn, File(t) PROVE AloneIsAnswered'
  BY <1>2, <1>10 DEF File, PC, Running, Waiting
<1>11. ASSUME NEW t \in Turn, Poll(t) PROVE AloneIsAnswered'
  BY <1>2, <1>11 DEF Poll, EndRound, PC, Running
<1>12. ASSUME NEW t \in Turn, TimeOut(t) PROVE AloneIsAnswered'
  BY <1>2, <1>12 DEF TimeOut, PC, Running, Waiting
<1>13. ASSUME NEW t \in Turn, Expire(t) PROVE AloneIsAnswered'
  BY <1>2, <1>13 DEF Expire, EndRound, PC, Running
<1>14. ASSUME NEW t \in Turn, Send(t) PROVE AloneIsAnswered'
  BY <1>2, <1>14 DEF Send, EndRound, PC, Running
<1>15. ASSUME NEW t \in Turn, Break(t) PROVE AloneIsAnswered'
  BY <1>2, <1>15 DEF Break, PC, Ended
<1>16. ASSUME NEW d \in Decider, Decide(d) PROVE AloneIsAnswered'
  BY <1>1, <1>16 DEF Decide
<1>17. CASE Crash
  BY <1>1, <1>17 DEF Crash
<1>18. CASE UNCHANGED vars
  BY <1>1, <1>18 DEF vars
<1> QED BY <1>3, <1>4, <1>5, <1>6, <1>7, <1>8, <1>9, <1>10, <1>11, <1>12, <1>13,
    <1>14, <1>15, <1>16, <1>17, <1>18 DEF Next, Step

\* Rounds are only counted up.
LEMMA RoundsGrow ==
    ASSUME TypeOK, NEW t \in Turn, NEW there, EndRound(t, there) \/ UNCHANGED rounds
    PROVE  \A u \in Turn : rounds'[u] \in Int /\ rounds[u] <= rounds'[u]
<1> rounds \in [Turn -> Int]
  BY LoopAssumption DEF TypeOK
<1> CASE EndRound(t, there)
  BY DEF EndRound
<1> CASE UNCHANGED rounds
  OBVIOUS
<1> QED OBVIOUS

\* A request is a pair of a turn and a number.
LEMMA RequestPair == \A q \in Request : q[1] \in Turn /\ q[2] \in Int
BY RequestAssumption, LoopAssumption

\* One decision at a time does not disturb what was executed.
LEMMA SentStep == ASSUME SInv, OneDecider, [Next]_vars PROVE SentIsSettled'
<1> USE RequestAssumption, NoRequestAssumption
    DEF SInv, IInv, OneDecider, TypeOK, GateTypeOK, SentIsSettled, Settled, RoundsLeft,
        Asked, Terminal, Under, Running, Waiting
<1>1. ASSUME NEW t \in Turn, Receive(t) PROVE SentIsSettled'
  BY <1>1 DEF Receive, SaveTurn, Goto, gateVars, turnVars, historyVars, boundVars
<1>2. ASSUME NEW t \in Turn, Load(t) PROVE SentIsSettled'
  BY <1>2 DEF Load, Goto, gateVars, turnVars, historyVars, boundVars
<1>3. ASSUME NEW t \in Turn, AskTools(t) PROVE SentIsSettled'
  <2>1. \A u \in Turn : rounds'[u] \in Int /\ rounds[u] <= rounds'[u]
    BY <1>3, RoundsGrow DEF AskTools
  <2>2. \A q \in sent : Settled(q)' /\ q[2] <= rounds'[q[1]]
    BY <1>3, <2>1, RequestPair DEF AskTools, gateVars, historyVars
  <2>3. \A u \in Turn : pc'[u] = "send" => pc[u] = "send" /\ rounds'[u] = rounds[u]
    BY <1>3 DEF AskTools, EndRound, Goto
  <2> QED BY <1>3, <2>2, <2>3 DEF AskTools, gateVars, historyVars
<1>4. ASSUME NEW t \in Turn, AskForced(t) PROVE SentIsSettled'
  BY <1>4 DEF AskForced, Goto, Accept, gateVars, turnVars, historyVars, boundVars
<1>5. ASSUME NEW t \in Turn, AskFinal(t) PROVE SentIsSettled'
  BY <1>5
    DEF AskFinal, Goto, Accept, HonestFloor, gateVars, turnVars, historyVars, boundVars
<1>6. ASSUME NEW t \in Turn, File(t) PROVE SentIsSettled'
  BY <1>6 DEF File, Goto, Create, gateVars, turnVars, historyVars, boundVars
<1>7. ASSUME NEW t \in Turn, Poll(t) PROVE SentIsSettled'
  <2>1. CASE verdict[Asked(t)] = "approved"
    <3>1. Asked(t) \in Request /\ Settled(Asked(t))
      BY <1>7, <2>1, AskedIsRequest DEF Poll
    <3>2. Goto(t, "send") /\ UNCHANGED rounds
      BY <1>7, <2>1 DEF Poll
    <3> QED BY <1>7, <3>1, <3>2 DEF Poll, Goto, gateVars, historyVars
  <2>2. CASE verdict[Asked(t)] # "approved"
    <3>1. EndRound(t, "ask")
      BY <1>7, <2>2 DEF Poll
    <3>2. \A u \in Turn : rounds'[u] \in Int /\ rounds[u] <= rounds'[u]
      BY <3>1, RoundsGrow
    <3>3. \A q \in sent : Settled(q)' /\ q[2] <= rounds'[q[1]]
      BY <1>7, <3>2, RequestPair DEF Poll, gateVars, historyVars
    <3>4. \A u \in Turn : pc'[u] = "send" => pc[u] = "send" /\ rounds'[u] = rounds[u]
      BY <3>1 DEF EndRound, Goto
    <3> QED BY <1>7, <3>3, <3>4 DEF Poll, gateVars, historyVars
  <2> QED BY <2>1, <2>2
<1>8. ASSUME NEW t \in Turn, TimeOut(t) PROVE SentIsSettled'
  BY <1>8 DEF TimeOut, Goto, gateVars, turnVars, historyVars, boundVars
<1>9. ASSUME NEW t \in Turn, Expire(t) PROVE SentIsSettled'
  BY <1>9
    DEF Expire, EndRound, Goto, WriteState, gateVars, turnVars, historyVars, boundVars
<1>10. ASSUME NEW t \in Turn, Send(t) PROVE SentIsSettled'
  <2>1. \A u \in Turn : rounds'[u] \in Int /\ rounds[u] <= rounds'[u]
    BY <1>10, RoundsGrow DEF Send
  <2>2. Settled(Asked(t)) /\ Asked(t) \in Request /\ Asked(t)[2] <= rounds'[Asked(t)[1]]
    <3>1. Asked(t) \in Request /\ Asked(t)[1] = t /\ Asked(t)[2] = rounds[t] + 1
      BY <1>10, AskedIsRequest DEF Send
    <3>2. rounds'[t] = rounds[t] + 1
      BY <1>10 DEF Send, EndRound
    <3> QED BY <1>10, <3>1, <3>2, <2>1 DEF Send
  <2>3. \A q \in sent' : Settled(q)' /\ q[2] <= rounds'[q[1]]
    BY <1>10, <2>1, <2>2, RequestPair DEF Send, gateVars
  <2>4. \A u \in Turn : pc'[u] = "send" => pc[u] = "send" /\ rounds'[u] = rounds[u]
    BY <1>10 DEF Send, EndRound, Goto
  <2> QED BY <1>10, <2>3, <2>4 DEF Send, gateVars
<1>11. ASSUME NEW t \in Turn, Save(t) PROVE SentIsSettled'
  BY <1>11 DEF Save, Goto, SaveTurn, gateVars, turnVars, historyVars, boundVars
<1>12. ASSUME NEW t \in Turn, Break(t) PROVE SentIsSettled'
  BY <1>12 DEF Break, Goto, gateVars, turnVars, historyVars, boundVars
<1>13. ASSUME NEW d \in Decider, Decide(d) PROVE SentIsSettled'
  <2>1. ASSUME NEW q \in Request, DecideRead(d, q) PROVE SentIsSettled'
    BY <1>13, <2>1 DEF Decide, DecideRead, turnVars, historyVars
  <2>2. CASE DecideWrite(d)
    <3>1. deciding[d] \in Request /\ \A e \in Decider : e = d
      BY <2>2 DEF DecideWrite
    <3>2. \A q \in Request : Settled(q) => Settled(q)'
      BY <2>2, <3>1 DEF DecideWrite, WriteState
    <3>3. \A e \in Decider : deciding'[e] = NoRequest
      BY <2>2, <3>1 DEF DecideWrite
    <3>4. UNCHANGED <<pc, rounds, sent>>
      BY <1>13 DEF Decide, turnVars, historyVars
    <3>5. \A u \in Turn : pc[u] = "send" => Asked(u) \in Request
      BY AskedIsRequest
    <3> QED BY <3>2, <3>3, <3>4, <3>5
  <2> QED BY <1>13, <2>1, <2>2 DEF Decide
<1>14. ASSUME NEW s \in Session, Post(s) PROVE SentIsSettled'
  BY <1>14 DEF Post, SaveTurn, gateVars, turnVars
<1>15. CASE Crash
  BY <1>15 DEF Crash, GateCrash, historyVars
<1>16. CASE UNCHANGED vars
  BY <1>16 DEF vars, gateVars, turnVars, historyVars, boundVars
<1> QED BY <1>1, <1>2, <1>3, <1>4, <1>5, <1>6, <1>7, <1>8, <1>9, <1>10, <1>11, <1>12,
    <1>13, <1>14, <1>15, <1>16 DEF Next, Step

-----------------------------------------------------------------------------
\* The invariant holds at the start, is kept by every step, and so always holds.
LEMMA InitIInv == Init => IInv
<1> SUFFICES ASSUME Init PROVE IInv
  OBVIOUS
<1> USE DEF Init, GateInit
<1>1. TypeOK
  <2>1. rounds \in [Turn -> 0 .. MaxRounds] /\ budget \in [Turn -> 0 .. VerifyBudget]
    BY LoopAssumption
  <2>2. posts \in 0 .. MaxPosts /\ faults \in 0 .. MaxFaults
    BY LoopAssumption
  <2>3. pc \in [Turn -> PC] /\ conv \in [Session -> Seq(Row)]
    BY DEF PC
  <2> QED BY <2>1, <2>2, <2>3 DEF TypeOK, GateTypeOK, Draft
<1>2. ApprovedByHuman /\ SenderHasYes /\ EgressNeedsYes
  BY DEF ApprovedByHuman, SenderHasYes, EgressNeedsYes
<1>3. RoundsLeft /\ AcceptedLast /\ GuessIsVetted /\ CompanyIsKnown
  BY DEF RoundsLeft, AcceptedLast, GuessIsVetted, CompanyIsKnown, Under, Running,
      Waiting
<1>4. AloneFindsItsRow /\ AssertNeedsCompany /\ AloneIsAnswered
  BY DEF AloneFindsItsRow, AssertNeedsCompany, AloneIsAnswered, Under, Running, Waiting
<1> QED BY <1>1, <1>2, <1>3, <1>4 DEF IInv

LEMMA IInvStep == IInv /\ [Next]_vars => IInv'
BY TypeStep, YesStep, RoundsStep, VetStep, CompanyStep, AloneStep,
   AnsweredStep DEF IInv

LEMMA Invariance == Spec => []IInv
BY InitIInv, IInvStep, PTL DEF Spec

(* The state of the loop and of the gate keeps its type.                   *)
THEOREM TypeCorrect == Spec => []TypeOK
BY Invariance, PTL DEF IInv

(* No egress call is executed without a human's yes to its request, with   *)
(* any number of turns, of decisions at once, of crashes and timeouts.     *)
THEOREM EgressAlwaysHasYes == Spec => []EgressNeedsYes
BY Invariance, PTL DEF IInv

(* A governed agent answers with an unvetted claim only when the tool      *)
(* budget was spent or the gate raised.                                    *)
THEOREM GuessIsAlwaysVetted == Spec => []GuessIsVetted
BY Invariance, PTL DEF IInv

(* The assertion of the loop fails only where two writers of one session   *)
(* overlap.                                                                *)
THEOREM AssertAlwaysNeedsCompany == Spec => []AssertNeedsCompany
BY Invariance, PTL DEF IInv

\* With one decision at a time, the ledger agrees with what was executed.
LEMMA InitSettled == Init => SentIsSettled
BY DEF Init, GateInit, SentIsSettled

LEMMA SInvStep == OneDecider /\ SInv /\ [Next]_vars => SInv'
BY IInvStep, SentStep DEF SInv

(* With decisions taken one at a time, every call that was executed stays  *)
(* approved in the ledger.                                                 *)
THEOREM SentIsAlwaysApproved ==
    ASSUME OneDecider
    PROVE  Spec => []SentIsApproved
<1>1. Init => SInv
  BY InitIInv, InitSettled DEF SInv
<1>2. SInv /\ [Next]_vars => SInv'
  BY SInvStep
<1>3. SInv => SentIsApproved
  BY DEF SInv, SentIsSettled, Settled, SentIsApproved
<1> QED BY <1>1, <1>2, <1>3, PTL DEF Spec

-----------------------------------------------------------------------------
\* A step that leaves the rows and the phase of every turn alone is a stutter.
LEMMA QuietStep ==
    ASSUME UNCHANGED <<conv, sess>>, \A u \in Turn : Phase(u)' = Phase(u)
    PROVE  UNCHANGED Turns!turnsVars
BY DEF Turns!turnsVars

\* One that moves open turns to failed ones, and no other, is their failure.
LEMMA FailingStep ==
    ASSUME NEW failed \in SUBSET Turn, UNCHANGED <<conv, sess>>,
           \A u \in failed : Phase(u) = "open" /\ Phase(u)' = "failed",
           \A u \in Turn \ failed : Phase(u)' = Phase(u)
    PROVE  Turns!TurnsNext
<1>1. Turns!Fail(failed)
  BY DEF Turns!Fail
<1> QED BY <1>1 DEF Turns!TurnsNext

\* The phase of a turn follows from where it is.
LEMMA PhaseOf ==
    ASSUME NEW u \in Turn
    PROVE  /\ pc[u] = "new" => Phase(u) = "new"
           /\ pc[u] = "done" => Phase(u) = "answered"
           /\ pc[u] \in Running => Phase(u) = "open"
           /\ pc[u] \in Ended \ {"done"} => Phase(u) = "failed"
BY DEF Phase, Under, Running, Waiting, Ended

\* A turn that goes elsewhere takes no other with it.
LEMMA GotoPhase ==
    ASSUME TypeOK, NEW t \in Turn, NEW there \in PC, Goto(t, there), UNCHANGED <<conv,
    sess>>,
           pc[t] \in Running, there \in Running \cup (Ended \ {"done"})
    PROVE  [Turns!TurnsNext]_Turns!turnsVars
<1>1. \A u \in Turn \ {t} : Phase(u)' = Phase(u)
  BY DEF Goto, TypeOK, Phase, Under
<1>2. pc'[t] = there /\ Phase(t) = "open"
  BY PhaseOf DEF Goto, TypeOK
<1>3. CASE there \in Running
  <2>1. Phase(t)' = "open"
    BY <1>2, <1>3 DEF Phase, Under, Running, Waiting
  <2> QED BY <1>1, <1>2, <2>1, QuietStep
<1>4. CASE there \in Ended \ {"done"}
  <2>1. Phase(t)' = "failed"
    BY <1>2, <1>4 DEF Phase, Under, Running, Waiting, Ended
  <2> QED BY <1>1, <1>2, <2>1, FailingStep
<1> QED BY <1>3, <1>4

\* Every step of the loop is one of SessionTurns, or none.
LEMMA TurnsStep == ASSUME IInv, [Next]_vars PROVE [Turns!TurnsNext]_Turns!turnsVars
<1> USE DEF IInv
<1>1. ASSUME NEW t \in Turn, Receive(t) PROVE Turns!TurnsNext
  <2>1. \A u \in Turn \ {t} : Phase(u)' = Phase(u)
    BY <1>1 DEF Receive, Goto, TypeOK, Phase, Under
  <2>2. Phase(t) = "new" /\ Phase(t)' = "open"
    BY <1>1 DEF Receive, Goto, TypeOK, Phase, Under, Running, Waiting
  <2>3. Turns!Begin(t)
    BY <1>1, <2>1, <2>2 DEF Receive, SaveTurn, Turns!Begin, Turns!SaveTurn
  <2> QED BY <2>3 DEF Turns!TurnsNext
<1>2. ASSUME NEW t \in Turn, Save(t) PROVE Turns!TurnsNext
  <2>1. \A u \in Turn \ {t} : Phase(u)' = Phase(u)
    BY <1>2 DEF Save, Goto, TypeOK, Phase, Under
  <2>2. Phase(t) = "open" /\ Phase(t)' = "answered"
    BY <1>2 DEF Save, Goto, TypeOK, Phase, Under, Running, Waiting
  <2>3. Turns!Answer(t)
    BY <1>2, <2>1, <2>2 DEF Save, SaveTurn, Turns!Answer, Turns!SaveTurn
  <2> QED BY <2>3 DEF Turns!TurnsNext
<1>3. ASSUME NEW t \in Turn, Load(t) PROVE [Turns!TurnsNext]_Turns!turnsVars
  <2>1. PICK there \in {"ask", "asserted"} : Goto(t, there)
    BY <1>3 DEF Load
  <2>2. UNCHANGED <<conv, sess>> /\ pc[t] \in Running
    BY <1>3 DEF Load, Running, Waiting
  <2> QED BY <2>1, <2>2, GotoPhase DEF PC, Running, Waiting, Ended
<1>4. ASSUME NEW t \in Turn, AskTools(t) PROVE [Turns!TurnsNext]_Turns!turnsVars
  <2>1. PICK there \in {"ask", "dispatch"} : Goto(t, there)
    BY <1>4 DEF AskTools, EndRound
  <2>2. UNCHANGED <<conv, sess>> /\ pc[t] \in Running
    BY <1>4 DEF AskTools, Running, Waiting
  <2> QED BY <2>1, <2>2, GotoPhase DEF PC, Running, Waiting, Ended
<1>5. ASSUME NEW t \in Turn, AskForced(t) PROVE [Turns!TurnsNext]_Turns!turnsVars
  <2>1. PICK there \in {"exhausted", "save"} : Goto(t, there)
    BY <1>5 DEF AskForced, Accept
  <2>2. UNCHANGED <<conv, sess>> /\ pc[t] \in Running
    BY <1>5 DEF AskForced, Running, Waiting
  <2> QED BY <2>1, <2>2, GotoPhase DEF PC, Running, Waiting, Ended
<1>6. ASSUME NEW t \in Turn, AskFinal(t) PROVE [Turns!TurnsNext]_Turns!turnsVars
  <2>1. UNCHANGED <<conv, sess>> /\ pc[t] = "ask"
    BY <1>6 DEF AskFinal
  <2>2. UNCHANGED pc \/ \E there \in {"silent", "save"} : Goto(t, there)
    BY <1>6 DEF AskFinal, Accept
  <2>3. CASE UNCHANGED pc
    BY <2>1, <2>3, QuietStep DEF Phase, Under
  <2>4. ASSUME NEW there \in {"silent", "save"}, Goto(t, there)
        PROVE  [Turns!TurnsNext]_Turns!turnsVars
    BY <2>1, <2>4, GotoPhase DEF PC, Running, Waiting, Ended
  <2> QED BY <2>2, <2>3, <2>4
<1>7. ASSUME NEW t \in Turn, File(t) PROVE [Turns!TurnsNext]_Turns!turnsVars
  <2>1. PICK there \in {"wait"} : Goto(t, there)
    BY <1>7 DEF File
  <2>2. UNCHANGED <<conv, sess>> /\ pc[t] \in Running
    BY <1>7 DEF File, Running, Waiting
  <2> QED BY <2>1, <2>2, GotoPhase DEF PC, Running, Waiting, Ended
<1>8. ASSUME NEW t \in Turn, Poll(t) PROVE [Turns!TurnsNext]_Turns!turnsVars
  <2>1. PICK there \in {"ask", "send"} : Goto(t, there)
    BY <1>8 DEF Poll, EndRound
  <2>2. UNCHANGED <<conv, sess>> /\ pc[t] \in Running
    BY <1>8 DEF Poll, Running, Waiting
  <2> QED BY <2>1, <2>2, GotoPhase DEF PC, Running, Waiting, Ended
<1>9. ASSUME NEW t \in Turn, TimeOut(t) PROVE [Turns!TurnsNext]_Turns!turnsVars
  <2>1. PICK there \in {"expire"} : Goto(t, there)
    BY <1>9 DEF TimeOut
  <2>2. UNCHANGED <<conv, sess>> /\ pc[t] \in Running
    BY <1>9 DEF TimeOut, Running, Waiting
  <2> QED BY <2>1, <2>2, GotoPhase DEF PC, Running, Waiting, Ended
<1>10. ASSUME NEW t \in Turn, Expire(t) PROVE [Turns!TurnsNext]_Turns!turnsVars
  <2>1. PICK there \in {"ask"} : Goto(t, there)
    BY <1>10 DEF Expire, EndRound
  <2>2. UNCHANGED <<conv, sess>> /\ pc[t] \in Running
    BY <1>10 DEF Expire, Running, Waiting
  <2> QED BY <2>1, <2>2, GotoPhase DEF PC, Running, Waiting, Ended
<1>11. ASSUME NEW t \in Turn, Send(t) PROVE [Turns!TurnsNext]_Turns!turnsVars
  <2>1. PICK there \in {"ask"} : Goto(t, there)
    BY <1>11 DEF Send, EndRound
  <2>2. UNCHANGED <<conv, sess>> /\ pc[t] \in Running
    BY <1>11 DEF Send, Running, Waiting
  <2> QED BY <2>1, <2>2, GotoPhase DEF PC, Running, Waiting, Ended
<1>12. ASSUME NEW t \in Turn, Break(t) PROVE [Turns!TurnsNext]_Turns!turnsVars
  <2>1. PICK there \in {"broken"} : Goto(t, there)
    BY <1>12 DEF Break
  <2>2. UNCHANGED <<conv, sess>> /\ pc[t] \in Running
    BY <1>12 DEF Break, Running, Waiting
  <2> QED BY <2>1, <2>2, GotoPhase DEF PC, Running, Waiting, Ended
<1>20. ASSUME NEW d \in Decider, Decide(d) PROVE UNCHANGED Turns!turnsVars
  BY <1>20, QuietStep DEF Decide, turnVars, Phase, Under
<1>21. ASSUME NEW s \in Session, Post(s) PROVE Turns!TurnsNext
  <2>1. Turns!Post(s, "posted")
    BY <1>21 DEF Post, SaveTurn, turnVars, Turns!Post, Turns!SaveTurn, Phase, Under
  <2> QED BY <2>1 DEF Turns!TurnsNext
<1>22. CASE Crash
  <2>1. \A u \in {t \in Turn : Under(t)} : Phase(u) = "open" /\ Phase(u)' = "failed"
    BY <1>22 DEF Crash, Phase, Under, Running, Waiting
  <2>2. \A u \in Turn \ {t \in Turn : Under(t)} : Phase(u)' = Phase(u)
    BY <1>22 DEF Crash, Phase, Under
  <2> QED BY <1>22, <2>1, <2>2, FailingStep DEF Crash
<1>23. CASE UNCHANGED vars
  BY <1>23, QuietStep DEF vars, turnVars, Phase, Under
<1> QED BY <1>1, <1>2, <1>3, <1>4, <1>5, <1>6, <1>7, <1>8, <1>9, <1>10, <1>11, <1>12,
    <1>20, <1>21, <1>22, <1>23 DEF Next, Step

(* The loop implements SessionTurns: for any number of turns, sessions and *)
(* rounds, every turn leaves its user's row and then at most one answer,   *)
(* none once it has failed.                                                *)
THEOREM TurnsImplemented == Spec => ImplementsTurns
<1>1. Init => Turns!TurnsInit
  <2> SUFFICES ASSUME Init PROVE Turns!TurnsInit
    OBVIOUS
  <2>1. \A t \in Turn : Phase(t) = "new"
    BY PhaseOf DEF Init
  <2> QED BY <2>1 DEF Init, Turns!TurnsInit
<1>2. IInv /\ [Next]_vars => [Turns!TurnsNext]_Turns!turnsVars
  BY TurnsStep
<1> QED BY <1>1, <1>2, Invariance, PTL DEF Spec, ImplementsTurns, Turns!TurnsSpec

\* What is proved of SessionTurns holds of the loop.
TurnsProofs ==
    INSTANCE SessionTurnsProofs WITH Other <- {"posted"}, phase <- [t \in Turn |-> Phase(t)]

(* The history of a session is what happened in it, for any number of      *)
(* turns at once, whatever fails: SessionTurns promises which rows there   *)
(* are, the loop that those of a turn alone are next to each other.        *)
THEOREM HistoryIsAlwaysHonest == Spec => []HistoryIsHonest
<1>1. Turns!TurnsSpec => TurnsProofs!TurnsSpec
  BY DEF Turns!TurnsSpec, TurnsProofs!TurnsSpec, Turns!TurnsInit, TurnsProofs!TurnsInit,
    Turns!TurnsNext, TurnsProofs!TurnsNext, Turns!turnsVars, TurnsProofs!turnsVars,
    Turns!Begin, TurnsProofs!Begin, Turns!Answer, TurnsProofs!Answer, Turns!Fail,
    TurnsProofs!Fail, Turns!Post, TurnsProofs!Post, Turns!SaveTurn, TurnsProofs!SaveTurn
<1>2. TurnsProofs!TurnsSpec => []TurnsProofs!HonestHistory
  BY TurnsProofs!HistoryAlwaysHonest, LoopAssumption
<1>3. TurnsProofs!HonestHistory /\ IInv => HistoryIsHonest
  BY DEF IInv, HistoryIsHonest, TurnsProofs!HonestHistory, Turns!HonestHistory,
    TurnsProofs!Honest, Turns!Honest, TurnsProofs!RowsIn, Turns!RowsIn,
    TurnsProofs!UserRow, Turns!UserRow, TurnsProofs!AnswerRow, Turns!AnswerRow
<1> QED BY <1>1, <1>2, <1>3, Invariance, TurnsImplemented, PTL DEF ImplementsTurns
=============================================================================
