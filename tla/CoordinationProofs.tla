------------------------- MODULE CoordinationProofs -------------------------
(***************************************************************************)
(* Proofs about the boards and their events, for any nodes, threads and    *)
(* peers, any number of events and any cap: what an archived node keeps,   *)
(* how one can leave the archive, and how long a chain of turns can get.   *)
(***************************************************************************)
EXTENDS CoordinationInvariant, TLAPS

\* The parts of TypeOK.
RowsTyped == row \in [Node -> Row] /\ lessons \in Seq(Node)
CallsTyped == who \in [Thread -> Name \cup {"nobody"}] /\ call \in [Thread -> Call]
HistoryTyped == cause \in [Thread -> Nat] /\ direct \in [Thread -> BOOLEAN]
EventsTyped ==
    /\ log \in Seq(Event) /\ bus \subseteq 1 .. Len(log) /\ lost \subseteq 1 .. Len(log)
    /\ hand \in 0 .. Len(log)
WorkerTyped ==
    /\ left \subseteq Name /\ outcome \in {"nobody", "dropped", "received", "failed"}
    /\ waits \in Thread /\ faults \in 0 .. MaxFaults

\* No transition leaves Archived, and each leads to a status.
LEMMA Transitions ==
    ASSUME NEW s \in Status
    PROVE  ValidTransitions[s] \subseteq Status /\ ValidTransitions["Archived"] = {}
BY DEF ValidTransitions, Status

\* What is written to a row is a row.
LEMMA RowsAreRows ==
    /\ \A board \in Board : NewRow(board) \in Row
    /\ \A r \in Row, s \in Status : [Provenance(r) EXCEPT !.status = s] \in Row
    /\ \A r \in Row, b \in Node : [r EXCEPT !.blocks = @ \cup {b}] \in Row
    /\ lessons \in Seq(Node) => \A r \in Row : ArchivedRow(r) \in Row
<1>1. \A board \in Board : NewRow(board) \in Row
  BY DEF NewRow, Row, Status, Board
<1>2. \A r \in Row, s \in Status : [Provenance(r) EXCEPT !.status = s] \in Row
  BY DEF Row, Provenance
<1>3. \A r \in Row, b \in Node : [r EXCEPT !.blocks = @ \cup {b}] \in Row
  BY DEF Row
<1>4. lessons \in Seq(Node) => \A r \in Row : ArchivedRow(r) \in Row
  <2> SUFFICES ASSUME lessons \in Seq(Node), NEW r \in Row PROVE ArchivedRow(r) \in Row
    OBVIOUS
  <2> DEFINE p == [Provenance(r) EXCEPT !.status = "Archived"]
  <2>1. p \in Row
    <3>1. "Archived" \in Status
      BY DEF Status
    <3> QED BY <1>2, <3>1
  <2>2. Len(lessons) + 1 \in Nat
    OBVIOUS
  <2>3. ArchivedRow(r) = [p EXCEPT !.lesson = Len(lessons) + 1]
    BY DEF ArchivedRow, Provenance, Row
  <2> HIDE DEF p
  <2> QED BY <2>1, <2>2, <2>3 DEF Row
<1> QED BY <1>1, <1>2, <1>3, <1>4

\* What the calls of a typed state are about.
LEMMA CallFields ==
    ASSUME IInv, NEW t \in Thread
    PROVE  /\ call[t] \in Call /\ call[t].op \in Op /\ call[t].seen \in Row
           /\ call[t].op \notin {"none", "emit"} => call[t].on \in Node /\ Exists(call[t].on)
           /\ call[t].op \notin {"none", "emit", "read"} => call[t].seen.board # "none"
           /\ call[t].op \in {"check", "status"} =>
                call[t].seen.status # "Archived" /\ call[t].arg \in Status \ {"Archived"}
           /\ call[t].op = "promote" => call[t].arg \in Board
           /\ call[t].op \in {"read", "block"} => call[t].other \in Node
           /\ call[t].op = "block" /\ call[t].seen.status = "Archived" =>
                IsLearned(call[t].on, call[t].seen)
           /\ who[t] \in Name \cup {"nobody"} /\ call[t].dests \subseteq Name
<1>1. call[t] \in Call /\ who[t] \in Name \cup {"nobody"}
  BY DEF IInv, TypeOK
<1>2. call[t].op \in Op /\ call[t].seen \in Row /\ call[t].dests \subseteq Name
  BY <1>1 DEF Call
<1>3. CallHasNode /\ CallIsValid
  BY DEF IInv, BoardInv
<1> QED BY <1>1, <1>2, <1>3 DEF CallHasNode, CallIsValid

\* What a step does to the store: nothing, or one of the writes.
StoreStep ==
    \/ UNCHANGED storeVars
    \/ \E t \in Thread, a \in Name, n \in Node, board \in Board : CreateNode(t, a, n, board)
    \/ \E t \in Thread : WriteStatus(t)
    \/ \E t \in Thread : WriteBlock(t)
    \/ \E t \in Thread : WriteArchive(t)
    \/ \E t \in Thread, target \in Node, owner \in Name : WritePromote(t, target, owner)

\* Every step is one of these.
LEMMA StoreSteps == ASSUME [Next]_vars PROVE StoreStep
<1> USE DEF StoreStep
<1>1. ASSUME NEW t \in Thread, NEW a \in Name, NEW n \in Node, NEW board \in Board,
             CreateNode(t, a, n, board)
      PROVE  StoreStep
  BY <1>1 DEF Name
<1>2. ASSUME NEW t \in Thread, NEW a \in Name, NEW n \in Node, NEW s \in Status,
             ReadForStatus(t, a, n, s)
      PROVE  StoreStep
  BY <1>2 DEF ReadForStatus, Start, storeVars
<1>3. ASSUME NEW t \in Thread, NEW a \in Name, NEW n \in Node, ReadForArchive(t, a, n)
      PROVE  StoreStep
  BY <1>3 DEF ReadForArchive, Start, storeVars
<1>4. ASSUME NEW t \in Thread, NEW n \in Node, NEW b \in Node, ReadForBlock(t, n, b)
      PROVE  StoreStep
  BY <1>4 DEF ReadForBlock, Start, storeVars
<1>5. ASSUME NEW t \in Thread, NEW n \in Node, NEW board \in Board, ReadForPromote(t, n, board)
      PROVE  StoreStep
  BY <1>5 DEF ReadForPromote, Start, storeVars
<1>6. ASSUME NEW t \in Thread, NEW a \in Name, NEW n \in Node, RequestDirection(t, a, n)
      PROVE  StoreStep
  BY <1>6 DEF RequestDirection, Put, storeVars
<1>7. ASSUME NEW t \in Thread, CheckBlockers(t) PROVE StoreStep
  BY <1>7 DEF CheckBlockers, Over, storeVars
<1>8. ASSUME NEW t \in Thread, WriteStatus(t) PROVE StoreStep
  BY <1>8 DEF Name
<1>9. ASSUME NEW t \in Thread, ReadBlocks(t) PROVE StoreStep
  BY <1>9 DEF ReadBlocks, storeVars
<1>10. ASSUME NEW t \in Thread, WriteBlock(t) PROVE StoreStep
  BY <1>10 DEF Name
<1>11. ASSUME NEW t \in Thread, WriteArchive(t) PROVE StoreStep
  BY <1>11 DEF Name
<1>12. ASSUME NEW t \in Thread, NEW target \in Node, NEW owner \in Name,
              WritePromote(t, target, owner)
       PROVE  StoreStep
  BY <1>12 DEF Name
<1>13. ASSUME NEW t \in Thread, Refuse(t) PROVE StoreStep
  BY <1>13 DEF Refuse, Over, storeVars
<1>14. ASSUME NEW t \in Thread, Emit(t) PROVE StoreStep
  BY <1>14 DEF Emit, Put, Over, Fault, storeVars
<1>15. ASSUME NEW t \in Thread, EmitNothing(t) PROVE StoreStep
  BY <1>15 DEF EmitNothing, Over, Fault, storeVars
<1>16. ASSUME NEW t \in Thread, EndDirect(t) PROVE StoreStep
  BY <1>16 DEF EndDirect, LeaveThread, storeVars
<1>17. ASSUME NEW t \in Http, NEW a \in Peer, DirectMessage(t, a)
       PROVE  StoreStep
  BY <1>17 DEF DirectMessage, storeVars
<1>18. CASE Take
  BY <1>18 DEF Take, storeVars
<1>19. ASSUME NEW a \in Name, Dispatch(a) PROVE StoreStep
  BY <1>19 DEF Dispatch, storeVars
<1>20. CASE Note
  BY <1>20 DEF Note, Fault, storeVars
<1>21. CASE EndDispatch
  BY <1>21 DEF EndDispatch, LeaveThread, Fault, storeVars
<1>22. CASE GiveUp
  BY <1>22 DEF GiveUp, storeVars
<1>23. CASE Crash
  BY <1>23 DEF Crash, Fault, storeVars
<1>24. CASE UNCHANGED vars
  BY <1>24 DEF vars, storeVars
<1> QED BY <1>1, <1>2, <1>3, <1>4, <1>5, <1>6, <1>7, <1>8, <1>9, <1>10, <1>11, <1>12, <1>13,
    <1>14, <1>15, <1>16, <1>17, <1>18, <1>19, <1>20, <1>21, <1>22, <1>23, <1>24
        DEF Next, Begin, Step, WorkerLoop, Name, Loops

\* Rows and lessons keep their types.
LEMMA RowType == ASSUME IInv, [Next]_vars PROVE RowsTyped'
<1> USE DEF RowsTyped
<1>0. row \in [Node -> Row] /\ lessons \in Seq(Node)
  BY DEF IInv, TypeOK
<1>1. ASSUME NEW t \in Thread, NEW a \in Name, NEW n \in Node, NEW board \in Board,
             CreateNode(t, a, n, board)
      PROVE  RowsTyped'
  BY <1>1, <1>0, RowsAreRows DEF CreateNode
<1>2. ASSUME NEW t \in Thread, WriteStatus(t) PROVE RowsTyped'
  BY <1>2, <1>0, RowsAreRows, CallFields DEF WriteStatus, SetStatus
<1>3. ASSUME NEW t \in Thread, WriteBlock(t) PROVE RowsTyped'
  BY <1>3, <1>0, RowsAreRows, CallFields DEF WriteBlock, SetBlock
<1>4. ASSUME NEW t \in Thread, WriteArchive(t) PROVE RowsTyped'
  BY <1>4, <1>0, RowsAreRows, CallFields DEF WriteArchive, Archive
<1>5. ASSUME NEW t \in Thread, NEW target \in Node, NEW owner \in Name,
             WritePromote(t, target, owner)
      PROVE  RowsTyped'
  BY <1>5, <1>0, RowsAreRows, CallFields DEF WritePromote, Promote
<1>6. CASE UNCHANGED storeVars
  BY <1>6, <1>0 DEF storeVars
<1> QED BY <1>1, <1>2, <1>3, <1>4, <1>5, <1>6, StoreSteps DEF StoreStep

\* The values that calls take on.
LEMMA CallValues ==
    /\ Idle \in Call
    /\ \A d \in SUBSET Name : [Idle EXCEPT !.op = "emit", !.dests = d] \in Call
    /\ \A op \in Op, n \in Node, arg \in {""} \cup Status \cup Board, m \in Node \cup {0}, r \in Row :
         [op |-> op, on |-> n, arg |-> arg, other |-> m, dests |-> {}, seen |-> r] \in Call
    /\ \A c \in Call, r \in Row :
         [c EXCEPT !.op = "status"] \in Call /\ [c EXCEPT !.op = "block", !.seen = r] \in Call
    /\ Idle.seen \in Row /\ Idle.op = "none" /\ Idle.dests = {}
<1>1. NewRow("none") \in Row
  BY DEF NewRow, Row, Status
<1>2. Idle \in Call /\ Idle.seen \in Row /\ Idle.op = "none" /\ Idle.dests = {}
  BY <1>1 DEF Idle, Call, Op
<1>3. \A d \in SUBSET Name : [Idle EXCEPT !.op = "emit", !.dests = d] \in Call
  BY <1>1 DEF Idle, Call, Op
<1>4. \A op \in Op, n \in Node, arg \in {""} \cup Status \cup Board, m \in Node \cup {0},
    r \in Row :
        [op |-> op, on |-> n, arg |-> arg, other |-> m, dests |-> {}, seen |-> r] \in Call
  BY DEF Call
<1>5. \A c \in Call, r \in Row :
        [c EXCEPT !.op = "status"] \in Call /\ [c EXCEPT !.op = "block", !.seen = r] \in Call
  BY DEF Call, Op
<1> QED BY <1>2, <1>3, <1>4, <1>5

\* What the parts of an action make of a thread's call.
LEMMA StartCall ==
    ASSUME IInv, NEW t \in Thread, NEW a \in Name, NEW op \in Op, NEW n \in Node,
           NEW arg \in {""} \cup Status \cup Board, NEW m \in Node \cup {0},
           Start(t, a, op, n, arg, m)
    PROVE  /\ who' \in [Thread -> Name \cup {"nobody"}] /\ call' \in [Thread -> Call]
           /\ call'[t].op = op /\ call'[t].on = n /\ call'[t].arg = arg /\ call'[t].other = m
           /\ op # "read" => call'[t].seen = row[n]
           /\ \A u \in Thread \ {t} : call'[u] = call[u] /\ who'[u] = who[u]
           /\ call[t].op = "none" /\ call'[t].dests = {}
<1>1. /\ who \in [Thread -> Name \cup {"nobody"}] /\ call \in [Thread -> Call]
      /\ row[n] \in Row
  BY DEF IInv, TypeOK
<1>2. PICK r \in Row :
        /\ call' = [call EXCEPT ![t] = [op |-> op, on |-> n, arg |-> arg, other |-> m,
                                        dests |-> {}, seen |-> r]]
        /\ op # "read" => r = row[n]
  BY <1>1, CallValues DEF Start
<1>3. [op |-> op, on |-> n, arg |-> arg, other |-> m, dests |-> {}, seen |-> r] \in Call
  BY CallValues
<1>4. who' = [who EXCEPT ![t] = a] /\ call[t].op = "none"
  BY DEF Start, Ready
<1>5. call'[t] = [op |-> op, on |-> n, arg |-> arg, other |-> m, dests |-> {}, seen |-> r]
  BY <1>1, <1>2
<1>6. call' \in [Thread -> Call] /\ who' \in [Thread -> Name \cup {"nobody"}]
  BY <1>1, <1>2, <1>3, <1>4
<1> QED BY <1>1, <1>2, <1>4, <1>5, <1>6

\* A committed call is due to emit, and its thread stays with its caller.
LEMMA CommittedCall ==
    ASSUME IInv, NEW t \in Thread, NEW a \in Name \cup {"nobody"}, NEW d \in SUBSET Name,
    Committed(t, a, d)
    PROVE  /\ who' \in [Thread -> Name \cup {"nobody"}] /\ call' \in [Thread -> Call]
           /\ call'[t].op = "emit" /\ who'[t] = a
           /\ \A u \in Thread \ {t} : call'[u] = call[u] /\ who'[u] = who[u]
<1>1. who \in [Thread -> Name \cup {"nobody"}] /\ call \in [Thread -> Call]
  BY DEF IInv, TypeOK
<1> DEFINE c == [Idle EXCEPT !.op = "emit", !.dests = d \ {a}]
<1>2. c \in Call
  BY CallValues
<1>3. c.op = "emit"
  BY DEF Idle
<1>4. call' = [call EXCEPT ![t] = c] /\ who' = [who EXCEPT ![t] = a]
  BY DEF Committed
<1> QED BY <1>1, <1>2, <1>3, <1>4

\* A call that is over.
LEMMA OverCall ==
    ASSUME IInv, NEW t \in Thread, Over(t)
    PROVE  /\ who' \in [Thread -> Name \cup {"nobody"}] /\ call' \in [Thread -> Call]
           /\ call'[t].op = "none"
           /\ InTurn(t) => who'[t] = who[t]
           /\ \A u \in Thread \ {t} : call'[u] = call[u] /\ who'[u] = who[u]
<1>1. who \in [Thread -> Name \cup {"nobody"}] /\ call \in [Thread -> Call]
  BY DEF IInv, TypeOK
<1>2. call' = [call EXCEPT ![t] = Idle]
  BY DEF Over
<1>3. Idle \in Call /\ Idle.op = "none"
  BY CallValues
<1> QED BY <1>1, <1>2, <1>3 DEF Over

\* Calls keep their type.
LEMMA CallType == ASSUME IInv, [Next]_vars PROVE CallsTyped'
<1> USE DEF CallsTyped
<1>0. who \in [Thread -> Name \cup {"nobody"}] /\ call \in [Thread -> Call]
  BY DEF IInv, TypeOK
<1>1. ASSUME NEW t \in Thread, NEW a \in Name, NEW n \in Node, NEW board \in Board,
             CreateNode(t, a, n, board)
      PROVE  CallsTyped'
  <2>1. CASE UNCHANGED threadVars
    BY <2>1, <1>0 DEF threadVars
  <2>2. CASE \E owner \in Name : \E d \in SUBSET Name : Committed(t, a, d)
    BY <2>2, CommittedCall
  <2> QED BY <1>1, <2>1, <2>2 DEF CreateNode, Name, Loops
<1>2. ASSUME NEW t \in Thread, NEW a \in Name, NEW n \in Node, NEW s \in Status,
             ReadForStatus(t, a, n, s)
      PROVE  CallsTyped'
  <2>2. PICK op \in {"check", "status"} : Start(t, a, op, n, s, 0)
    BY <1>2 DEF ReadForStatus
  <2>3. op \in Op
    BY DEF Op
  <2> QED BY <2>2, <2>3, StartCall
<1>3. ASSUME NEW t \in Thread, NEW a \in Name, NEW n \in Node, ReadForArchive(t, a, n)
      PROVE  CallsTyped'
  BY <1>3, StartCall DEF ReadForArchive, Op
<1>4. ASSUME NEW t \in Thread, NEW n \in Node, NEW b \in Node, ReadForBlock(t, n, b)
      PROVE  CallsTyped'
  BY <1>4, StartCall DEF ReadForBlock, Op, Name, Loops
<1>5. ASSUME NEW t \in Thread, NEW n \in Node, NEW board \in Board, ReadForPromote(t, n, board)
      PROVE  CallsTyped'
  BY <1>5, StartCall DEF ReadForPromote, Op, Name, Loops
<1>6. ASSUME NEW t \in Thread, NEW a \in Name, NEW n \in Node, RequestDirection(t, a, n)
      PROVE  CallsTyped'
  BY <1>6, <1>0 DEF RequestDirection, Put, threadVars
<1>7. ASSUME NEW t \in Thread, CheckBlockers(t) PROVE CallsTyped'
  <2>1. CASE Over(t)
    BY <2>1, OverCall
  <2>2. CASE call' = [call EXCEPT ![t].op = "status"] /\ UNCHANGED who
    <3>1. [call[t] EXCEPT !.op = "status"] \in Call
      BY <1>0, CallValues, RowsAreRows, CallFields
    <3> QED BY <2>2, <1>0, <3>1
  <2> QED BY <1>7, <2>1, <2>2 DEF CheckBlockers
<1>8. ASSUME NEW t \in Thread, WriteStatus(t) PROVE CallsTyped'
  <2>1. PICK d \in SUBSET Name : Committed(t, who[t], d)
    BY <1>8 DEF WriteStatus, Name, Loops
  <2> QED BY <1>0, <2>1, CommittedCall
<1>9. ASSUME NEW t \in Thread, ReadBlocks(t) PROVE CallsTyped'
  <2>1. row[call[t].on] \in Row
    BY <1>9, CallFields DEF ReadBlocks, IInv, TypeOK
  <2>2. [call[t] EXCEPT !.op = "block", !.seen = row[call[t].on]] \in Call
    BY <1>0, <2>1, CallValues
  <2> QED BY <1>9, <1>0, <2>2 DEF ReadBlocks
<1>10. ASSUME NEW t \in Thread, WriteBlock(t) PROVE CallsTyped'
  <2>1. PICK d \in SUBSET Name : Committed(t, who[t], d)
    BY <1>10 DEF WriteBlock, Name, Loops
  <2> QED BY <1>0, <2>1, CommittedCall
<1>11. ASSUME NEW t \in Thread, WriteArchive(t) PROVE CallsTyped'
  <2>1. PICK d \in SUBSET Name : Committed(t, who[t], d)
    BY <1>11 DEF WriteArchive, Name, Loops
  <2> QED BY <1>0, <2>1, CommittedCall
<1>12. ASSUME NEW t \in Thread, NEW target \in Node, NEW owner \in Name,
              WritePromote(t, target, owner)
       PROVE  CallsTyped'
  <2>1. PICK d \in SUBSET Name : Committed(t, who[t], d)
    BY <1>12 DEF WritePromote, Name, Loops
  <2> QED BY <1>0, <2>1, CommittedCall
<1>13. ASSUME NEW t \in Thread, Refuse(t) PROVE CallsTyped'
  BY <1>13, OverCall DEF Refuse
<1>14. ASSUME NEW t \in Thread, Emit(t) PROVE CallsTyped'
  BY <1>14, OverCall DEF Emit
<1>15. ASSUME NEW t \in Thread, EmitNothing(t) PROVE CallsTyped'
  BY <1>15, OverCall DEF EmitNothing
<1>16. ASSUME NEW t \in Thread, EndDirect(t) PROVE CallsTyped'
  BY <1>16, <1>0 DEF EndDirect, LeaveThread
<1>17. ASSUME NEW t \in Http, NEW a \in Peer, DirectMessage(t, a)
       PROVE  CallsTyped'
  BY <1>17, <1>0 DEF DirectMessage, Name, Loops, Thread
<1>18. CASE Take
  BY <1>18, <1>0 DEF Take, threadVars
<1>19. ASSUME NEW a \in Name, Dispatch(a) PROVE CallsTyped'
  BY <1>19, <1>0 DEF Dispatch, Name, Loops, Thread
<1>20. CASE Note
  BY <1>20, <1>0 DEF Note, Fault, threadVars
<1>21. CASE EndDispatch
  BY <1>21, <1>0 DEF EndDispatch, LeaveThread, Thread
<1>22. CASE GiveUp
  BY <1>22, <1>0 DEF GiveUp, threadVars
<1>23. CASE Crash
  BY <1>23, CallValues DEF Crash
<1>24. CASE UNCHANGED vars
  BY <1>24, <1>0 DEF vars, threadVars
<1> QED BY <1>1, <1>2, <1>3, <1>4, <1>5, <1>6, <1>7, <1>8, <1>9, <1>10, <1>11, <1>12, <1>13,
    <1>14, <1>15, <1>16, <1>17, <1>18, <1>19, <1>20, <1>21, <1>22, <1>23, <1>24
        DEF Next, Begin, Step, WorkerLoop, Name, Loops

\* What led to a turn keeps its type.
LEMMA HistoryType == ASSUME IInv, [Next]_vars PROVE HistoryTyped'
<1> USE DEF HistoryTyped
<1>0. cause \in [Thread -> Nat] /\ direct \in [Thread -> BOOLEAN]
  BY DEF IInv, TypeOK
<1>1. ASSUME NEW t \in Thread, NEW a \in Name, NEW n \in Node, NEW board \in Board,
             CreateNode(t, a, n, board)
      PROVE  HistoryTyped'
  <2>1. UNCHANGED <<cause, direct>>
    BY <1>1 DEF CreateNode, Committed, threadVars
  <2> QED BY <1>0, <2>1
<1>2. ASSUME NEW t \in Thread, NEW a \in Name, NEW n \in Node, NEW s \in Status,
             ReadForStatus(t, a, n, s)
      PROVE  HistoryTyped'
  BY <1>2, <1>0 DEF ReadForStatus, Start, threadVars
<1>3. ASSUME NEW t \in Thread, NEW a \in Name, NEW n \in Node, ReadForArchive(t, a, n)
      PROVE  HistoryTyped'
  BY <1>3, <1>0 DEF ReadForArchive, Start, threadVars
<1>4. ASSUME NEW t \in Thread, NEW n \in Node, NEW b \in Node, ReadForBlock(t, n, b)
      PROVE  HistoryTyped'
  BY <1>4, <1>0 DEF ReadForBlock, Start, threadVars
<1>5. ASSUME NEW t \in Thread, NEW n \in Node, NEW board \in Board, ReadForPromote(t, n, board)
      PROVE  HistoryTyped'
  BY <1>5, <1>0 DEF ReadForPromote, Start, threadVars
<1>6. ASSUME NEW t \in Thread, NEW a \in Name, NEW n \in Node, RequestDirection(t, a, n)
      PROVE  HistoryTyped'
  BY <1>6, <1>0 DEF RequestDirection, Put, threadVars
<1>7. ASSUME NEW t \in Thread, CheckBlockers(t) PROVE HistoryTyped'
  BY <1>7, <1>0 DEF CheckBlockers, Over, threadVars
<1>8. ASSUME NEW t \in Thread, WriteStatus(t) PROVE HistoryTyped'
  BY <1>8, <1>0 DEF WriteStatus, SetStatus, Committed, threadVars
<1>9. ASSUME NEW t \in Thread, ReadBlocks(t) PROVE HistoryTyped'
  BY <1>9, <1>0 DEF ReadBlocks, threadVars
<1>10. ASSUME NEW t \in Thread, WriteBlock(t) PROVE HistoryTyped'
  BY <1>10, <1>0 DEF WriteBlock, SetBlock, Committed, threadVars
<1>11. ASSUME NEW t \in Thread, WriteArchive(t) PROVE HistoryTyped'
  BY <1>11, <1>0 DEF WriteArchive, Archive, Committed, threadVars
<1>12. ASSUME NEW t \in Thread, NEW target \in Node, NEW owner \in Name,
              WritePromote(t, target, owner)
       PROVE  HistoryTyped'
  BY <1>12, <1>0 DEF WritePromote, Promote, Committed, threadVars
<1>13. ASSUME NEW t \in Thread, Refuse(t) PROVE HistoryTyped'
  BY <1>13, <1>0 DEF Refuse, Over, threadVars
<1>14. ASSUME NEW t \in Thread, Emit(t) PROVE HistoryTyped'
  BY <1>14, <1>0 DEF Emit, Put, Over, Fault, threadVars
<1>15. ASSUME NEW t \in Thread, EmitNothing(t) PROVE HistoryTyped'
  BY <1>15, <1>0 DEF EmitNothing, Over, Fault, threadVars
<1>16. ASSUME NEW t \in Thread, EndDirect(t) PROVE HistoryTyped'
  BY <1>16, <1>0 DEF EndDirect, LeaveThread, threadVars
<1>17. ASSUME NEW t \in Http, NEW a \in Peer, DirectMessage(t, a)
       PROVE  HistoryTyped'
  <2>1. Worker \in Thread
    BY DEF Thread
  <2> QED BY <1>17, <1>0, <2>1 DEF DirectMessage
<1>18. CASE Take
  BY <1>18, <1>0 DEF Take, threadVars
<1>19. ASSUME NEW a \in Name, Dispatch(a) PROVE HistoryTyped'
  <2>1. hand \in 1 .. Len(log) /\ log \in Seq(Event)
    BY <1>19 DEF Dispatch, IInv, TypeOK
  <2>2. log[hand] \in Event
    BY <2>1
  <2>3. log[hand].rank + 1 \in Nat /\ log[hand].direct \in BOOLEAN
    BY <2>2 DEF Event
  <2> QED BY <1>19, <1>0, <2>3 DEF Dispatch
<1>20. CASE Note
  BY <1>20, <1>0 DEF Note, Fault, threadVars
<1>21. CASE EndDispatch
  BY <1>21, <1>0 DEF EndDispatch, LeaveThread, Fault, threadVars
<1>22. CASE GiveUp
  BY <1>22, <1>0 DEF GiveUp, threadVars
<1>23. CASE Crash
  BY <1>23, <1>0 DEF Crash, Fault, threadVars
<1>24. CASE UNCHANGED vars
  BY <1>24, <1>0 DEF vars, threadVars
<1> QED BY <1>1, <1>2, <1>3, <1>4, <1>5, <1>6, <1>7, <1>8, <1>9, <1>10, <1>11, <1>12, <1>13,
    <1>14, <1>15, <1>16, <1>17, <1>18, <1>19, <1>20, <1>21, <1>22, <1>23, <1>24
        DEF Next, Begin, Step, WorkerLoop, Name, Loops

\* While the worker runs a turn, or makes a call, it has an event in its hand.
LEMMA WorkerHasEvent ==
    ASSUME IInv, who[Worker] # "nobody" \/ call[Worker].op # "none" PROVE hand # 0
<1>1. Worker \in Thread
  BY DEF Thread
<1> QED BY <1>1 DEF IInv, ChainInv, CallersAreKnown, TurnIsOfHand

\* An event that is put is one of the log and of the bus.
LEMMA PutEvent ==
    ASSUME IInv, NEW t \in Thread, NEW dests \in SUBSET Name, NEW mark \in {"null", "unlogged"},
           Put(t, dests, mark), t = Worker => hand # 0
    PROVE  /\ EventsTyped'
           /\ log' = Append(log, [dests |-> dests, depth |-> Depth(t), rank |-> cause[t],
                                  direct |-> direct[t], mark |-> mark])
           /\ Depth(t) \in Nat /\ Len(log') = Len(log) + 1
<1>0. EventsTyped /\ HistoryTyped
  BY DEF IInv, TypeOK, EventsTyped, HistoryTyped
<1> DEFINE e == [dests |-> dests, depth |-> Depth(t), rank |-> cause[t],
                 direct |-> direct[t], mark |-> mark]
<1>1. Depth(t) \in Nat
  <2>1. CASE t = Worker
    <3>1. hand \in 1 .. Len(log) /\ log \in Seq(Event)
      BY <2>1, <1>0 DEF EventsTyped
    <3>2. log[hand] \in Event
      BY <3>1
    <3>3. log[hand].depth \in Nat
      BY <3>2 DEF Event
    <3> QED BY <2>1, <3>3 DEF Depth
  <2>2. CASE t # Worker
    BY <2>2 DEF Depth
  <2> QED BY <2>1, <2>2
<1>2. e \in Event
  BY <1>0, <1>1 DEF Event, HistoryTyped
<1>3. log' = Append(log, e)
  BY DEF Put
<1> HIDE DEF e
<1>4. log' \in Seq(Event) /\ Len(log') = Len(log) + 1
  BY <1>0, <1>2, <1>3 DEF EventsTyped
<1>5. EventsTyped'
  <2>1. bus' = bus \cup {Len(log) + 1} /\ UNCHANGED <<hand, lost>> /\ Len(log) \in Nat
    BY <1>0 DEF Put, workerVars, EventsTyped
  <2>2. 1 .. Len(log) \subseteq 1 .. Len(log') /\ Len(log) + 1 \in 1 .. Len(log')
    BY <1>4, <2>1
  <2>3. 0 .. Len(log) \subseteq 0 .. Len(log')
    BY <1>4, <2>1
  <2> QED BY <1>0, <1>4, <2>1, <2>2, <2>3 DEF EventsTyped
<1> QED BY <1>1, <1>3, <1>4, <1>5 DEF e

\* The log, and what is made of its events, keep their types.
LEMMA EventsType == ASSUME IInv, [Next]_vars PROVE EventsTyped'
<1> USE DEF EventsTyped
<1>0. EventsTyped
  BY DEF IInv, TypeOK
<1>1. ASSUME NEW t \in Thread, NEW a \in Name, NEW n \in Node, NEW board \in Board,
             CreateNode(t, a, n, board)
      PROVE  EventsTyped'
  BY <1>1, <1>0 DEF CreateNode, Committed, workerVars
<1>2. ASSUME NEW t \in Thread, NEW a \in Name, NEW n \in Node, NEW s \in Status,
             ReadForStatus(t, a, n, s)
      PROVE  EventsTyped'
  BY <1>2, <1>0 DEF ReadForStatus, Start, workerVars
<1>3. ASSUME NEW t \in Thread, NEW a \in Name, NEW n \in Node, ReadForArchive(t, a, n)
      PROVE  EventsTyped'
  BY <1>3, <1>0 DEF ReadForArchive, Start, workerVars
<1>4. ASSUME NEW t \in Thread, NEW n \in Node, NEW b \in Node, ReadForBlock(t, n, b)
      PROVE  EventsTyped'
  BY <1>4, <1>0 DEF ReadForBlock, Start, workerVars
<1>5. ASSUME NEW t \in Thread, NEW n \in Node, NEW board \in Board, ReadForPromote(t, n, board)
      PROVE  EventsTyped'
  BY <1>5, <1>0 DEF ReadForPromote, Start, workerVars
<1>6. ASSUME NEW t \in Thread, NEW a \in Name, NEW n \in Node, RequestDirection(t, a, n)
      PROVE  EventsTyped'
  <2>1. Put(t, {"aetheria"}, "null") /\ {"aetheria"} \in SUBSET Name
    BY <1>6 DEF RequestDirection, Name, Loops
  <2>2. t = Worker => hand # 0
    BY <1>6, WorkerHasEvent, ThreadAssumption DEF RequestDirection, Ready, Free, InTurn
  <2> QED BY <2>1, <2>2, PutEvent
<1>7. ASSUME NEW t \in Thread, CheckBlockers(t) PROVE EventsTyped'
  BY <1>7, <1>0 DEF CheckBlockers, Over, workerVars
<1>8. ASSUME NEW t \in Thread, WriteStatus(t) PROVE EventsTyped'
  BY <1>8, <1>0 DEF WriteStatus, SetStatus, Committed, workerVars
<1>9. ASSUME NEW t \in Thread, ReadBlocks(t) PROVE EventsTyped'
  BY <1>9, <1>0 DEF ReadBlocks, workerVars
<1>10. ASSUME NEW t \in Thread, WriteBlock(t) PROVE EventsTyped'
  BY <1>10, <1>0 DEF WriteBlock, SetBlock, Committed, workerVars
<1>11. ASSUME NEW t \in Thread, WriteArchive(t) PROVE EventsTyped'
  BY <1>11, <1>0 DEF WriteArchive, Archive, Committed, workerVars
<1>12. ASSUME NEW t \in Thread, NEW target \in Node, NEW owner \in Name,
              WritePromote(t, target, owner)
       PROVE  EventsTyped'
  BY <1>12, <1>0 DEF WritePromote, Promote, Committed, workerVars
<1>13. ASSUME NEW t \in Thread, Refuse(t) PROVE EventsTyped'
  BY <1>13, <1>0 DEF Refuse, Over, workerVars
<1>14. ASSUME NEW t \in Thread, Emit(t) PROVE EventsTyped'
  <2>1. PICK mark \in {"null", "unlogged"} : Put(t, call[t].dests, mark)
    BY <1>14 DEF Emit
  <2>2. call[t].dests \in SUBSET Name
    BY CallFields
  <2>3. t = Worker => hand # 0
    BY <1>14, WorkerHasEvent DEF Emit
  <2> QED BY <2>1, <2>2, <2>3, PutEvent
<1>15. ASSUME NEW t \in Thread, EmitNothing(t) PROVE EventsTyped'
  BY <1>15, <1>0 DEF EmitNothing, Over, Fault, workerVars
<1>16. ASSUME NEW t \in Thread, EndDirect(t) PROVE EventsTyped'
  BY <1>16, <1>0 DEF EndDirect, LeaveThread, workerVars
<1>17. ASSUME NEW t \in Http, NEW a \in Peer, DirectMessage(t, a)
       PROVE  EventsTyped'
  BY <1>17, <1>0 DEF DirectMessage, workerVars
<1>18. CASE Take
  <2>1. hand' \in bus
    BY <1>18 DEF Take
  <2> QED BY <1>18, <1>0, <2>1 DEF Take
<1>19. ASSUME NEW a \in Name, Dispatch(a) PROVE EventsTyped'
  BY <1>19, <1>0 DEF Dispatch, workerVars
<1>20. CASE Note
  <2>1. hand \in 1 .. Len(log) /\ log[hand] \in Event
    BY <1>20, <1>0 DEF Note
  <2>2. \A m \in {"unlogged", "nobody", "dropped", "received", "failed"} :
          [log[hand] EXCEPT !.mark = m] \in Event
    BY <2>1 DEF Event
  <2> DEFINE m == IF log[hand].mark = "unlogged" THEN log[hand].mark ELSE outcome
  <2>3. m \in {"unlogged", "nobody", "dropped", "received", "failed"}
    BY DEF IInv, TypeOK
  <2>4. CASE log' = [log EXCEPT ![hand].mark = m] /\ UNCHANGED lost
    <3>1. log' = [log EXCEPT ![hand] = [log[hand] EXCEPT !.mark = m]]
      BY <2>4
    <3> HIDE DEF m
    <3>2. [log[hand] EXCEPT !.mark = m] \in Event
      BY <2>2, <2>3
    <3>3. log' \in Seq(Event) /\ Len(log') = Len(log)
      BY <1>0, <2>1, <3>1, <3>2
    <3> QED BY <1>20, <1>0, <2>4, <3>3 DEF Note
  <2>5. CASE UNCHANGED log /\ lost' = lost \cup {hand}
    BY <1>20, <1>0, <2>1, <2>5 DEF Note
  <2> HIDE DEF m
  <2> QED BY <1>20, <2>4, <2>5 DEF Note, m
<1>21. CASE EndDispatch
  BY <1>21, <1>0 DEF EndDispatch, LeaveThread, Fault, workerVars
<1>22. CASE GiveUp
  BY <1>22, <1>0 DEF GiveUp, workerVars
<1>23. CASE Crash
  BY <1>23, <1>0 DEF Crash
<1>24. CASE UNCHANGED vars
  BY <1>24, <1>0 DEF vars, workerVars
<1> QED BY <1>1, <1>2, <1>3, <1>4, <1>5, <1>6, <1>7, <1>8, <1>9, <1>10, <1>11, <1>12, <1>13,
    <1>14, <1>15, <1>16, <1>17, <1>18, <1>19, <1>20, <1>21, <1>22, <1>23, <1>24
        DEF Next, Begin, Step, WorkerLoop, Name, Loops

\* The worker's state and the faults keep their types.
LEMMA WorkerType == ASSUME IInv, [Next]_vars PROVE WorkerTyped'
<1> USE BoundAssumption DEF WorkerTyped
<1>0. WorkerTyped
  BY DEF IInv, TypeOK
<1>1. ASSUME NEW t \in Thread, NEW a \in Name, NEW n \in Node, NEW board \in Board,
             CreateNode(t, a, n, board)
      PROVE  WorkerTyped'
  BY <1>1, <1>0 DEF CreateNode, Committed, workerVars
<1>2. ASSUME NEW t \in Thread, NEW a \in Name, NEW n \in Node, NEW s \in Status,
             ReadForStatus(t, a, n, s)
      PROVE  WorkerTyped'
  BY <1>2, <1>0 DEF ReadForStatus, Start, workerVars
<1>3. ASSUME NEW t \in Thread, NEW a \in Name, NEW n \in Node, ReadForArchive(t, a, n)
      PROVE  WorkerTyped'
  BY <1>3, <1>0 DEF ReadForArchive, Start, workerVars
<1>4. ASSUME NEW t \in Thread, NEW n \in Node, NEW b \in Node, ReadForBlock(t, n, b)
      PROVE  WorkerTyped'
  BY <1>4, <1>0 DEF ReadForBlock, Start, workerVars
<1>5. ASSUME NEW t \in Thread, NEW n \in Node, NEW board \in Board, ReadForPromote(t, n, board)
      PROVE  WorkerTyped'
  BY <1>5, <1>0 DEF ReadForPromote, Start, workerVars
<1>6. ASSUME NEW t \in Thread, NEW a \in Name, NEW n \in Node, RequestDirection(t, a, n)
      PROVE  WorkerTyped'
  BY <1>6, <1>0 DEF RequestDirection, Put, workerVars
<1>7. ASSUME NEW t \in Thread, CheckBlockers(t) PROVE WorkerTyped'
  BY <1>7, <1>0 DEF CheckBlockers, Over, workerVars
<1>8. ASSUME NEW t \in Thread, WriteStatus(t) PROVE WorkerTyped'
  BY <1>8, <1>0 DEF WriteStatus, SetStatus, Committed, workerVars
<1>9. ASSUME NEW t \in Thread, ReadBlocks(t) PROVE WorkerTyped'
  BY <1>9, <1>0 DEF ReadBlocks, workerVars
<1>10. ASSUME NEW t \in Thread, WriteBlock(t) PROVE WorkerTyped'
  BY <1>10, <1>0 DEF WriteBlock, SetBlock, Committed, workerVars
<1>11. ASSUME NEW t \in Thread, WriteArchive(t) PROVE WorkerTyped'
  BY <1>11, <1>0 DEF WriteArchive, Archive, Committed, workerVars
<1>12. ASSUME NEW t \in Thread, NEW target \in Node, NEW owner \in Name,
              WritePromote(t, target, owner)
       PROVE  WorkerTyped'
  BY <1>12, <1>0 DEF WritePromote, Promote, Committed, workerVars
<1>13. ASSUME NEW t \in Thread, Refuse(t) PROVE WorkerTyped'
  BY <1>13, <1>0 DEF Refuse, Over, workerVars
<1>14. ASSUME NEW t \in Thread, Emit(t) PROVE WorkerTyped'
  BY <1>14, <1>0 DEF Emit, Put, Over, Fault, workerVars
<1>15. ASSUME NEW t \in Thread, EmitNothing(t) PROVE WorkerTyped'
  BY <1>15, <1>0 DEF EmitNothing, Over, Fault, workerVars
<1>16. ASSUME NEW t \in Thread, EndDirect(t) PROVE WorkerTyped'
  BY <1>16, <1>0 DEF EndDirect, Thread
<1>17. ASSUME NEW t \in Http, NEW a \in Peer, DirectMessage(t, a)
       PROVE  WorkerTyped'
  BY <1>17, <1>0 DEF DirectMessage, Thread
<1>18. CASE Take
  <2>1. hand' \in 1 .. Len(log) /\ log \in Seq(Event)
    BY <1>18 DEF Take, IInv, TypeOK
  <2>3. log[hand'] \in Event
    BY <2>1
  <2>2. log[hand'].dests \subseteq Name
    BY <2>3 DEF Event
  <2> QED BY <1>18, <1>0, <2>2 DEF Take
<1>19. ASSUME NEW a \in Name, Dispatch(a) PROVE WorkerTyped'
  BY <1>19, <1>0 DEF Dispatch, workerVars
<1>20. CASE Note
  BY <1>20, <1>0 DEF Note, Fault, workerVars
<1>21. CASE EndDispatch
  BY <1>21, <1>0 DEF EndDispatch, LeaveThread, Fault, workerVars
<1>22. CASE GiveUp
  BY <1>22, <1>0 DEF GiveUp, Thread
<1>23. CASE Crash
  BY <1>23, <1>0, BoundAssumption DEF Crash, Fault, Thread
<1>24. CASE UNCHANGED vars
  BY <1>24, <1>0 DEF vars, workerVars
<1> QED BY <1>1, <1>2, <1>3, <1>4, <1>5, <1>6, <1>7, <1>8, <1>9, <1>10, <1>11, <1>12, <1>13,
    <1>14, <1>15, <1>16, <1>17, <1>18, <1>19, <1>20, <1>21, <1>22, <1>23, <1>24
        DEF Next, Begin, Step, WorkerLoop, Name, Loops

\* Every step keeps the types.
LEMMA TypeStep == ASSUME IInv, [Next]_vars PROVE TypeOK'
BY RowType, CallType, HistoryType, EventsType, WorkerType
   DEF TypeOK, RowsTyped, CallsTyped, HistoryTyped, EventsTyped, WorkerTyped

\* What a step may write: no node goes, and what is written of one is a row that
\* is there, and if it is archived, has a lesson.
RowsKept ==
    /\ \A n \in Node : Exists(n) => Exists(n)'
    /\ \A n \in Node :
         row'[n] = row[n] \/ (Exists(n)' /\ (Archived(n)' => IsLearned(n, row[n])'))
LessonsKept == \A i \in 1 .. Len(lessons) : i \in 1 .. Len(lessons') /\ lessons'[i] = lessons[i]

\* Every step writes rows so, and keeps the lessons.
LEMMA RowsAreKept == ASSUME IInv, [Next]_vars PROVE RowsKept /\ LessonsKept
<1>0. row \in [Node -> Row] /\ lessons \in Seq(Node)
  BY DEF IInv, TypeOK
<1>1. ASSUME NEW t \in Thread, NEW a \in Name, NEW n \in Node, NEW board \in Board,
             CreateNode(t, a, n, board)
      PROVE  RowsKept /\ LessonsKept
  <2>1. row' = [row EXCEPT ![n] = NewRow(board)] /\ board # "none"
    BY <1>1 DEF CreateNode, Board
  <2>2. NewRow(board).board = board /\ NewRow(board).status = "Open"
    BY DEF NewRow
  <2>3. \A m \in Node : row'[m] = IF m = n THEN NewRow(board) ELSE row[m]
    BY <1>0, <2>1
  <2>4. UNCHANGED lessons
    BY <1>1 DEF CreateNode
  <2> HIDE DEF RowsKept
  <2>5. \A m \in Node : Exists(m) => Exists(m)'
    BY <2>1, <2>2, <2>3 DEF Exists
  <2>6. \A m \in Node : row'[m] = row[m] \/ (Exists(m)' /\ ~Archived(m)')
    BY <2>1, <2>2, <2>3 DEF Exists, Archived
  <2> QED BY <2>4, <2>5, <2>6 DEF RowsKept, LessonsKept
<1>2. ASSUME NEW t \in Thread, WriteStatus(t) PROVE RowsKept /\ LessonsKept
  <2> DEFINE n == call[t].on
             r == [Provenance(call[t].seen) EXCEPT !.status = call[t].arg]
  <2>1. row' = [row EXCEPT ![n] = r] /\ UNCHANGED lessons
    BY <1>2 DEF WriteStatus, SetStatus
  <2>2. r.board # "none" /\ r.status # "Archived"
    BY <1>2, CallFields DEF WriteStatus, Provenance, Row
  <2> HIDE DEF r
  <2>3. \A m \in Node : row'[m] = row[m] \/ row'[m] = r
    BY <1>0, <2>1
  <2> HIDE DEF RowsKept
  <2>4. \A m \in Node : Exists(m) => Exists(m)'
    BY <2>2, <2>3 DEF Exists
  <2>5. \A m \in Node : row'[m] = row[m] \/ (Exists(m)' /\ ~Archived(m)')
    BY <2>2, <2>3 DEF Exists, Archived
  <2> QED BY <2>1, <2>4, <2>5 DEF RowsKept, LessonsKept
<1>3. ASSUME NEW t \in Thread, WriteBlock(t) PROVE RowsKept /\ LessonsKept
  <2> DEFINE n == call[t].on
             r == [call[t].seen EXCEPT !.blocks = @ \cup {call[t].other}]
  <2>1. (row' = row \/ row' = [row EXCEPT ![n] = r]) /\ UNCHANGED lessons
    BY <1>3 DEF WriteBlock, SetBlock
  <2>2. /\ r.board # "none" /\ n \in Node
        /\ r.status = "Archived" => IsLearned(n, r)
    BY <1>3, CallFields DEF WriteBlock, Row, IsLearned
  <2> HIDE DEF r
  <2>3. \A m \in Node : row'[m] = row[m] \/ (m = n /\ row'[m] = r)
    BY <1>0, <2>1
  <2>4. \A m \in Node : Exists(m) => Exists(m)'
    BY <2>2, <2>3 DEF Exists
  <2>5. \A m \in Node : row'[m] = r /\ IsLearned(m, r) => IsLearned(m, row[m])'
    BY <2>1 DEF IsLearned
  <2> HIDE DEF RowsKept
  <2>6. \A m \in Node : r.status = "Archived" /\ m = n => IsLearned(m, r)
    BY <2>2
  <2>7. \A m \in Node : row'[m] = r => Exists(m)' /\ (Archived(m)' <=> r.status = "Archived")
    BY <2>2 DEF Exists, Archived
  <2> QED BY <2>1, <2>3, <2>4, <2>5, <2>6, <2>7 DEF RowsKept, LessonsKept
<1>4. ASSUME NEW t \in Thread, WriteArchive(t) PROVE RowsKept /\ LessonsKept
  <2> DEFINE n == call[t].on
             r == ArchivedRow(call[t].seen)
  <2>1. row' = [row EXCEPT ![n] = r] /\ lessons' = Append(lessons, n)
    BY <1>4 DEF WriteArchive, Archive
  <2>2. r.board # "none" /\ n \in Node /\ r.lesson = Len(lessons) + 1
    BY <1>4, CallFields DEF WriteArchive, ArchivedRow, Provenance, Row
  <2> HIDE DEF r
  <2>3. \A m \in Node : row'[m] = row[m] \/ (m = n /\ row'[m] = r)
    BY <1>0, <2>1
  <2>4. \A m \in Node : Exists(m) => Exists(m)'
    BY <2>2, <2>3 DEF Exists
  <2>5. lessons'[Len(lessons) + 1] = n /\ Len(lessons) + 1 \in 1 .. Len(lessons')
    BY <1>0, <2>1, <2>2
  <2>6. LessonsKept
    BY <1>0, <2>1, <2>2 DEF LessonsKept
  <2>7. \A m \in Node : row'[m] = row[m] \/ (Exists(m)' /\ IsLearned(m, row[m])')
    BY <2>2, <2>3, <2>5 DEF IsLearned, Exists
  <2> QED BY <2>4, <2>6, <2>7 DEF RowsKept
<1>5. ASSUME NEW t \in Thread, NEW target \in Node, NEW owner \in Name,
             WritePromote(t, target, owner)
      PROVE  RowsKept /\ LessonsKept
  <2> DEFINE n == call[t].on
             r == ArchivedRow(call[t].seen)
             q == NewRow(call[t].arg)
  <2>1. row' = [row EXCEPT ![n] = r, ![target] = q] /\ lessons' = Append(lessons, n)
    BY <1>5 DEF WritePromote, Promote
  <2>2. r.board # "none" /\ n \in Node /\ r.lesson = Len(lessons) + 1
    BY <1>5, CallFields DEF WritePromote, ArchivedRow, Provenance, Row
  <2>3. q.board # "none" /\ q.status = "Open"
    BY <1>5, CallFields DEF WritePromote, NewRow, Board
  <2> HIDE DEF r, q
  <2>4. \A m \in Node : row'[m] = row[m] \/ (m = n /\ row'[m] = r) \/ row'[m] = q
    BY <1>0, <2>1
  <2>5. \A m \in Node : Exists(m) => Exists(m)'
    BY <2>2, <2>3, <2>4 DEF Exists
  <2>6. lessons'[Len(lessons) + 1] = n /\ Len(lessons) + 1 \in 1 .. Len(lessons')
    BY <1>0, <2>1, <2>2
  <2>7. LessonsKept
    BY <1>0, <2>1, <2>2 DEF LessonsKept
  <2>8. \A m \in Node :
          row'[m] = row[m] \/ (Exists(m)' /\ (~Archived(m)' \/ IsLearned(m, row[m])'))
    BY <2>2, <2>3, <2>4, <2>6 DEF IsLearned, Exists, Archived
  <2> QED BY <2>5, <2>7, <2>8 DEF RowsKept
<1>6. CASE UNCHANGED storeVars
  BY <1>6 DEF storeVars, RowsKept, LessonsKept, Exists
<1> QED BY <1>1, <1>2, <1>3, <1>4, <1>5, <1>6, StoreSteps DEF StoreStep

\* CallHasNode and CallIsValid, of one thread.
CallOK(t) ==
    /\ call[t].op \notin {"none", "emit"} => call[t].on \in Node /\ Exists(call[t].on)
    /\ call[t].op \notin {"none", "emit", "read"} => call[t].seen.board # "none"
    /\ call[t].op \in {"check", "status"} =>
         call[t].seen.status # "Archived" /\ call[t].arg \in Status \ {"Archived"}
    /\ call[t].op = "promote" => call[t].arg \in Board
    /\ call[t].op \in {"read", "block"} => call[t].other \in Node
    /\ call[t].op = "block" /\ call[t].seen.status = "Archived" =>
         IsLearned(call[t].on, call[t].seen)

CallsAreOK == \A t \in Thread : CallOK(t)

\* A call that goes on as it is stays valid, and so does one that is over.
LEMMA CallStaysOK ==
    ASSUME IInv, [Next]_vars, NEW t \in Thread,
           call'[t] = call[t] \/ call'[t].op \in {"none", "emit"}
    PROVE  CallOK(t)'
<1>1. CASE call'[t].op \in {"none", "emit"}
  BY <1>1 DEF CallOK
<1>2. CASE call'[t] = call[t]
  <2>1. CallOK(t)
    BY DEF IInv, BoardInv, CallHasNode, CallIsValid, CallOK
  <2>2. RowsKept /\ LessonsKept
    BY RowsAreKept
  <2>3. IsLearned(call[t].on, call[t].seen) => IsLearned(call[t].on, call[t].seen)'
    BY <1>2, <2>2 DEF IsLearned, LessonsKept
  <2>4. call[t].op \notin {"none", "emit"} => Exists(call[t].on)'
    BY <1>2, <2>1, <2>2 DEF CallOK, RowsKept, Exists
  <2> QED BY <1>2, <2>1, <2>3, <2>4 DEF CallOK
<1> QED BY <1>1, <1>2

\* So does a call that has just begun.
LEMMA StartIsOK ==
    ASSUME IInv, [Next]_vars, NEW t \in Thread, NEW a \in Name, NEW op \in Op, NEW n \in Node,
           NEW arg \in {""} \cup Status \cup Board, NEW m \in Node \cup {0},
           Start(t, a, op, n, arg, m), Exists(n),
           op \in {"check", "status"} => ~Archived(n) /\ arg \in Status \ {"Archived"},
           op = "promote" => arg \in Board,
           op = "read" => m \in Node, op \notin {"none", "emit", "block"}
    PROVE  CallsAreOK'
<1>1. /\ call'[t].op = op /\ call'[t].on = n /\ call'[t].arg = arg /\ call'[t].other = m
      /\ op # "read" => call'[t].seen = row[n]
      /\ \A u \in Thread \ {t} : call'[u] = call[u]
  <2> DEFINE c == [op |-> op, on |-> n, arg |-> arg, other |-> m, dests |-> {},
                   seen |-> IF op = "read" THEN Idle.seen ELSE row[n]]
  <2>1. call' = [call EXCEPT ![t] = c]
    BY DEF Start
  <2>2. call \in [Thread -> Call]
    BY DEF IInv, TypeOK
  <2> HIDE DEF c
  <2>3. call'[t] = c /\ \A u \in Thread \ {t} : call'[u] = call[u]
    BY <2>1, <2>2
  <2>4. c.op = op /\ c.on = n /\ c.arg = arg /\ c.other = m /\ (op # "read" => c.seen = row[n])
    BY DEF c
  <2>5. call'[t].op = op /\ call'[t].on = n /\ call'[t].arg = arg /\ call'[t].other = m
    BY <2>3, <2>4
  <2>6. op # "read" => call'[t].seen = row[n]
    BY <2>3, <2>4
  <2> QED BY <2>3, <2>5, <2>6
<1>2. Exists(n)'
  BY DEF Start, storeVars, Exists
<1>3. CallOK(t)'
  BY <1>1, <1>2 DEF CallOK, Exists, Archived
<1> QED BY <1>1, <1>3, CallStaysOK DEF CallsAreOK

\* Every call stays valid.
LEMMA CallStep == ASSUME IInv, [Next]_vars PROVE CallsAreOK'
<1> USE DEF CallsAreOK
<1>0. who \in [Thread -> Name \cup {"nobody"}] /\ call \in [Thread -> Call]
  BY DEF IInv, TypeOK
<1>1. ASSUME NEW t \in Thread, NEW a \in Name, NEW n \in Node, NEW board \in Board,
             CreateNode(t, a, n, board)
      PROVE  CallsAreOK'
  <2>1. CASE UNCHANGED threadVars
    BY <2>1, CallStaysOK DEF threadVars
  <2>2. CASE \E owner \in Name : \E d \in SUBSET Name : Committed(t, a, d)
    BY <2>2, CommittedCall, CallStaysOK
  <2> QED BY <1>1, <2>1, <2>2 DEF CreateNode, Name, Loops
<1>2. ASSUME NEW t \in Thread, NEW a \in Name, NEW n \in Node, NEW s \in Status,
             ReadForStatus(t, a, n, s)
      PROVE  CallsAreOK'
  <2>1. /\ Exists(n) /\ ~Archived(n) /\ s \in Status \ {"Archived"}
    BY <1>2, <1>0, Transitions DEF ReadForStatus, Archived
  <2>2. PICK op \in {"check", "status"} : Start(t, a, op, n, s, 0)
    BY <1>2 DEF ReadForStatus
  <2>3. op \in Op
    BY DEF Op
  <2> QED BY <2>1, <2>2, <2>3, StartIsOK
<1>3. ASSUME NEW t \in Thread, NEW a \in Name, NEW n \in Node, ReadForArchive(t, a, n)
      PROVE  CallsAreOK'
  <2>1. Exists(n) /\ Start(t, a, "archive", n, "", 0) /\ "archive" \in Op
    BY <1>3 DEF ReadForArchive, Op
  <2> QED BY <2>1, StartIsOK
<1>4. ASSUME NEW t \in Thread, NEW n \in Node, NEW b \in Node, ReadForBlock(t, n, b)
      PROVE  CallsAreOK'
  <2>1. Exists(n) /\ Start(t, "aetheria", "read", n, "",
      b) /\ "read" \in Op /\ "aetheria" \in Name
    BY <1>4 DEF ReadForBlock, Op, Exists, Name, Loops
  <2> QED BY <2>1, StartIsOK
<1>5. ASSUME NEW t \in Thread, NEW n \in Node, NEW board \in Board, ReadForPromote(t, n, board)
      PROVE  CallsAreOK'
  <2>1. /\ Exists(n) /\ Start(t, "aetheria", "promote", n, board, 0)
        /\ "promote" \in Op /\ "aetheria" \in Name
    BY <1>5 DEF ReadForPromote, Op, Name, Loops
  <2> QED BY <2>1, StartIsOK
<1>6. ASSUME NEW t \in Thread, NEW a \in Name, NEW n \in Node, RequestDirection(t, a, n)
      PROVE  CallsAreOK'
  BY <1>6, CallStaysOK DEF RequestDirection, Put, threadVars
<1>7. ASSUME NEW t \in Thread, CheckBlockers(t) PROVE CallsAreOK'
  <2>1. CASE Over(t)
    BY <2>1, OverCall, CallStaysOK
  <2>2. CASE call' = [call EXCEPT ![t].op = "status"]
    <3>1. call' = [call EXCEPT ![t] = [call[t] EXCEPT !.op = "status"]]
      BY <2>2
    <3>2. call'[t] = [call[t] EXCEPT !.op = "status"] /\ \A u \in Thread \ {t} : call'[u] = call[u]
      BY <1>0, <3>1
    <3>3. /\ call'[t].op = "status" /\ call'[t].on = call[t].on
          /\ call'[t].seen = call[t].seen /\ call'[t].arg = call[t].arg
      BY <3>2, CallFields DEF Call
    <3>4. CallOK(t)'
      BY <1>7, <3>3, CallFields DEF CheckBlockers, storeVars, CallOK, Exists
    <3> QED BY <3>2, <3>4, CallStaysOK
  <2> QED BY <1>7, <2>1, <2>2 DEF CheckBlockers
<1>8. ASSUME NEW t \in Thread, WriteStatus(t) PROVE CallsAreOK'
  <2>1. PICK d \in SUBSET Name : Committed(t, who[t], d)
    BY <1>8 DEF WriteStatus, Name, Loops
  <2> QED BY <1>0, <2>1, CommittedCall, CallStaysOK
<1>9. ASSUME NEW t \in Thread, ReadBlocks(t) PROVE CallsAreOK'
  <2> DEFINE c == [call[t] EXCEPT !.op = "block", !.seen = row[call[t].on]]
  <2>1. call' = [call EXCEPT ![t] = c]
    BY <1>9 DEF ReadBlocks
  <2>2. c.op = "block" /\ c.on = call[t].on /\ c.seen = row[call[t].on] /\ c.other = call[t].other
    BY CallFields DEF Call
  <2> HIDE DEF c
  <2>3. call'[t] = c /\ \A u \in Thread \ {t} : call'[u] = call[u]
    BY <1>0, <2>1
  <2>4. c.on \in Node /\ Exists(c.on) /\ c.other \in Node
    BY <1>9, <2>2, CallFields DEF ReadBlocks
  <2>5. c.seen.status = "Archived" => IsLearned(c.on, c.seen)
    BY <2>2, <2>4 DEF IInv, BoardInv, LessonPerArchive, Archived, IsLearned
  <2>6. CallOK(t)'
    BY <1>9, <2>2, <2>3, <2>4, <2>5 DEF ReadBlocks, storeVars, CallOK, Exists, IsLearned
  <2> QED BY <2>3, <2>6, CallStaysOK
<1>10. ASSUME NEW t \in Thread, WriteBlock(t) PROVE CallsAreOK'
  <2>1. PICK d \in SUBSET Name : Committed(t, who[t], d)
    BY <1>10 DEF WriteBlock, Name, Loops
  <2> QED BY <1>0, <2>1, CommittedCall, CallStaysOK
<1>11. ASSUME NEW t \in Thread, WriteArchive(t) PROVE CallsAreOK'
  <2>1. PICK d \in SUBSET Name : Committed(t, who[t], d)
    BY <1>11 DEF WriteArchive, Name, Loops
  <2> QED BY <1>0, <2>1, CommittedCall, CallStaysOK
<1>12. ASSUME NEW t \in Thread, NEW target \in Node, NEW owner \in Name,
              WritePromote(t, target, owner)
       PROVE  CallsAreOK'
  <2>1. PICK d \in SUBSET Name : Committed(t, who[t], d)
    BY <1>12 DEF WritePromote, Name, Loops
  <2> QED BY <1>0, <2>1, CommittedCall, CallStaysOK
<1>13. ASSUME NEW t \in Thread, Refuse(t) PROVE CallsAreOK'
  BY <1>13, OverCall, CallStaysOK DEF Refuse
<1>14. ASSUME NEW t \in Thread, Emit(t) PROVE CallsAreOK'
  BY <1>14, OverCall, CallStaysOK DEF Emit
<1>15. ASSUME NEW t \in Thread, EmitNothing(t) PROVE CallsAreOK'
  BY <1>15, OverCall, CallStaysOK DEF EmitNothing
<1>16. ASSUME NEW t \in Thread, EndDirect(t) PROVE CallsAreOK'
  BY <1>16, CallStaysOK DEF EndDirect, LeaveThread, threadVars
<1>17. ASSUME NEW t \in Http, NEW a \in Peer, DirectMessage(t, a)
       PROVE  CallsAreOK'
  BY <1>17, CallStaysOK DEF DirectMessage, threadVars
<1>18. CASE Take
  BY <1>18, CallStaysOK DEF Take, threadVars
<1>19. ASSUME NEW a \in Name, Dispatch(a) PROVE CallsAreOK'
  BY <1>19, CallStaysOK DEF Dispatch, threadVars
<1>20. CASE Note
  BY <1>20, CallStaysOK DEF Note, Fault, threadVars
<1>21. CASE EndDispatch
  BY <1>21, CallStaysOK DEF EndDispatch, LeaveThread, Fault, threadVars
<1>22. CASE GiveUp
  BY <1>22, CallStaysOK DEF GiveUp, threadVars
<1>23. CASE Crash
  <2>1. \A u \in Thread : call'[u].op = "none"
    BY <1>23, CallValues DEF Crash
  <2> QED BY <2>1, CallStaysOK
<1>24. CASE UNCHANGED vars
  BY <1>24, CallStaysOK DEF vars, threadVars
<1> QED BY <1>1, <1>2, <1>3, <1>4, <1>5, <1>6, <1>7, <1>8, <1>9, <1>10, <1>11, <1>12, <1>13,
    <1>14, <1>15, <1>16, <1>17, <1>18, <1>19, <1>20, <1>21, <1>22, <1>23, <1>24
        DEF Next, Begin, Step, WorkerLoop, Name, Loops

\* Nothing is lost of the boards' invariant.
LEMMA BoardStep == ASSUME IInv, [Next]_vars PROVE BoardInv'
<1>1. RowsKept /\ LessonsKept /\ row' \in [Node -> Row]
  BY RowsAreKept, RowType DEF RowsTyped
<1>2. NewIsOpen /\ LessonPerArchive
  BY DEF IInv, BoardInv
<1>3. LessonPerArchive'
  BY <1>1, <1>2 DEF LessonPerArchive, RowsKept, LessonsKept, Archived, IsLearned
<1>4. (CallHasNode /\ CallIsValid)'
  BY CallStep DEF CallsAreOK, CallOK, CallHasNode, CallIsValid
<1>5. NewIsOpen'
  BY <1>1, <1>2 DEF NewIsOpen, RowsKept, Exists, Archived
<1> QED BY <1>3, <1>4, <1>5 DEF BoardInv

\* Nobody is not a name.
LEMMA NobodyIsNoName == "nobody" \notin Name
BY PeerAssumption DEF Name, Loops

\* The worker's thread, where a call begins or ends, runs for whom it ran.
LEMMA WorkerRunsOn ==
    ASSUME IInv, NEW t \in Thread, NEW a \in Name,
           \/ Ready(t, a) /\ who' = [who EXCEPT ![t] = a]
           \/ Over(t)
           \/ who' = [who EXCEPT ![t] = who[t]]
    PROVE  who'[Worker] = who[Worker]
<1>1. who \in [Thread -> Name \cup {"nobody"}] /\ Worker \in Thread
  BY DEF IInv, TypeOK, Thread
<1>2. CASE Ready(t, a) /\ who' = [who EXCEPT ![t] = a]
  BY <1>1, <1>2, ThreadAssumption DEF Ready, Free, InTurn
<1>3. CASE Over(t)
  <2>1. CASE InTurn(t)
    BY <1>3, <2>1 DEF Over
  <2>2. CASE ~InTurn(t)
    <3>1. who' = [who EXCEPT ![t] = "nobody"] /\ (t = Worker => who[t] = "nobody")
      BY <1>3, <2>2 DEF Over, InTurn
    <3> QED BY <1>1, <3>1
  <2> QED BY <2>1, <2>2
<1>4. CASE who' = [who EXCEPT ![t] = who[t]]
  BY <1>1, <1>4
<1> QED BY <1>2, <1>3, <1>4

\* A step of one thread leaves the callers known, if its own is.
LEMMA OneCaller ==
    ASSUME IInv, NEW t \in Thread, who'[t] # "nobody" \/ call'[t].op = "none",
           \A u \in Thread \ {t} : call'[u] = call[u] /\ who'[u] = who[u]
    PROVE  CallersAreKnown'
<1>1. \A u \in Thread : call[u].op # "none" => who[u] # "nobody"
  BY DEF IInv, ChainInv, CallersAreKnown
<1>2. \A u \in Thread \ {t} : call'[u].op # "none" => who'[u] # "nobody"
  BY <1>1
<1> QED BY <1>2 DEF CallersAreKnown

\* What a thread's update of its fields leaves of the other threads'.
LEMMA OneThread ==
    ASSUME IInv, NEW t \in Thread, NEW a, NEW c,
           who' = [who EXCEPT ![t] = a], call' = [call EXCEPT ![t] = c]
    PROVE  /\ who'[t] = a /\ call'[t] = c
           /\ \A u \in Thread \ {t} : call'[u] = call[u] /\ who'[u] = who[u]
<1>1. who \in [Thread -> Name \cup {"nobody"}] /\ call \in [Thread -> Call]
  BY DEF IInv, TypeOK
<1> QED BY <1>1

\* Every call is made for somebody.
LEMMA CallersStayKnown == ASSUME IInv, [Next]_vars PROVE CallersAreKnown'
<1> USE DEF CallersAreKnown
<1>0. CallersAreKnown
  BY DEF IInv, ChainInv
<1>00. who \in [Thread -> Name \cup {"nobody"}] /\ call \in [Thread -> Call]
  BY DEF IInv, TypeOK
<1>1. ASSUME NEW t \in Thread, NEW a \in Name, NEW n \in Node, NEW board \in Board,
             CreateNode(t, a, n, board)
      PROVE  CallersAreKnown'
  <2>1. CASE UNCHANGED threadVars
    BY <2>1, <1>0 DEF threadVars
  <2>2. CASE \E owner \in Name : \E d \in SUBSET Name : Committed(t, a, d)
    BY <2>2, <1>0, CommittedCall, NobodyIsNoName
  <2> QED BY <1>1, <2>1, <2>2 DEF CreateNode, Name, Loops
<1>2. ASSUME NEW t \in Thread, NEW a \in Name, NEW n \in Node, NEW s \in Status,
             ReadForStatus(t, a, n, s)
      PROVE  CallersAreKnown'
  <2>1. PICK c : who' = [who EXCEPT ![t] = a] /\ call' = [call EXCEPT ![t] = c]
    BY <1>2 DEF ReadForStatus, Start
  <2>2. a # "nobody"
    BY NobodyIsNoName DEF Name, Loops
  <2> QED BY <2>1, <2>2, OneThread, OneCaller
<1>3. ASSUME NEW t \in Thread, NEW a \in Name, NEW n \in Node, ReadForArchive(t, a, n)
      PROVE  CallersAreKnown'
  <2>1. PICK c : who' = [who EXCEPT ![t] = a] /\ call' = [call EXCEPT ![t] = c]
    BY <1>3 DEF ReadForArchive, Start
  <2>2. a # "nobody"
    BY NobodyIsNoName DEF Name, Loops
  <2> QED BY <2>1, <2>2, OneThread, OneCaller
<1>4. ASSUME NEW t \in Thread, NEW n \in Node, NEW b \in Node, ReadForBlock(t, n, b)
      PROVE  CallersAreKnown'
  <2>1. PICK c : who' = [who EXCEPT ![t] = "aetheria"] /\ call' = [call EXCEPT ![t] = c]
    BY <1>4 DEF ReadForBlock, Start
  <2>2. "aetheria" # "nobody"
    BY NobodyIsNoName DEF Name, Loops
  <2> QED BY <2>1, <2>2, OneThread, OneCaller
<1>5. ASSUME NEW t \in Thread, NEW n \in Node, NEW board \in Board, ReadForPromote(t, n, board)
      PROVE  CallersAreKnown'
  <2>1. PICK c : who' = [who EXCEPT ![t] = "aetheria"] /\ call' = [call EXCEPT ![t] = c]
    BY <1>5 DEF ReadForPromote, Start
  <2>2. "aetheria" # "nobody"
    BY NobodyIsNoName DEF Name, Loops
  <2> QED BY <2>1, <2>2, OneThread, OneCaller
<1>6. ASSUME NEW t \in Thread, NEW a \in Name, NEW n \in Node, RequestDirection(t, a, n)
      PROVE  CallersAreKnown'
  BY <1>6, <1>0 DEF RequestDirection, Put, threadVars
<1>7. ASSUME NEW t \in Thread, CheckBlockers(t) PROVE CallersAreKnown'
  <2>1. CASE Over(t)
    BY <2>1, <1>0, OverCall
  <2>2. CASE call' = [call EXCEPT ![t].op = "status"] /\ UNCHANGED who
    <3>1. who[t] # "nobody" /\ \A u \in Thread \ {t} : call'[u] = call[u]
      BY <1>7, <2>2, <1>0, <1>00 DEF CheckBlockers
    <3> QED BY <2>2, <3>1, <1>0
  <2> QED BY <1>7, <2>1, <2>2 DEF CheckBlockers
<1>8. ASSUME NEW t \in Thread, WriteStatus(t) PROVE CallersAreKnown'
  <2>1. PICK d \in SUBSET Name : Committed(t, who[t], d)
    BY <1>8 DEF WriteStatus, Name, Loops
  <2>2. who[t] # "nobody"
    BY <1>8, <1>0 DEF WriteStatus
  <2>3. who[t] \in Name \cup {"nobody"}
    BY <1>00
  <2>4. who'[t] = who[t] /\ \A u \in Thread \ {t} : call'[u] = call[u] /\ who'[u] = who[u]
    BY <2>1, <2>3, CommittedCall
  <2> QED BY <2>2, <2>4, OneCaller
<1>9. ASSUME NEW t \in Thread, ReadBlocks(t) PROVE CallersAreKnown'
  <2>1. who[t] # "nobody" /\ UNCHANGED who
    BY <1>9, <1>0 DEF ReadBlocks
  <2>2. PICK c : call' = [call EXCEPT ![t] = c]
    BY <1>9 DEF ReadBlocks
  <2>3. who' = [who EXCEPT ![t] = who[t]]
    BY <1>00, <2>1
  <2> QED BY <2>1, <2>2, <2>3, OneThread, OneCaller
<1>10. ASSUME NEW t \in Thread, WriteBlock(t) PROVE CallersAreKnown'
  <2>1. PICK d \in SUBSET Name : Committed(t, who[t], d)
    BY <1>10 DEF WriteBlock, Name, Loops
  <2>2. who[t] # "nobody"
    BY <1>10, <1>0 DEF WriteBlock
  <2>3. who[t] \in Name \cup {"nobody"}
    BY <1>00
  <2>4. who'[t] = who[t] /\ \A u \in Thread \ {t} : call'[u] = call[u] /\ who'[u] = who[u]
    BY <2>1, <2>3, CommittedCall
  <2> QED BY <2>2, <2>4, OneCaller
<1>11. ASSUME NEW t \in Thread, WriteArchive(t) PROVE CallersAreKnown'
  <2>1. PICK d \in SUBSET Name : Committed(t, who[t], d)
    BY <1>11 DEF WriteArchive, Name, Loops
  <2>2. who[t] # "nobody"
    BY <1>11, <1>0 DEF WriteArchive
  <2>3. who[t] \in Name \cup {"nobody"}
    BY <1>00
  <2>4. who'[t] = who[t] /\ \A u \in Thread \ {t} : call'[u] = call[u] /\ who'[u] = who[u]
    BY <2>1, <2>3, CommittedCall
  <2> QED BY <2>2, <2>4, OneCaller
<1>12. ASSUME NEW t \in Thread, NEW target \in Node, NEW owner \in Name,
              WritePromote(t, target, owner)
       PROVE  CallersAreKnown'
  <2>1. PICK d \in SUBSET Name : Committed(t, who[t], d)
    BY <1>12 DEF WritePromote, Name, Loops
  <2>2. who[t] # "nobody"
    BY <1>12, <1>0 DEF WritePromote
  <2>3. who[t] \in Name \cup {"nobody"}
    BY <1>00
  <2>4. who'[t] = who[t] /\ \A u \in Thread \ {t} : call'[u] = call[u] /\ who'[u] = who[u]
    BY <2>1, <2>3, CommittedCall
  <2> QED BY <2>2, <2>4, OneCaller
<1>13. ASSUME NEW t \in Thread, Refuse(t) PROVE CallersAreKnown'
  BY <1>13, <1>0, OverCall DEF Refuse
<1>14. ASSUME NEW t \in Thread, Emit(t) PROVE CallersAreKnown'
  BY <1>14, <1>0, OverCall DEF Emit
<1>15. ASSUME NEW t \in Thread, EmitNothing(t) PROVE CallersAreKnown'
  BY <1>15, <1>0, OverCall DEF EmitNothing
<1>16. ASSUME NEW t \in Thread, EndDirect(t) PROVE CallersAreKnown'
  BY <1>16, <1>0, <1>00 DEF EndDirect, LeaveThread
<1>17. ASSUME NEW t \in Http, NEW a \in Peer, DirectMessage(t, a)
       PROVE  CallersAreKnown'
  BY <1>17, <1>0, <1>00, NobodyIsNoName DEF DirectMessage, Name, Loops
<1>18. CASE Take
  BY <1>18, <1>0 DEF Take, threadVars
<1>19. ASSUME NEW a \in Name, Dispatch(a) PROVE CallersAreKnown'
  <2>1. UNCHANGED who \/ who' = [who EXCEPT ![Worker] = a]
    BY <1>19 DEF Dispatch
  <2>2. \A u \in Thread : who'[u] = who[u] \/ who'[u] = a
    BY <1>00, <2>1
  <2> QED BY <1>19, <1>0, <2>2, NobodyIsNoName DEF Dispatch
<1>20. CASE Note
  BY <1>20, <1>0 DEF Note, Fault, threadVars
<1>21. CASE EndDispatch
  BY <1>21, <1>0, <1>00 DEF EndDispatch, LeaveThread
<1>22. CASE GiveUp
  BY <1>22, <1>0 DEF GiveUp, threadVars
<1>23. CASE Crash
  BY <1>23, CallValues DEF Crash
<1>24. CASE UNCHANGED vars
  BY <1>24, <1>0 DEF vars, threadVars
<1> QED BY <1>1, <1>2, <1>3, <1>4, <1>5, <1>6, <1>7, <1>8, <1>9, <1>10, <1>11, <1>12, <1>13,
    <1>14, <1>15, <1>16, <1>17, <1>18, <1>19, <1>20, <1>21, <1>22, <1>23, <1>24
        DEF Next, Begin, Step, WorkerLoop, Name, Loops

\* What does not touch the worker's turn, hand or the events of the log leaves
\* TurnIsOfHand alone.
LEMMA QuietTurn ==
    ASSUME IInv, who'[Worker] = who[Worker], cause'[Worker] = cause[Worker],
           direct'[Worker] = direct[Worker], UNCHANGED <<hand, left>>,
           log' = log \/ \E e : log' = Append(log, e)
    PROVE  TurnIsOfHand'
<1>1. hand \in 0 .. Len(log) /\ log \in Seq(Event) /\ TurnIsOfHand
  BY DEF IInv, TypeOK, ChainInv
<1>2. hand # 0 => log'[hand] = log[hand]
  BY <1>1
<1> QED BY <1>1, <1>2 DEF TurnIsOfHand

\* The worker's turn is of the event in its hand.
LEMMA TurnStaysOfHand == ASSUME IInv, [Next]_vars PROVE TurnIsOfHand'
<1>0. TurnIsOfHand
  BY DEF IInv, ChainInv
<1>a. \E a : a \in Name
  BY DEF Name
<1>b. /\ who \in [Thread -> Name \cup {"nobody"}] /\ Worker \in Thread
      /\ cause \in [Thread -> Nat] /\ direct \in [Thread -> BOOLEAN]
  BY DEF IInv, TypeOK, Thread
<1>1. ASSUME NEW t \in Thread, NEW a \in Name, NEW n \in Node, NEW board \in Board,
             CreateNode(t, a, n, board)
      PROVE  TurnIsOfHand'
  <2>1. who'[Worker] = who[Worker]
    BY <1>1, WorkerRunsOn DEF CreateNode, Committed, threadVars
  <2>2. UNCHANGED <<cause, direct, log, hand, left>>
    BY <1>1 DEF CreateNode, Committed, threadVars, workerVars
  <2> QED BY <2>1, <2>2, QuietTurn
<1>2. ASSUME NEW t \in Thread, NEW a \in Name, NEW n \in Node, NEW s \in Status,
             ReadForStatus(t, a, n, s)
      PROVE  TurnIsOfHand'
  <2>1. a \in Name /\ Ready(t, a) /\ who' = [who EXCEPT ![t] = a]
    BY <1>2 DEF ReadForStatus, Start, Name, Loops
  <2>2. who'[Worker] = who[Worker]
    BY <2>1, WorkerRunsOn
  <2>3. UNCHANGED <<cause, direct, log, hand, left>>
    BY <1>2 DEF ReadForStatus, Start, workerVars
  <2> QED BY <2>2, <2>3, QuietTurn
<1>3. ASSUME NEW t \in Thread, NEW a \in Name, NEW n \in Node, ReadForArchive(t, a, n)
      PROVE  TurnIsOfHand'
  <2>1. a \in Name /\ Ready(t, a) /\ who' = [who EXCEPT ![t] = a]
    BY <1>3 DEF ReadForArchive, Start, Name, Loops
  <2>2. who'[Worker] = who[Worker]
    BY <2>1, WorkerRunsOn
  <2>3. UNCHANGED <<cause, direct, log, hand, left>>
    BY <1>3 DEF ReadForArchive, Start, workerVars
  <2> QED BY <2>2, <2>3, QuietTurn
<1>4. ASSUME NEW t \in Thread, NEW n \in Node, NEW b \in Node, ReadForBlock(t, n, b)
      PROVE  TurnIsOfHand'
  <2>1. "aetheria" \in Name /\ Ready(t, "aetheria") /\ who' = [who EXCEPT ![t] = "aetheria"]
    BY <1>4 DEF ReadForBlock, Start, Name, Loops
  <2>2. who'[Worker] = who[Worker]
    BY <2>1, WorkerRunsOn
  <2>3. UNCHANGED <<cause, direct, log, hand, left>>
    BY <1>4 DEF ReadForBlock, Start, workerVars
  <2> QED BY <2>2, <2>3, QuietTurn
<1>5. ASSUME NEW t \in Thread, NEW n \in Node, NEW board \in Board, ReadForPromote(t, n, board)
      PROVE  TurnIsOfHand'
  <2>1. "aetheria" \in Name /\ Ready(t, "aetheria") /\ who' = [who EXCEPT ![t] = "aetheria"]
    BY <1>5 DEF ReadForPromote, Start, Name, Loops
  <2>2. who'[Worker] = who[Worker]
    BY <2>1, WorkerRunsOn
  <2>3. UNCHANGED <<cause, direct, log, hand, left>>
    BY <1>5 DEF ReadForPromote, Start, workerVars
  <2> QED BY <2>2, <2>3, QuietTurn
<1>6. ASSUME NEW t \in Thread, NEW a \in Name, NEW n \in Node, RequestDirection(t, a, n)
      PROVE  TurnIsOfHand'
  <2>1. UNCHANGED <<who, cause, direct, hand, left>> /\ \E e : log' = Append(log, e)
    BY <1>6 DEF RequestDirection, Put, threadVars, workerVars
  <2> QED BY <2>1, QuietTurn
<1>7. ASSUME NEW t \in Thread, CheckBlockers(t) PROVE TurnIsOfHand'
  <2>1. (Over(t) \/ UNCHANGED who) /\ UNCHANGED <<cause, direct, log, hand, left>>
    BY <1>7 DEF CheckBlockers, Over, workerVars
  <2>2. who'[Worker] = who[Worker]
    BY <2>1, <1>a, WorkerRunsOn
  <2> QED BY <2>1, <2>2, QuietTurn
<1>8. ASSUME NEW t \in Thread, WriteStatus(t) PROVE TurnIsOfHand'
  <2>1. who' = [who EXCEPT ![t] = who[t]] /\ UNCHANGED <<cause, direct, log, hand, left>>
    BY <1>8 DEF WriteStatus, Committed, workerVars
  <2>2. who'[Worker] = who[Worker]
    BY <2>1, <1>a, WorkerRunsOn
  <2> QED BY <2>1, <2>2, QuietTurn
<1>9. ASSUME NEW t \in Thread, ReadBlocks(t) PROVE TurnIsOfHand'
  <2>1. UNCHANGED <<who, cause, direct, log, hand, left>>
    BY <1>9 DEF ReadBlocks, workerVars
  <2> QED BY <2>1, QuietTurn
<1>10. ASSUME NEW t \in Thread, WriteBlock(t) PROVE TurnIsOfHand'
  <2>1. who' = [who EXCEPT ![t] = who[t]] /\ UNCHANGED <<cause, direct, log, hand, left>>
    BY <1>10 DEF WriteBlock, Committed, workerVars
  <2>2. who'[Worker] = who[Worker]
    BY <2>1, <1>a, WorkerRunsOn
  <2> QED BY <2>1, <2>2, QuietTurn
<1>11. ASSUME NEW t \in Thread, WriteArchive(t) PROVE TurnIsOfHand'
  <2>1. who' = [who EXCEPT ![t] = who[t]] /\ UNCHANGED <<cause, direct, log, hand, left>>
    BY <1>11 DEF WriteArchive, Committed, workerVars
  <2>2. who'[Worker] = who[Worker]
    BY <2>1, <1>a, WorkerRunsOn
  <2> QED BY <2>1, <2>2, QuietTurn
<1>12. ASSUME NEW t \in Thread, NEW target \in Node, NEW owner \in Name,
              WritePromote(t, target, owner)
       PROVE  TurnIsOfHand'
  <2>1. who' = [who EXCEPT ![t] = who[t]] /\ UNCHANGED <<cause, direct, log, hand, left>>
    BY <1>12 DEF WritePromote, Committed, workerVars
  <2>2. who'[Worker] = who[Worker]
    BY <2>1, <1>a, WorkerRunsOn
  <2> QED BY <2>1, <2>2, QuietTurn
<1>13. ASSUME NEW t \in Thread, Refuse(t) PROVE TurnIsOfHand'
  <2>1. Over(t) /\ UNCHANGED <<cause, direct, log, hand, left>>
    BY <1>13 DEF Refuse, Over, workerVars
  <2>2. who'[Worker] = who[Worker]
    BY <2>1, <1>a, WorkerRunsOn
  <2> QED BY <2>1, <2>2, QuietTurn
<1>14. ASSUME NEW t \in Thread, Emit(t) PROVE TurnIsOfHand'
  <2>1. Over(t) /\ UNCHANGED <<cause, direct, hand, left>> /\ \E e : log' = Append(log, e)
    BY <1>14 DEF Emit, Put, Over, workerVars
  <2>2. who'[Worker] = who[Worker]
    BY <2>1, <1>a, WorkerRunsOn
  <2> QED BY <2>1, <2>2, QuietTurn
<1>15. ASSUME NEW t \in Thread, EmitNothing(t) PROVE TurnIsOfHand'
  <2>1. Over(t) /\ UNCHANGED <<cause, direct, log, hand, left>>
    BY <1>15 DEF EmitNothing, Over, workerVars
  <2>2. who'[Worker] = who[Worker]
    BY <2>1, <1>a, WorkerRunsOn
  <2> QED BY <2>1, <2>2, QuietTurn
<1>16. ASSUME NEW t \in Thread, EndDirect(t) PROVE TurnIsOfHand'
  <2>1. who'[Worker] = who[Worker] /\ cause'[Worker] = cause[Worker] /\ direct'[Worker] = direct[Worker]
    BY <1>16, <1>b, ThreadAssumption DEF EndDirect, LeaveThread
  <2> QED BY <1>16, <2>1, QuietTurn DEF EndDirect
<1>17. ASSUME NEW t \in Http, NEW a \in Peer, DirectMessage(t, a)
       PROVE  TurnIsOfHand'
  <2>1. who'[Worker] = who[Worker] /\ cause'[Worker] = cause[Worker] /\ direct'[Worker] = direct[Worker]
    BY <1>17, <1>b, ThreadAssumption DEF DirectMessage, Free
  <2> QED BY <1>17, <2>1, QuietTurn DEF DirectMessage
<1>18. CASE Take
  <2>1. who[Worker] = "nobody" /\ UNCHANGED <<who, log>>
    BY <1>18, <1>0 DEF Take, TurnIsOfHand, threadVars
  <2>2. hand' \in 1 .. Len(log) /\ log \in Seq(Event)
    BY <1>18 DEF Take, IInv, TypeOK
  <2>3. log[hand'] \in Event
    BY <2>2
  <2>4. log[hand'].depth \in Nat
    BY <2>3 DEF Event
  <2>5. left' # {} => ~(log[hand'].depth >= MaxChainDepth)
    BY <1>18 DEF Take
  <2>6. left' # {} => log[hand'].depth < MaxChainDepth
    BY <2>4, <2>5, BoundAssumption
  <2> QED BY <2>1, <2>6 DEF TurnIsOfHand
<1>19. ASSUME NEW a \in Name, Dispatch(a) PROVE TurnIsOfHand'
  <2>1. /\ UNCHANGED <<log, hand>> /\ hand # 0 /\ left # {}
        /\ \/ who'[Worker] = "nobody"
           \/ cause'[Worker] = log[hand].rank + 1 /\ direct'[Worker] = log[hand].direct
    BY <1>19, <1>b DEF Dispatch
  <2> QED BY <1>0, <2>1 DEF TurnIsOfHand
<1>20. CASE Note
  BY <1>20 DEF Note, threadVars, TurnIsOfHand
<1>21. CASE EndDispatch
  BY <1>21, <1>0, <1>b DEF EndDispatch, LeaveThread, TurnIsOfHand
<1>22. CASE GiveUp
  BY <1>22, QuietTurn DEF GiveUp, threadVars
<1>23. CASE Crash
  BY <1>23, <1>b DEF Crash, TurnIsOfHand
<1>24. CASE UNCHANGED vars
  BY <1>24, QuietTurn DEF vars, threadVars, workerVars
<1> QED BY <1>1, <1>2, <1>3, <1>4, <1>5, <1>6, <1>7, <1>8, <1>9, <1>10, <1>11, <1>12, <1>13,
    <1>14, <1>15, <1>16, <1>17, <1>18, <1>19, <1>20, <1>21, <1>22, <1>23, <1>24
        DEF Next, Begin, Step, WorkerLoop, Name, Loops

\* A new event is as deep as the turns that led to it, direct messages apart.
LEMMA PutDepth ==
    ASSUME IInv, NEW t \in Thread, NEW dests \in SUBSET Name, NEW mark \in {"null", "unlogged"},
           Put(t, dests, mark), t = Worker => who[t] # "nobody",
           UNCHANGED <<cause, direct>>
    PROVE  DepthIsRank'
<1> DEFINE e == [dests |-> dests, depth |-> Depth(t), rank |-> cause[t],
                 direct |-> direct[t], mark |-> mark]
<1>0. DepthIsRank /\ TurnIsOfHand /\ log \in Seq(Event)
  BY DEF IInv, ChainInv, TypeOK
<1>1. t = Worker => hand # 0
  BY WorkerHasEvent
<1>2. log' = Append(log, e) /\ Len(log') = Len(log) + 1
  BY <1>1, PutEvent
<1>3. e.direct \/ e.depth = e.rank
  <2>1. CASE t = Worker
    <3>1. who[Worker] # "nobody"
      BY <2>1
    <3>2. hand \in 1 .. Len(log)
      BY <1>1, <2>1 DEF IInv, TypeOK
    <3>3. log[hand].direct \/ log[hand].depth = log[hand].rank
      BY <1>0, <3>2 DEF DepthIsRank
    <3>4. cause[Worker] = log[hand].rank + 1 /\ direct[Worker] = log[hand].direct
      BY <1>0, <3>1 DEF TurnIsOfHand
    <3> QED BY <2>1, <3>3, <3>4 DEF Depth
  <2>2. CASE t # Worker
    <3>1. direct[t] \/ cause[t] = 0
      BY <1>0, <2>2 DEF DepthIsRank, Thread
    <3> QED BY <2>2, <3>1 DEF Depth
  <2> QED BY <2>1, <2>2
<1> HIDE DEF e
<1>4. log'[Len(log')] = e /\ \A i \in 1 .. Len(log) : log'[i] = log[i]
  BY <1>0, <1>2
<1>5. \A i \in 1 .. Len(log') : i \in 1 .. Len(log) \/ i = Len(log')
  BY <1>0, <1>2
<1> QED BY <1>0, <1>3, <1>4, <1>5 DEF DepthIsRank

\* Depth goes on counting turns.
LEMMA DepthStaysRank == ASSUME IInv, [Next]_vars PROVE DepthIsRank'
<1>0. DepthIsRank
  BY DEF IInv, ChainInv
<1>b. Worker \in Thread /\ cause \in [Thread -> Nat] /\ direct \in [Thread -> BOOLEAN]
  BY DEF IInv, TypeOK, Thread
<1>1. ASSUME NEW t \in Thread, NEW a \in Name, NEW n \in Node, NEW board \in Board,
             CreateNode(t, a, n, board)
      PROVE  DepthIsRank'
  <2>1. UNCHANGED <<cause, direct, log>>
    BY <1>1 DEF CreateNode, Committed, threadVars
  <2> QED BY <1>0, <2>1 DEF DepthIsRank
<1>2. ASSUME NEW t \in Thread, NEW a \in Name, NEW n \in Node, NEW s \in Status,
             ReadForStatus(t, a, n, s)
      PROVE  DepthIsRank'
  BY <1>2, <1>0 DEF ReadForStatus, Start, threadVars, DepthIsRank
<1>3. ASSUME NEW t \in Thread, NEW a \in Name, NEW n \in Node, ReadForArchive(t, a, n)
      PROVE  DepthIsRank'
  BY <1>3, <1>0 DEF ReadForArchive, Start, threadVars, DepthIsRank
<1>4. ASSUME NEW t \in Thread, NEW n \in Node, NEW b \in Node, ReadForBlock(t, n, b)
      PROVE  DepthIsRank'
  BY <1>4, <1>0 DEF ReadForBlock, Start, threadVars, DepthIsRank
<1>5. ASSUME NEW t \in Thread, NEW n \in Node, NEW board \in Board, ReadForPromote(t, n, board)
      PROVE  DepthIsRank'
  BY <1>5, <1>0 DEF ReadForPromote, Start, threadVars, DepthIsRank
<1>6. ASSUME NEW t \in Thread, NEW a \in Name, NEW n \in Node, RequestDirection(t, a, n)
      PROVE  DepthIsRank'
  <2>1. Put(t, {"aetheria"}, "null") /\ {"aetheria"} \in SUBSET Name /\ UNCHANGED <<cause,
      direct>>
    BY <1>6 DEF RequestDirection, Name, Loops, threadVars
  <2>2. t = Worker => who[t] # "nobody"
    BY <1>6, ThreadAssumption DEF RequestDirection, Ready, Free, InTurn
  <2> QED BY <2>1, <2>2, PutDepth
<1>7. ASSUME NEW t \in Thread, CheckBlockers(t) PROVE DepthIsRank'
  BY <1>7, <1>0 DEF CheckBlockers, Over, threadVars, DepthIsRank
<1>8. ASSUME NEW t \in Thread, WriteStatus(t) PROVE DepthIsRank'
  <2>1. UNCHANGED <<cause, direct, log>>
    BY <1>8 DEF WriteStatus, Committed
  <2> QED BY <1>0, <2>1 DEF DepthIsRank
<1>9. ASSUME NEW t \in Thread, ReadBlocks(t) PROVE DepthIsRank'
  BY <1>9, <1>0 DEF ReadBlocks, threadVars, DepthIsRank
<1>10. ASSUME NEW t \in Thread, WriteBlock(t) PROVE DepthIsRank'
  <2>1. UNCHANGED <<cause, direct, log>>
    BY <1>10 DEF WriteBlock, Committed
  <2> QED BY <1>0, <2>1 DEF DepthIsRank
<1>11. ASSUME NEW t \in Thread, WriteArchive(t) PROVE DepthIsRank'
  <2>1. UNCHANGED <<cause, direct, log>>
    BY <1>11 DEF WriteArchive, Committed
  <2> QED BY <1>0, <2>1 DEF DepthIsRank
<1>12. ASSUME NEW t \in Thread, NEW target \in Node, NEW owner \in Name,
              WritePromote(t, target, owner)
       PROVE  DepthIsRank'
  <2>1. UNCHANGED <<cause, direct, log>>
    BY <1>12 DEF WritePromote, Committed
  <2> QED BY <1>0, <2>1 DEF DepthIsRank
<1>13. ASSUME NEW t \in Thread, Refuse(t) PROVE DepthIsRank'
  BY <1>13, <1>0 DEF Refuse, Over, threadVars, DepthIsRank
<1>14. ASSUME NEW t \in Thread, Emit(t) PROVE DepthIsRank'
  <2>1. PICK mark \in {"null", "unlogged"} : Put(t, call[t].dests, mark)
    BY <1>14 DEF Emit
  <2>2. call[t].dests \in SUBSET Name
    BY CallFields
  <2>3. UNCHANGED <<cause, direct>> /\ who[t] # "nobody"
    BY <1>14 DEF Emit, Over, IInv, ChainInv, CallersAreKnown
  <2> QED BY <2>1, <2>2, <2>3, PutDepth
<1>15. ASSUME NEW t \in Thread, EmitNothing(t) PROVE DepthIsRank'
  BY <1>15, <1>0 DEF EmitNothing, Over, Fault, threadVars, DepthIsRank
<1>16. ASSUME NEW t \in Thread, EndDirect(t) PROVE DepthIsRank'
  BY <1>16, <1>0, <1>b DEF EndDirect, LeaveThread, DepthIsRank, Thread
<1>17. ASSUME NEW t \in Http, NEW a \in Peer, DirectMessage(t, a)
       PROVE  DepthIsRank'
  BY <1>17, <1>0, <1>b DEF DirectMessage, DepthIsRank, Thread
<1>18. CASE Take
  BY <1>18, <1>0 DEF Take, threadVars, DepthIsRank
<1>19. ASSUME NEW a \in Name, Dispatch(a) PROVE DepthIsRank'
  <2>1. /\ UNCHANGED log
        /\ \A t \in Http : cause'[t] = cause[t] /\ direct'[t] = direct[t]
    BY <1>19, <1>b, ThreadAssumption DEF Dispatch, Thread
  <2> QED BY <1>0, <2>1 DEF DepthIsRank
<1>20. CASE Note
  <2>1. UNCHANGED <<cause, direct>> /\ hand \in 1 .. Len(log) /\ log \in Seq(Event)
    BY <1>20 DEF Note, threadVars, IInv, TypeOK
  <2>2. CASE UNCHANGED log
    BY <1>0, <2>1, <2>2 DEF DepthIsRank
  <2>3. CASE \E m : log' = [log EXCEPT ![hand].mark = m]
    <3>1. PICK m : log' = [log EXCEPT ![hand] = [log[hand] EXCEPT !.mark = m]]
      BY <2>3
    <3>2. log[hand] \in Event
      BY <2>1
    <3> DEFINE e == [log[hand] EXCEPT !.mark = m]
    <3>3. e.direct = log[hand].direct /\ e.depth = log[hand].depth /\ e.rank = log[hand].rank
      BY <3>2 DEF Event
    <3> HIDE DEF e
    <3>4. Len(log') = Len(log) /\ \A i \in 1 .. Len(log) : log'[i] = IF i = hand THEN e ELSE log[i]
      BY <2>1, <3>1 DEF e
    <3>5. \A i \in 1 .. Len(log) : /\ log'[i].direct = log[i].direct /\ log'[i].depth = log[i].depth
                                  /\ log'[i].rank = log[i].rank
      BY <3>3, <3>4
    <3> QED BY <1>0, <2>1, <3>4, <3>5 DEF DepthIsRank
  <2> QED BY <1>20, <2>2, <2>3 DEF Note
<1>21. CASE EndDispatch
  <2>1. /\ UNCHANGED log
        /\ \A t \in Http : cause'[t] = cause[t] /\ direct'[t] = direct[t]
    BY <1>21, <1>b, ThreadAssumption DEF EndDispatch, LeaveThread, Thread
  <2> QED BY <1>0, <2>1 DEF DepthIsRank
<1>22. CASE GiveUp
  BY <1>22, <1>0 DEF GiveUp, threadVars, DepthIsRank
<1>23. CASE Crash
  BY <1>23, <1>0 DEF Crash, DepthIsRank, Thread
<1>24. CASE UNCHANGED vars
  BY <1>24, <1>0 DEF vars, threadVars, DepthIsRank
<1> QED BY <1>1, <1>2, <1>3, <1>4, <1>5, <1>6, <1>7, <1>8, <1>9, <1>10, <1>11, <1>12, <1>13,
    <1>14, <1>15, <1>16, <1>17, <1>18, <1>19, <1>20, <1>21, <1>22, <1>23, <1>24
        DEF Next, Begin, Step, WorkerLoop, Name, Loops

\* Every step keeps the invariant, ...
LEMMA InvStep == ASSUME IInv, [Next]_vars PROVE IInv'
BY TypeStep, BoardStep, CallersStayKnown, TurnStaysOfHand, DepthStaysRank DEF IInv, ChainInv

\* ... which holds at first, ...
LEMMA InvInit == Init => IInv
<1> SUFFICES ASSUME Init PROVE IInv
  OBVIOUS
<1>1. \A n \in Node : row[n] = NewRow("none") /\ ~Archived(n)
  BY DEF Init, StoreInit, NewRow, Archived
<1>2. NewRow("none") \in Row
  BY DEF NewRow, Row, Status
<1>3. row \in [Node -> Row] /\ lessons \in Seq(Node)
  BY <1>2 DEF Init, StoreInit
<1>4. who \in [Thread -> Name \cup {"nobody"}] /\ call \in [Thread -> Call]
  BY CallValues DEF Init
<1>5. cause \in [Thread -> Nat] /\ direct \in [Thread -> BOOLEAN]
  BY DEF Init
<1>6. /\ log \in Seq(Event) /\ bus \subseteq 1 .. Len(log) /\ lost \subseteq 1 .. Len(log)
      /\ hand \in 0 .. Len(log) /\ Len(log) = 0
  BY DEF Init
<1>7. /\ left \subseteq Name /\ outcome \in {"nobody", "dropped", "received", "failed"}
      /\ waits \in Thread /\ faults \in 0 .. MaxFaults
  BY BoundAssumption DEF Init, Thread
<1>8. TypeOK
  BY <1>3, <1>4, <1>5, <1>6, <1>7 DEF TypeOK
<1>9. \A t \in Thread : call[t].op = "none" /\ cause[t] = 0 /\ who[t] = "nobody"
  BY CallValues DEF Init
<1>10. BoardInv
  BY <1>1, <1>9 DEF BoardInv, CallHasNode, CallIsValid, NewIsOpen, LessonPerArchive
<1>11. ChainInv
  BY <1>6, <1>9 DEF Init, ChainInv, CallersAreKnown, TurnIsOfHand, DepthIsRank, Thread
<1> QED BY <1>8, <1>10, <1>11 DEF IInv

\* ... and so for ever.
THEOREM Invariance == Spec => []IInv
<1>1. Init => IInv
  BY InvInit
<1>2. IInv /\ [Next]_vars => IInv'
  BY InvStep
<1> QED BY <1>1, <1>2, PTL DEF Spec

\* Every variable keeps its type.
THEOREM Typed == Spec => []TypeOK
<1>1. IInv => TypeOK
  BY DEF IInv
<1> QED BY <1>1, Invariance, PTL

\* However calls race, an archived node names a lesson that is about it.
THEOREM LessonsAreKept == Spec => []LessonPerArchive
<1>1. IInv => LessonPerArchive
  BY DEF IInv, BoardInv
<1> QED BY <1>1, Invariance, PTL

\* No chain of turns without a direct message is longer than the cap.
THEOREM ChainsAreCapped == Spec => []ChainIsCapped
<1>1. IInv => ChainIsCapped
  <2> SUFFICES ASSUME IInv, who[Worker] # "nobody", ~direct[Worker]
               PROVE  cause[Worker] <= MaxChainDepth
    BY DEF ChainIsCapped, IInv, TypeOK, Thread
  <2>1. /\ hand # 0 /\ cause[Worker] = log[hand].rank + 1 /\ direct[Worker] = log[hand].direct
        /\ log[hand].depth < MaxChainDepth
    BY DEF IInv, ChainInv, TurnIsOfHand
  <2>2. hand \in 1 .. Len(log) /\ log \in Seq(Event)
    BY <2>1 DEF IInv, TypeOK
  <2>3. log[hand].depth = log[hand].rank
    BY <2>1, <2>2 DEF IInv, ChainInv, DepthIsRank
  <2>4. log[hand] \in Event
    BY <2>2
  <2>5. log[hand].depth \in Nat
    BY <2>4 DEF Event
  <2> QED BY <2>1, <2>3, <2>5, BoundAssumption
<1> QED BY <1>1, Invariance, PTL

\* The steps by which an archived node may leave the archive.
LeftByRace ==
    \A n \in Node : Archived(n) /\ ~Archived(n)' =>
        \E t \in Thread : call[t].on = n /\ call[t].seen.status # "Archived"

\* No other step takes a node out of it.
LEMMA ArchiveStep == ASSUME IInv, [Next]_vars PROVE LeftByRace
<1> USE DEF LeftByRace
<1>0. row \in [Node -> Row] /\ NewIsOpen
  BY DEF IInv, BoardInv, TypeOK
<1>1. ASSUME NEW t \in Thread, NEW a \in Name, NEW n \in Node, NEW board \in Board,
             CreateNode(t, a, n, board)
      PROVE  LeftByRace
  <2>1. \A m \in Node : m # n => row'[m] = row[m]
    BY <1>1, <1>0 DEF CreateNode
  <2>2. ~Archived(n)
    BY <1>1, <1>0 DEF CreateNode, Fresh, NewIsOpen
  <2> QED BY <2>1, <2>2 DEF Archived
<1>2. ASSUME NEW t \in Thread, WriteStatus(t) PROVE LeftByRace
  <2>1. call[t].seen.status # "Archived"
    BY <1>2, CallFields DEF WriteStatus
  <2>2. \A m \in Node : m # call[t].on => row'[m] = row[m]
    BY <1>2, <1>0 DEF WriteStatus, SetStatus
  <2> QED BY <2>1, <2>2 DEF Archived
<1>3. ASSUME NEW t \in Thread, WriteBlock(t) PROVE LeftByRace
  <2> DEFINE r == [call[t].seen EXCEPT !.blocks = @ \cup {call[t].other}]
  <2>1. r.status = call[t].seen.status
    BY CallFields DEF Row
  <2>2. row' = row \/ row' = [row EXCEPT ![call[t].on] = r]
    BY <1>3 DEF WriteBlock, SetBlock
  <2> HIDE DEF r
  <2>3. \A m \in Node : row'[m] = row[m] \/ (m = call[t].on /\ row'[m] = r)
    BY <1>0, <2>2
  <2> QED BY <2>1, <2>3 DEF Archived
<1>4. ASSUME NEW t \in Thread, WriteArchive(t) PROVE LeftByRace
  <2> DEFINE r == ArchivedRow(call[t].seen)
  <2>1. r.status = "Archived"
    BY CallFields DEF ArchivedRow, Provenance, Row
  <2>2. row' = [row EXCEPT ![call[t].on] = r]
    BY <1>4 DEF WriteArchive, Archive
  <2> HIDE DEF r
  <2>3. \A m \in Node : row'[m] = row[m] \/ row'[m] = r
    BY <1>0, <2>2
  <2> QED BY <2>1, <2>3 DEF Archived
<1>5. ASSUME NEW t \in Thread, NEW target \in Node, NEW owner \in Name,
             WritePromote(t, target, owner)
      PROVE  LeftByRace
  <2> DEFINE r == ArchivedRow(call[t].seen)
             q == NewRow(call[t].arg)
  <2>1. r.status = "Archived"
    BY CallFields DEF ArchivedRow, Provenance, Row
  <2>2. row' = [row EXCEPT ![call[t].on] = r, ![target] = q] /\ ~Archived(target)
    BY <1>5, <1>0 DEF WritePromote, Promote, Fresh, NewIsOpen
  <2> HIDE DEF r, q
  <2>3. \A m \in Node : row'[m] = row[m] \/ row'[m] = r \/ m = target
    BY <1>0, <2>2
  <2> QED BY <2>1, <2>2, <2>3 DEF Archived
<1>6. CASE UNCHANGED storeVars
  BY <1>6 DEF storeVars, Archived
<1> QED BY <1>1, <1>2, <1>3, <1>4, <1>5, <1>6, StoreSteps DEF StoreStep

\* A node comes back from the archive only by a call that had seen it before.
THEOREM ArchiveIsLeftByRaceOnly == Spec => ArchiveLeftByRaceOnly
<1>1. IInv /\ [Next]_vars => [LeftByRace]_vars
  BY ArchiveStep
<1> QED BY <1>1, Invariance, PTL DEF Spec, ArchiveLeftByRaceOnly, LeftByRace

=============================================================================
