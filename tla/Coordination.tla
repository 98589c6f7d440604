---------------------------- MODULE Coordination ----------------------------
(***************************************************************************)
(* The boards at work (platform/coordination, agents/direct_communication, *)
(* app/routes/api_coord.py).  Jon's requests and the turns of agents call  *)
(* the store, each on a thread of its own and in several connections; what *)
(* is committed is then logged and put on an in-memory bus.  One worker    *)
(* thread takes events off the bus and runs the turns that they call for,  *)
(* whose own calls put further events on it.  A chain depth, kept in a     *)
(* thread-local, is to end such chains.                                    *)
(***************************************************************************)
EXTENDS Integers, FiniteSets, CoordinationStore

CONSTANTS
    Http, Worker,       \* the threads that serve requests, and the worker's
    Peer,               \* agents with a loop beside aetheria
    MaxChainDepth,
    MaxEvents, MaxLessons, MaxFaults    \* bounds of the instance

Thread == Http \cup {Worker}
Loops == {"aetheria"} \cup Peer
\* scotty is routed to, and has no loop any more.
Name == {"jon", "scotty"} \cup Loops

ASSUME ThreadAssumption == Worker \notin Http /\ IsFiniteSet(Http)
ASSUME PeerAssumption == "nobody" \notin Peer
ASSUME BoundAssumption ==
    MaxChainDepth \in Nat /\ MaxEvents \in Nat /\ MaxLessons \in Nat /\ MaxFaults \in Nat

VARIABLES
    who,            \* per thread: for whom it runs
    call,           \* per thread: where its call of the store is
    cause, direct,  \* history, per thread: how many turns of the worker led to
                    \* what it runs, and whether by way of a direct message
    log, bus,       \* the events, as coord_event_log has them, and the queue
    hand, left, outcome,    \* the worker: its event, whom to run for it, what to note
    waits,          \* the thread that its turn waits for, in a direct message
    lost,           \* history: events whose outcome nothing will note
    faults

threadVars == <<who, call, cause, direct>>
workerVars == <<hand, left, outcome, waits>>
vars == <<storeVars, threadVars, log, bus, workerVars, lost, faults>>

Op == {"none", "check", "status", "read", "block", "archive", "promote", "emit"}
Idle == [op |-> "none", on |-> 0, seen |-> NewRow("none"), arg |-> "", other |-> 0, dests |-> {}]

Event == [dests : SUBSET Name, depth : Nat, rank : Nat, direct : BOOLEAN,
          mark : {"unlogged", "null", "nobody", "dropped", "received", "failed"}]

Init ==
    /\ StoreInit
    /\ who = [t \in Thread |-> "nobody"]
    /\ call = [t \in Thread |-> Idle]
    /\ cause = [t \in Thread |-> 0] /\ direct = [t \in Thread |-> FALSE]
    /\ log = <<>> /\ bus = {}
    /\ hand = 0 /\ left = {} /\ outcome = "nobody" /\ waits = Worker
    /\ lost = {} /\ faults = 0

Fault == faults < MaxFaults /\ faults' = faults + 1

-----------------------------------------------------------------------------
\* A turn of the worker, or of the peer of a direct message, makes one call
\* after another.  Of Jon's requests and the turns of his chats each call
\* stands for itself.
InTurn(t) == who[t] # "nobody" /\ (t = Worker \/ direct[t])
Free(t) == t \in Http /\ who[t] = "nobody"
Ready(t, a) ==
    /\ call[t].op = "none"
    /\ \/ Free(t)
       \/ InTurn(t) /\ who[t] = a /\ (t = Worker => waits = Worker)

\* The bounds: room for the events and lessons of every call under way.
Busy == {t \in Thread : call[t].op # "none"}
Room == Len(log) + Cardinality(Busy) < MaxEvents
RoomToLearn == Room /\ Len(lessons) + Cardinality(Busy) < MaxLessons

Start(t, a, op, n, arg, other) ==
    /\ Ready(t, a) /\ Room
    /\ who' = [who EXCEPT ![t] = a]
    /\ call' = [call EXCEPT ![t] = [op |-> op, on |-> n, arg |-> arg, other |-> other, dests |-> {},
                                   seen |-> IF op = "read" THEN Idle.seen ELSE row[n]]]
    /\ UNCHANGED <<storeVars, cause, direct, log, bus, workerVars, lost, faults>>

\* A call is committed: its event is due.  route, whose table is applied here,
\* never sends an event to the agent that caused it.
Committed(t, a, dests) ==
    /\ who' = [who EXCEPT ![t] = a]
    /\ call' = [call EXCEPT ![t] = [Idle EXCEPT !.op = "emit", !.dests = dests \ {a}]]
    /\ UNCHANGED <<cause, direct, log, bus, workerVars, lost, faults>>

\* A call that returns or raises; outside of a turn its thread is free again.
Over(t) ==
    /\ call' = [call EXCEPT ![t] = Idle]
    /\ who' = IF InTurn(t) THEN who ELSE [who EXCEPT ![t] = "nobody"]
    /\ UNCHANGED <<cause, direct>>

-----------------------------------------------------------------------------
\* create_node; the route may name any owner, who then counts as the actor, or
\* park the node without an event.
CreateNode(t, a, n, board) ==
    /\ a \in {"jon", "aetheria"} /\ Ready(t, a) /\ Room
    /\ Fresh(n)
    /\ row' = [row EXCEPT ![n] = NewRow(board)]
    /\ \/ \E owner \in (IF a = "jon" THEN Name ELSE {a}) :
            Committed(t, a, (IF board = "Friction" THEN {} ELSE {"aetheria"}) \ {owner})
       \/ a = "jon" /\ UNCHANGED <<threadVars, log, bus, workerVars, lost, faults>>
    /\ UNCHANGED lessons

\* A mutation: every transition is one of the table.
ReadForStatusLoose(t, a, n, s) ==
    /\ a \in {"jon", "aetheria"}
    /\ Exists(n) /\ s \in Status \ {"Archived"}
    /\ Start(t, a, IF row[n].board = "Blueprint" /\ s = "Ready" THEN "check" ELSE "status", n, s, 0)

\* update_status: read the node, and decide by what was read.
ReadForStatus(t, a, n, s) ==
    /\ a \in {"jon", "aetheria"}
    /\ Exists(n) /\ s \in ValidTransitions[row[n].status] \ {"Archived"}
    /\ Start(t, a, IF row[n].board = "Blueprint" /\ s = "Ready" THEN "check" ELSE "status", n, s, 0)

\* On another connection, what blocks a blueprint that would be Ready.
CheckBlockers(t) ==
    /\ call[t].op = "check"
    /\ IF Blockers(call[t].on) = {}
       THEN call' = [call EXCEPT ![t].op = "status"] /\ UNCHANGED <<who, cause, direct>>
       ELSE Over(t)
    /\ UNCHANGED <<storeVars, log, bus, workerVars, lost, faults>>

WriteStatus(t) ==
    /\ call[t].op = "status"
    /\ SetStatus(call[t].on, call[t].seen, call[t].arg)
    /\ Committed(t, who[t], IF call[t].seen.board # "Blueprint" THEN {}
                            ELSE IF call[t].arg = "Refining" THEN {"scotty"} ELSE {"aetheria"})

\* add_block, by aetheria: both nodes are read and checked, ...
ReadForBlock(t, f, b) ==
    /\ row[f].board = "Friction" /\ ~Archived(f) /\ row[b].board = "Blueprint"
    /\ Start(t, "aetheria", "read", f, "", b)

\* ... the row is read once more for its blocks, before its transaction, ...
ReadBlocks(t) ==
    /\ call[t].op = "read"
    /\ call' = [call EXCEPT ![t].op = "block", ![t].seen = row[call[t].on]]
    /\ UNCHANGED <<storeVars, who, cause, direct, log, bus, workerVars, lost, faults>>

\* ... and written with one more.
WriteBlock(t) ==
    /\ call[t].op = "block"
    /\ SetBlock(call[t].on, call[t].seen, call[t].other)
    /\ Committed(t, who[t], {"aetheria"})

\* archive_node, and promote_node to a board that is not Signal.
ReadForArchive(t, a, n) ==
    /\ a \in {"jon", "aetheria"} /\ RoomToLearn
    /\ Exists(n) /\ ~Archived(n)
    /\ Start(t, a, "archive", n, "", 0)

\* A mutation: the row is written before the lesson, whose id it does not have.
WriteArchiveFirst(t) ==
    /\ call[t].op = "archive"
    /\ SetStatus(call[t].on, call[t].seen, "Archived")
    /\ Committed(t, who[t], {})

WriteArchive(t) ==
    /\ call[t].op = "archive"
    /\ Archive(call[t].on, call[t].seen)
    /\ Committed(t, who[t], {})

\* A mutation: the board to promote to is not handed on.
ReadForPromoteUnset(t, n, board) ==
    /\ board # "Signal" /\ RoomToLearn
    /\ Exists(n) /\ ~Archived(n)
    /\ Start(t, "aetheria", "promote", n, "", 0)

ReadForPromote(t, n, board) ==
    /\ board # "Signal" /\ RoomToLearn
    /\ Exists(n) /\ ~Archived(n)
    /\ Start(t, "aetheria", "promote", n, board, 0)

WritePromote(t, target, owner) ==
    /\ call[t].op = "promote" /\ Fresh(target)
    /\ Promote(call[t].on, call[t].seen, target, call[t].arg)
    /\ Committed(t, who[t], IF call[t].arg = "Blueprint" THEN {owner} ELSE {})

\* A write that the database refuses is rolled back.
Refuse(t) ==
    /\ call[t].op \in {"status", "block", "archive", "promote"}
    /\ Over(t)
    /\ UNCHANGED <<storeVars, log, bus, workerVars, lost, faults>>

-----------------------------------------------------------------------------
\* A mutation: an event is as deep as the one its turn runs for.
DepthFlat(t) == IF t = Worker THEN log[hand].depth ELSE 0

\* The depth of the thread's chain context: the worker's turns have one.
Depth(t) == IF t = Worker THEN log[hand].depth + 1 ELSE 0

\* _emit: the event is logged, where that fails only put on the bus.
Put(t, dests, mark) ==
    /\ log' = Append(log, [dests |-> dests, depth |-> Depth(t), rank |-> cause[t],
                           direct |-> direct[t], mark |-> mark])
    /\ bus' = bus \cup {Len(log) + 1}
    /\ UNCHANGED <<workerVars, lost>>

Emit(t) ==
    /\ call[t].op = "emit"
    /\ \/ Put(t, call[t].dests, "null") /\ UNCHANGED faults
       \/ Put(t, call[t].dests, "unlogged") /\ Fault
    /\ Over(t)
    /\ UNCHANGED storeVars

\* The references are recorded before the event, and may raise.
EmitNothing(t) ==
    /\ call[t].op = "emit" /\ Fault
    /\ Over(t)
    /\ UNCHANGED <<storeVars, log, bus, workerVars, lost>>

\* request_direction writes nothing but its event.
RequestDirection(t, a, n) ==
    /\ a \in Peer /\ Ready(t, a) /\ Room /\ Exists(n)
    /\ Put(t, {"aetheria"}, "null")
    /\ UNCHANGED <<storeVars, threadVars, faults>>

-----------------------------------------------------------------------------
\* A mutation: an event at the cap is let through.
TakeLoose ==
    /\ hand = 0
    /\ hand' \in bus /\ \A e \in bus : hand' <= e
    /\ bus' = bus \ {hand'}
    /\ LET event == log[hand'] IN
       /\ left' = IF event.depth > MaxChainDepth THEN {} ELSE event.dests
       /\ outcome' = IF event.depth > MaxChainDepth THEN "dropped"
                     ELSE IF event.dests = {} THEN "nobody" ELSE "received"
    /\ UNCHANGED <<storeVars, threadVars, log, waits, lost, faults>>

\* The worker takes the oldest event off the bus, and drops what is too deep.
Take ==
    /\ hand = 0
    /\ hand' \in bus /\ \A e \in bus : hand' <= e
    /\ bus' = bus \ {hand'}
    /\ LET event == log[hand'] IN
       /\ left' = IF event.depth >= MaxChainDepth THEN {} ELSE event.dests
       /\ outcome' = IF event.depth >= MaxChainDepth THEN "dropped"
                     ELSE IF event.dests = {} THEN "nobody" ELSE "received"
    /\ UNCHANGED <<storeVars, threadVars, log, waits, lost, faults>>

\* AgentDispatcher.dispatch: without a loop there is nothing to run, and no error.
Dispatch(a) ==
    /\ hand # 0 /\ who[Worker] = "nobody" /\ a \in left
    /\ left' = left \ {a}
    /\ IF a \in Loops
       THEN /\ who' = [who EXCEPT ![Worker] = a]
            /\ cause' = [cause EXCEPT ![Worker] = log[hand].rank + 1]
            /\ direct' = [direct EXCEPT ![Worker] = log[hand].direct]
       ELSE UNCHANGED <<who, cause, direct>>
    /\ UNCHANGED <<storeVars, call, log, bus, hand, outcome, waits, lost, faults>>

LeaveThread(t) ==
    /\ who' = [who EXCEPT ![t] = "nobody"]
    /\ cause' = [cause EXCEPT ![t] = 0] /\ direct' = [direct EXCEPT ![t] = FALSE]
    /\ UNCHANGED call

\* The turn of the worker ends, or raises.
EndDispatch ==
    /\ who[Worker] # "nobody" /\ call[Worker].op = "none" /\ waits = Worker
    /\ LeaveThread(Worker)
    /\ \/ UNCHANGED <<outcome, faults>>
       \/ outcome' = "failed" /\ Fault
    /\ UNCHANGED <<storeVars, log, bus, hand, left, waits, lost>>

\* A mutation: what was dropped is not noted.
NoteRun ==
    /\ hand # 0 /\ left = {} /\ who[Worker] = "nobody"
    /\ log' = IF outcome = "dropped" THEN log ELSE [log EXCEPT ![hand].mark = outcome]
    /\ hand' = 0 /\ outcome' = "nobody"
    /\ UNCHANGED <<storeVars, threadVars, bus, left, waits, lost, faults>>

\* _mark_triggered, which may fail and is not tried again.
Note ==
    /\ hand # 0 /\ left = {} /\ who[Worker] = "nobody"
    /\ hand' = 0 /\ outcome' = "nobody"
    /\ \/ /\ log' = [log EXCEPT ![hand].mark = IF @ = "unlogged" THEN @ ELSE outcome]
          /\ UNCHANGED <<lost, faults>>
       \/ Fault /\ lost' = lost \cup {hand} /\ UNCHANGED log
    /\ UNCHANGED <<storeVars, threadVars, bus, left, waits>>

-----------------------------------------------------------------------------
\* direct_message_agent, in a turn of the worker: a request to this very
\* process, whose turn runs on a thread without a chain context.  Its limit of
\* messages per minute delays one, and stops none.
DirectMessage(t, a) ==
    /\ who[Worker] = "aetheria" /\ call[Worker].op = "none" /\ waits = Worker
    /\ Free(t) /\ a \in Peer
    /\ waits' = t
    /\ who' = [who EXCEPT ![t] = a]
    /\ cause' = [cause EXCEPT ![t] = cause[Worker]]
    /\ direct' = [direct EXCEPT ![t] = TRUE]
    /\ UNCHANGED <<storeVars, call, log, bus, hand, left, outcome, lost, faults>>

\* The peer's turn is over, and the wait for it.
EndDirect(t) ==
    /\ t \in Http /\ InTurn(t) /\ call[t].op = "none"
    /\ LeaveThread(t)
    /\ waits' = IF waits = t THEN Worker ELSE waits
    /\ UNCHANGED <<storeVars, log, bus, hand, left, outcome, lost, faults>>

\* A mutation: the request is waited for without a timeout.
GiveUpNever == UNCHANGED vars

\* The wait times out, and the peer goes on.
GiveUp ==
    /\ waits' = Worker /\ waits # Worker
    /\ UNCHANGED <<storeVars, threadVars, log, bus, hand, left, outcome, lost, faults>>

-----------------------------------------------------------------------------
\* The process dies, and the bus with it; nothing reads the log again.
Crash ==
    /\ Fault
    /\ who' = [t \in Thread |-> "nobody"]
    /\ call' = [t \in Thread |-> Idle]
    /\ cause' = [t \in Thread |-> 0] /\ direct' = [t \in Thread |-> FALSE]
    /\ lost' = lost \cup bus \cup ({hand} \ {0})
    /\ bus' = {} /\ hand' = 0 /\ left' = {} /\ outcome' = "nobody"
    /\ waits' = Worker
    /\ UNCHANGED <<storeVars, log>>

\* What a call does once it has begun.
Step(t) ==
    \/ CheckBlockers(t) \/ WriteStatus(t) \/ ReadBlocks(t) \/ WriteBlock(t)
    \/ WriteArchive(t)
    \/ \E target \in Node, owner \in Name : WritePromote(t, target, owner)
    \/ Refuse(t) \/ Emit(t) \/ EmitNothing(t)

Begin(t) ==
    \E n \in Node :
        \/ \E a \in {"jon", "aetheria"} :
             \/ \E board \in Board : CreateNode(t, a, n, board)
             \/ \E s \in Status : ReadForStatus(t, a, n, s)
             \/ ReadForArchive(t, a, n)
        \/ \E b \in Node : ReadForBlock(t, n, b)
        \/ \E board \in Board : ReadForPromote(t, n, board)
        \/ \E a \in Peer : RequestDirection(t, a, n)

WorkerLoop == Take \/ (\E a \in Name : Dispatch(a)) \/ Note

Next ==
    \/ \E t \in Thread : Begin(t) \/ Step(t) \/ EndDirect(t)
    \/ \E t \in Http, a \in Peer : DirectMessage(t, a)
    \/ WorkerLoop \/ EndDispatch \/ GiveUp \/ Crash

Spec == Init /\ [][Next]_vars

\* The worker's thread goes on, and a turn that it runs, whose rounds are
\* bounded, is over some time between two of its calls.
FairSpec ==
    /\ Spec
    /\ WF_vars(WorkerLoop \/ Step(Worker) \/ GiveUp)
    /\ SF_vars(EndDispatch)
=============================================================================
