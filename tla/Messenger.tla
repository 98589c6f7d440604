------------------------------ MODULE Messenger ------------------------------
(***************************************************************************)
(* The messenger (app/messenger, app/routes/messenger.py): messages that a *)
(* device sends into a thread, and sends again when it is not sure, and    *)
(* intents that agents put on the outbound queue, which one worker thread  *)
(* delivers into a thread.  A thread is a session of SessionTurns, and the *)
(* stream of a message is one of its turns.                                *)
(*                                                                         *)
(* Two databases are written, one statement of one connection at a time:   *)
(* nothing makes a row of the conversation and its mark in the messenger's *)
(* tables one write.                                                       *)
(***************************************************************************)
EXTENDS Integers, FiniteSets, SessionTurns

CONSTANTS
    Message,        \* values of client_msg_id; a turn is one attempt to send one
    Sharer,         \* turns of the agent that may call deliberate_share at once
    Limit,          \* rate_limit_per_hour: all of a behaviour is within an hour
    Default,        \* the target of an intent that names no thread
    Gone,           \* the target of an intent whose thread does not exist
    MaxFaults       \* bound: clients that go, statements that fail, crashes

\* The intents of SessionTurns' other writers are numbered in the order
\* of their rows, as their created_at orders them.
Intent == Other

ASSUME IntentAssumption == Intent \subseteq Nat \ {0}
ASSUME TargetAssumption == Default \notin Session /\ Gone \notin Session /\ Default # Gone
ASSUME MessengerAssumption == Limit \in Nat /\ MaxFaults \in Nat /\ IsFiniteSet(Sharer)

VARIABLES
    of, at,         \* per turn: the message it sends, where its request is
    known,          \* messages with a row in m_message_idempotency
    cached,         \* those whose row holds a response
    crowded,        \* history: messages with two requests under way at once
    sharing,        \* per sharer: it has passed the brake
    queue,          \* per intent: its delivery_state, "none" before its row
    target,         \* per intent: its thread
    batch,          \* the worker: the rows of its pass that it has not taken
    hand, place,    \* the intent it delivers, 0 for none, and where to
    marking,        \* it has written the row of the conversation
    faults

requestVars == <<of, at, known, cached, crowded>>
shareVars == <<sharing, queue, target>>
workerVars == <<batch, hand, place, marking>>
vars == <<turnsVars, requestVars, shareVars, workerVars, faults>>

Active == {"insert", "admitted", "running", "answered"}
At == {"unsent", "over"} \cup Active
UnderWay(m) == {t \in Turn : of[t] = m /\ at[t] \in Active}

\* The rows of the outbound queue.
Queued == {i \in Intent : queue[i] # "none"}

Init ==
    /\ TurnsInit
    /\ of \in [Turn -> Message]
    /\ \A t, u \in Turn : of[t] = of[u] => sess[t] = sess[u]
    /\ at = [t \in Turn |-> "unsent"]
    /\ known = {} /\ cached = {} /\ crowded = {}
    /\ sharing = [s \in Sharer |-> FALSE]
    /\ queue = [i \in Intent |-> "none"]
    /\ target = [i \in Intent |-> Default]
    /\ batch = {} /\ hand = 0 /\ place = Default /\ marking = FALSE
    /\ faults = 0

Fault == faults < MaxFaults /\ faults' = faults + 1

-----------------------------------------------------------------------------
\* A mutation: a response that is not there yet is waited for by nobody.
LookBlind(t) ==
    /\ at[t] = "unsent"
    /\ at' = [at EXCEPT ![t] = IF of[t] \in known THEN "admitted" ELSE "insert"]
    /\ crowded' = IF UnderWay(of[t]) # {} THEN crowded \cup {of[t]} ELSE crowded
    /\ UNCHANGED <<turnsVars, of, known, cached, shareVars, workerVars, faults>>

\* idempotency_lookup_or_record, its SELECT.  A response is returned as it is;
\* a row without one is an empty response, and does not hold the request up.
Look(t) ==
    /\ at[t] = "unsent"
    /\ at' = [at EXCEPT ![t] = IF of[t] \in cached THEN "over"
                               ELSE IF of[t] \in known THEN "admitted"
                               ELSE "insert"]
    /\ crowded' = IF of[t] \notin cached /\ UnderWay(of[t]) # {}
                  THEN crowded \cup {of[t]} ELSE crowded
    /\ UNCHANGED <<turnsVars, of, known, cached, shareVars, workerVars, faults>>

\* Its INSERT: the second of two requests fails on the primary key.
Record(t) ==
    /\ at[t] = "insert"
    /\ at' = [at EXCEPT ![t] = IF of[t] \in known THEN "over" ELSE "admitted"]
    /\ known' = known \cup {of[t]}
    /\ UNCHANGED <<turnsVars, of, cached, crowded, shareVars, workerVars, faults>>

\* The stream: the turn's first row, its last, and the response for retries.
BeginTurn(t) ==
    /\ at[t] = "admitted"
    /\ Begin(t)
    /\ at' = [at EXCEPT ![t] = "running"]
    /\ UNCHANGED <<of, known, cached, crowded, shareVars, workerVars, faults>>

AnswerTurn(t) ==
    /\ at[t] = "running"
    /\ Answer(t)
    /\ at' = [at EXCEPT ![t] = "answered"]
    /\ UNCHANGED <<of, known, cached, crowded, shareVars, workerVars, faults>>

CacheAnswer(t) ==
    /\ at[t] = "answered"
    /\ cached' = cached \cup {of[t]}
    /\ at' = [at EXCEPT ![t] = "over"]
    /\ UNCHANGED <<turnsVars, of, known, crowded, shareVars, workerVars, faults>>

\* The client goes, or the turn fails: the generator is closed where it stands,
\* after the answer's row, too.
Drop(t) ==
    /\ at[t] \in Active /\ Fault
    /\ IF phase[t] = "open" THEN Fail({t}) ELSE UNCHANGED turnsVars
    /\ at' = [at EXCEPT ![t] = "over"]
    /\ UNCHANGED <<of, known, cached, crowded, shareVars, workerVars>>

-----------------------------------------------------------------------------
\* A mutation: the brake lets one more pass.
CountShareLoose(s) ==
    /\ ~sharing[s]
    /\ Cardinality(Queued) <= Limit
    /\ sharing' = [sharing EXCEPT ![s] = TRUE]
    /\ UNCHANGED <<turnsVars, requestVars, queue, target, workerVars, faults>>

\* deliberate_share counts the rows of the last hour ...
CountShare(s) ==
    /\ ~sharing[s]
    /\ Cardinality(Queued) < Limit
    /\ sharing' = [sharing EXCEPT ![s] = TRUE]
    /\ UNCHANGED <<turnsVars, requestVars, queue, target, workerVars, faults>>

\* ... and inserts its own on another connection; the lattice's record of the
\* intent, in between, may raise.
InsertShare(s) ==
    /\ sharing[s]
    /\ sharing' = [sharing EXCEPT ![s] = FALSE]
    /\ \/ \E i \in Intent, to \in Session \cup {Default, Gone} :
            /\ queue[i] = "none" /\ \A j \in Intent \ Queued : i <= j
            /\ queue' = [queue EXCEPT ![i] = "pending"]
            /\ target' = [target EXCEPT ![i] = to]
       \/ UNCHANGED <<queue, target>>
    /\ UNCHANGED <<turnsVars, requestVars, workerVars, faults>>

-----------------------------------------------------------------------------
\* A mutation: what was delivered is read again.
WorkerReadAll ==
    /\ batch = {} /\ hand = 0
    /\ batch' = {i \in Intent : queue[i] \in {"pending", "delivered"}}
    /\ batch' # {}
    /\ UNCHANGED <<turnsVars, requestVars, shareVars, hand, place, marking, faults>>

\* drain_once reads the pending rows, oldest first.
WorkerRead ==
    /\ batch = {} /\ hand = 0
    /\ batch' = {i \in Intent : queue[i] = "pending"}
    /\ batch' # {}
    /\ UNCHANGED <<turnsVars, requestVars, shareVars, hand, place, marking, faults>>

\* A mutation: an intent without a thread is passed over.
WorkerTakeSkipping(i) ==
    /\ hand = 0 /\ i \in batch /\ \A j \in batch : i <= j
    /\ batch' = batch \ {i}
    /\ \/ target[i] = Gone /\ UNCHANGED <<hand, place>>
       \/ /\ target[i] # Gone
          /\ hand' = i
          /\ \E s \in Session : target[i] \in {s, Default} /\ place' = s
    /\ UNCHANGED <<turnsVars, requestVars, shareVars, marking, faults>>

\* The next of them: its thread, or any one of the agent, or none.
WorkerTake(i) ==
    /\ hand = 0 /\ i \in batch /\ \A j \in batch : i <= j
    /\ batch' = batch \ {i}
    /\ \/ /\ target[i] = Gone
          /\ queue' = [queue EXCEPT ![i] = "failed"]
          /\ UNCHANGED <<hand, place>>
       \/ /\ target[i] # Gone
          /\ hand' = i
          /\ \E s \in Session : target[i] \in {s, Default} /\ place' = s
          /\ UNCHANGED queue
    /\ UNCHANGED <<turnsVars, requestVars, sharing, target, marking, faults>>

\* A mutation: marked first.
WorkerSaveLate ==
    /\ hand # 0 /\ ~marking
    /\ queue' = [queue EXCEPT ![hand] = "delivered"]
    /\ marking' = TRUE
    /\ UNCHANGED <<turnsVars, requestVars, sharing, target, batch, hand, place, faults>>

\* The row of the conversation ...
WorkerSave ==
    /\ hand # 0 /\ ~marking
    /\ Post(place, hand)
    /\ marking' = TRUE
    /\ UNCHANGED <<requestVars, shareVars, batch, hand, place, faults>>

\* ... and, later, the mark that it is delivered.
WorkerMark ==
    /\ marking
    /\ queue' = [queue EXCEPT ![hand] = "delivered"]
    /\ hand' = 0 /\ marking' = FALSE
    /\ UNCHANGED <<turnsVars, requestVars, sharing, target, batch, place, faults>>

StopWorker ==
    /\ batch' = {} /\ hand' = 0 /\ marking' = FALSE
    /\ UNCHANGED place

\* run_forever gives the pass up on any exception, and begins another.
WorkerFail ==
    /\ batch # {} \/ hand # 0
    /\ Fault
    /\ StopWorker
    /\ UNCHANGED <<turnsVars, requestVars, shareVars>>

\* The process dies with its threads; both databases stay.
Crash ==
    /\ Fault
    /\ at' = [t \in Turn |-> IF at[t] \in Active THEN "over" ELSE at[t]]
    /\ Fail({t \in Turn : phase[t] = "open"})
    /\ sharing' = [s \in Sharer |-> FALSE]
    /\ StopWorker
    /\ UNCHANGED <<of, known, cached, crowded, queue, target>>

Worker == WorkerRead \/ (\E i \in Intent : WorkerTake(i)) \/ WorkerSave \/ WorkerMark

Next ==
    \/ \E t \in Turn :
         \/ Look(t) \/ Record(t) \/ BeginTurn(t) \/ AnswerTurn(t) \/ CacheAnswer(t)
         \/ Drop(t)
    \/ \E s \in Sharer : CountShare(s) \/ InsertShare(s)
    \/ Worker \/ WorkerFail \/ Crash

Spec == Init /\ [][Next]_vars

\* The worker is a thread in an endless loop of passes.
FairSpec == Spec /\ WF_vars(Worker)
=============================================================================
