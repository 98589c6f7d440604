----------------------------- MODULE Commissions -----------------------------
(***************************************************************************)
(* The commissions queue of the house (citizens/commissions.py), the drain *)
(* passes that claim and execute its rows (citizens/runtime.py), the       *)
(* heartbeat that records its pulses in it (citizens/pulse.py) and the     *)
(* route that cancels a row (app/routes/api_citizens.py).                  *)
(*                                                                         *)
(* drain_once runs in several threads at once: the citizens-runtime daemon *)
(* loops over it, every POST to /runtime/drain runs one pass (the Scotty   *)
(* worker sends the next one although an earlier one may still be busy),   *)
(* and so does the thread started for each deferred chat message.  The     *)
(* heartbeat is a process of its own.  One step is one SQL statement or    *)
(* transaction: claim, complete and fail begin with an UPDATE and so hold  *)
(* the write lock to their commit, while requeue and cancel begin with a   *)
(* SELECT, outside of any transaction, and write later.                    *)
(***************************************************************************)
EXTENDS FiniteSets, Integers

CONSTANTS
    Citizen, CoS,       \* the citizens; the Chief of Staff, aetheria
    Work, Relay, Pulse, \* ids of commissions, by what will be in the body
    None,               \* no id
    Thread, Daemon,     \* threads that drain; the citizens-runtime thread
    MaxLapses,          \* bound: live claims that reach the stale age
    MaxCrashes,         \* bound: crashes of the process of the drain threads
    MaxFaults           \* bound: statements that fail, the file being locked

Commission == Work \cup Relay \cup Pulse

ASSUME HouseAssumption ==
    /\ CoS \in Citizen /\ Daemon \in Thread
    /\ None \notin Commission /\ None \notin Citizen
    /\ Work \cap Relay = {} /\ Work \cap Pulse = {} /\ Relay \cap Pulse = {}
ASSUME LimitAssumption == MaxLapses \in Nat /\ MaxCrashes \in Nat /\ MaxFaults \in Nat

VARIABLES
    state, owner, source,   \* columns: state, citizen_id, a relay's source
    older,                      \* <<a, b>>: a was created before b
    stale,      \* running rows claimed longer ago than the stale limit
    outbox,     \* rows with a result file in their citizen's outbox
    pc, sweep, todo, who, held, cur,    \* per thread, see Drain
    heart,      \* the row of the pulse under way
    cancelling, \* the row a cancel request has read as queued
    started, overlapped, requeued,   \* history, see Start and Requeue
    crossed,    \* history, see CheckIdle
    lapses, crashes, faults

tableVars == <<state, owner, source, older, stale>>
threadVars == <<pc, sweep, todo, who, held, cur>>
historyVars == <<started, overlapped, requeued, crossed>>
vars == <<tableVars, outbox, threadVars, heart, cancelling, historyVars,
          lapses, crashes, faults>>

\* The points at which a thread is at work on the commission cur.
Working == {"process", "complete", "incomplete", "fail", "relayCheck", "relayEnqueue"}
PC == Working \cup {"between", "requeue", "claim"}

Init ==
    /\ state = [c \in Commission |-> "none"]
    /\ owner = [c \in Commission |-> CoS]
    /\ source = [c \in Commission |-> None]
    /\ older = {} /\ stale = {} /\ outbox = {}
    /\ pc = [x \in Thread |-> "between"]
    /\ sweep = [x \in Thread |-> {}]
    /\ todo = [x \in Thread |-> {}]
    /\ who = [x \in Thread |-> None]
    /\ held = [x \in Thread |-> {}]
    /\ cur = [x \in Thread |-> None]
    /\ heart = None /\ cancelling = None
    /\ started = {} /\ overlapped = {} /\ requeued = {} /\ crossed = {}
    /\ lapses = 0 /\ crashes = 0 /\ faults = 0

-----------------------------------------------------------------------------
(* The table.                                                                *)

Row == {c \in Commission : state[c] # "none"}
IsRunning(w) == \E c \in Commission : owner[c] = w /\ state[c] = "running"

Insert(c, s, w, src) ==
    /\ state[c] = "none"
    /\ state' = [state EXCEPT ![c] = s]
    /\ owner' = [owner EXCEPT ![c] = w]
    /\ source' = [source EXCEPT ![c] = src]
    /\ older' = older \cup (Row \X {c})
    /\ UNCHANGED stale

\* UPDATE ... SET state; claimed_at is read only while the row is running.
Write(c, s) ==
    /\ state' = [state EXCEPT ![c] = s]
    /\ stale' = stale \ {c}
    /\ UNCHANGED <<owner, source, older>>

\* The row that claim takes for w, as a singleton, or {}.
OldestQueued(w) ==
    LET Q == {c \in Commission : owner[c] = w /\ state[c] = "queued"}
    IN  {c \in Q : \A d \in Q \ {c} : <<c, d>> \in older}

\* complete: a running row, or one failed in the meantime, is done; a done row
\* stays.  fail closes a running row only.
CompleteRow(c) ==
    IF state[c] \in {"running", "failed"} THEN Write(c, "done") ELSE UNCHANGED tableVars
FailRow(c) ==
    IF state[c] = "running" THEN Write(c, "failed") ELSE UNCHANGED tableVars

\* The mistake of a table without the foreign key.
EnqueueUnaddressed(c, w) ==
    /\ Insert(c, "queued", None, None)
    /\ UNCHANGED <<outbox, threadVars, heart, cancelling, historyVars, lapses, crashes, faults>>

\* enqueue; an empty body, and work that came back unfinished twice, are refused.
Enqueue(c, w) ==
    /\ Insert(c, "queued", w, None)
    /\ UNCHANGED <<outbox, threadVars, heart, cancelling, historyVars, lapses, crashes, faults>>

-----------------------------------------------------------------------------
(* drain_once, in thread x.  "between" its statements it first visits the    *)
(* rows of sweep, then the citizens of todo, then the rows it holds; when    *)
(* there are none left the pass is over.                                     *)

At(x, here) == pc[x] = here
Goto(x, there) == pc' = [pc EXCEPT ![x] = there]
Fault == faults < MaxFaults /\ faults' = faults + 1
NoFault == UNCHANGED faults
QuietBut == UNCHANGED <<heart, cancelling, lapses, crashes>>
Quiet == QuietBut /\ NoFault

\* The mistake of a pass that leaves the stale rows alone.
DrainUnswept(x, C) ==
    /\ At(x, "between") /\ sweep[x] = {} /\ todo[x] = {} /\ held[x] = {}
    /\ todo' = [todo EXCEPT ![x] = C]
    /\ UNCHANGED <<tableVars, outbox, pc, sweep, who, held, cur, historyVars>> /\ Quiet

\* A pass starts with requeue_stale_running's listing.  The daemon's passes
\* visit every citizen, those of a request or a deferred message one.
Drain(x, C) ==
    /\ At(x, "between") /\ sweep[x] = {} /\ todo[x] = {} /\ held[x] = {}
    /\ sweep' = [sweep EXCEPT ![x] = {c \in stale : state[c] = "running"}]
    /\ todo' = [todo EXCEPT ![x] = C]
    /\ UNCHANGED <<tableVars, outbox, pc, who, held, cur, historyVars>> /\ Quiet

\* requeue, its SELECT: a row no longer running is refused and skipped.
SweepRead(x, c) ==
    /\ At(x, "between") /\ c \in sweep[x]
    /\ sweep' = [sweep EXCEPT ![x] = @ \ {c}]
    /\ IF state[c] = "running"
       THEN Goto(x, "requeue") /\ cur' = [cur EXCEPT ![x] = c]
       ELSE UNCHANGED <<pc, cur>>
    /\ UNCHANGED <<tableVars, outbox, todo, who, held, historyVars>> /\ Quiet

\* requeue, its UPDATE ... WHERE id = ?; what it raises is logged.
Requeue(x) ==
    /\ At(x, "requeue") /\ Goto(x, "between")
    /\ \/ Write(cur[x], "queued") /\ requeued' = requeued \cup {cur[x]} /\ NoFault
       \/ UNCHANGED <<tableVars, requeued>> /\ Fault
    /\ cur' = [cur EXCEPT ![x] = None]
    /\ UNCHANGED <<outbox, sweep, todo, who, held, started, overlapped, crossed>> /\ QuietBut

\* The mistake of claiming for a citizen that already has a running row.
CheckNothing(x, w) ==
    /\ At(x, "between") /\ sweep[x] = {} /\ w \in todo[x] /\ Goto(x, "claim")
    /\ todo' = [todo EXCEPT ![x] = @ \ {w}]
    /\ who' = [who EXCEPT ![x] = w]
    /\ UNCHANGED <<tableVars, outbox, sweep, held, cur, historyVars>> /\ Quiet

\* One citizen of the pass: skipped while it has a running row, or while it
\* is busy with a conversation.  crossed: the citizens that another thread had
\* found idle, and not claimed for yet, when last one did.
Claiming(x, w) == pc[x] = "claim" /\ who[x] = w
CheckIdle(x, w) ==
    /\ At(x, "between") /\ sweep[x] = {} /\ w \in todo[x]
    /\ ~ IsRunning(w) /\ Goto(x, "claim")
    /\ todo' = [todo EXCEPT ![x] = @ \ {w}]
    /\ who' = [who EXCEPT ![x] = w]
    /\ crossed' = IF \E y \in Thread : Claiming(y, w)
                  THEN crossed \cup {w} ELSE crossed \ {w}
    /\ UNCHANGED <<tableVars, outbox, sweep, held, cur, started, overlapped, requeued>>
    /\ Quiet

CheckSkip(x, w) ==      \* busy, or running
    /\ At(x, "between") /\ sweep[x] = {} /\ w \in todo[x]
    /\ todo' = [todo EXCEPT ![x] = @ \ {w}]
    /\ UNCHANGED <<tableVars, outbox, pc, sweep, who, held, cur, historyVars>> /\ Quiet

\* The mistake of a claim that hands the row out and leaves it queued.
ClaimKeeps(x) ==
    /\ At(x, "claim") /\ Goto(x, "between")
    /\ held' = [held EXCEPT ![x] = @ \cup OldestQueued(who[x])]
    /\ who' = [who EXCEPT ![x] = None]
    /\ UNCHANGED <<tableVars, outbox, sweep, todo, cur, historyVars>> /\ Quiet

\* claim, one UPDATE ... RETURNING; nothing when the citizen has no queued row.
Claim(x) ==
    /\ At(x, "claim") /\ Goto(x, "between")
    /\ \/ \E c \in OldestQueued(who[x]) :
            /\ Write(c, "running")
            /\ held' = [held EXCEPT ![x] = @ \cup {c}]
       \/ OldestQueued(who[x]) = {} /\ UNCHANGED <<tableVars, held>>
    /\ who' = [who EXCEPT ![x] = None]
    /\ UNCHANGED <<outbox, sweep, todo, cur, historyVars>> /\ Quiet

\* execute_claimed, from the row as it was claimed; the rows of one pass run
\* one after the other.
Start(x, c) ==
    /\ At(x, "between") /\ sweep[x] = {} /\ todo[x] = {}
    /\ c \in held[x] /\ Goto(x, "process")
    /\ held' = [held EXCEPT ![x] = @ \ {c}]
    /\ cur' = [cur EXCEPT ![x] = c]
    /\ started' = started \cup {c}
    /\ overlapped' = IF \E y \in Thread : cur[y] = c /\ pc[y] \in Working
                     THEN overlapped \cup {c} ELSE overlapped
    /\ UNCHANGED <<tableVars, outbox, sweep, todo, who, requeued, crossed>> /\ Quiet

\* On to the next row of the pass.
Drop(x) == Goto(x, "between") /\ cur' = [cur EXCEPT ![x] = None]

\* The mistake of closing the row before its result is on disk.
ProcessUnwritten(x) ==
    /\ At(x, "process") /\ Goto(x, "complete")
    /\ UNCHANGED <<tableVars, outbox, sweep, todo, who, held, cur, historyVars>> /\ Quiet

\* process_fn ends.  A result is written to the outbox before the row is
\* closed, one that admits the work did not land too; process_fn or the write
\* may raise.
Process(x) ==
    /\ At(x, "process")
    /\ \/ /\ \/ Goto(x, "complete")
             \/ cur[x] \notin Relay /\ Goto(x, "incomplete")
          /\ outbox' = outbox \cup {cur[x]}
       \/ Goto(x, "fail") /\ UNCHANGED outbox
    /\ UNCHANGED <<tableVars, sweep, todo, who, held, cur, historyVars>> /\ Quiet

\* Who finished or failed work that is not the Chief of Staff's own is
\* followed by a relay for her to summarize.
Followed(c) == owner[c] # CoS /\ c \notin Relay
AfterClose(x) ==
    IF Followed(cur[x]) THEN Goto(x, "relayCheck") /\ UNCHANGED cur ELSE Drop(x)

\* complete raises on a row that went back to the queue: the exception
\* handler is next, as it is when the statement or the read after it fails.
Complete(x) ==
    /\ At(x, "complete")
    /\ \/ state[cur[x]] # "queued" /\ CompleteRow(cur[x]) /\ AfterClose(x) /\ NoFault
       \/ state[cur[x]] = "queued" /\ UNCHANGED <<tableVars, cur>> /\ Goto(x, "fail") /\ NoFault
       \/ /\ CompleteRow(cur[x]) \/ UNCHANGED tableVars
          /\ UNCHANGED cur /\ Goto(x, "fail") /\ Fault
    /\ UNCHANGED <<outbox, sweep, todo, who, held, historyVars>> /\ QuietBut

\* fail on the incomplete path returns without a relay, unless it raises.
Incomplete(x) ==
    /\ At(x, "incomplete")
    /\ \/ state[cur[x]] \in {"running", "failed"} /\ FailRow(cur[x]) /\ Drop(x) /\ NoFault
       \/ state[cur[x]] \in {"queued", "done"} /\ UNCHANGED <<tableVars, cur>> /\ Goto(x, "fail") /\ NoFault
       \/ /\ FailRow(cur[x]) \/ UNCHANGED tableVars
          /\ UNCHANGED cur /\ Goto(x, "fail") /\ Fault
    /\ UNCHANGED <<outbox, sweep, todo, who, held, historyVars>> /\ QuietBut

\* The mistake of failing a row whatever it says.
FailAlways(x) ==
    /\ At(x, "fail") /\ AfterClose(x)
    /\ Write(cur[x], "failed")
    /\ UNCHANGED <<outbox, sweep, todo, who, held, historyVars>> /\ Quiet

\* The exception handler's fail; what it raises is logged.
Fail(x) ==
    /\ At(x, "fail") /\ AfterClose(x)
    /\ \/ FailRow(cur[x]) /\ NoFault
       \/ UNCHANGED tableVars /\ Fault
    /\ UNCHANGED <<outbox, sweep, todo, who, held, historyVars>> /\ QuietBut

\* What is caught nowhere in the pass ends it: a claim that fails, a desk that
\* cannot be made, a handler without a connection or whose last read fails.
\* The rows the pass has claimed and not closed stay running.
Abort(x) ==
    /\ \/ pc[x] \in {"claim", "fail"}
       \/ At(x, "between") /\ sweep[x] = {} /\ todo[x] = {} /\ held[x] # {}
    /\ \/ UNCHANGED tableVars
       \/ At(x, "fail") /\ FailRow(cur[x])
    /\ Fault /\ Drop(x)
    /\ todo' = [todo EXCEPT ![x] = {}]
    /\ who' = [who EXCEPT ![x] = None]
    /\ held' = [held EXCEPT ![x] = {}]
    /\ UNCHANGED <<outbox, sweep, historyVars>> /\ QuietBut

\* The mistake of not looking for an earlier relay.
RelayUnchecked(x) ==
    /\ At(x, "relayCheck") /\ Goto(x, "relayEnqueue")
    /\ UNCHANGED <<tableVars, outbox, sweep, todo, who, held, cur, historyVars>> /\ Quiet

\* _enqueue_cos_summary: look for a relay of the same source, then insert.
RelayCheck(x) ==
    /\ At(x, "relayCheck")
    /\ IF \E d \in Row : source[d] = cur[x]
       THEN Drop(x)
       ELSE Goto(x, "relayEnqueue") /\ UNCHANGED cur
    /\ UNCHANGED <<tableVars, outbox, sweep, todo, who, held, historyVars>> /\ Quiet

\* The insert may fail, and is then logged; a model with no id left inserts
\* nothing either.
RelayEnqueue(x) ==
    /\ At(x, "relayEnqueue") /\ Drop(x)
    /\ \/ \E d \in Relay : Insert(d, "queued", CoS, cur[x]) /\ NoFault
       \/ Relay \subseteq Row /\ UNCHANGED tableVars /\ NoFault
       \/ UNCHANGED tableVars /\ Fault
    /\ UNCHANGED <<outbox, sweep, todo, who, held, historyVars>> /\ QuietBut

\* All of a pass but its start.
Step(x) ==
    \/ \E c \in Commission : SweepRead(x, c) \/ Start(x, c)
    \/ \E w \in Citizen : CheckIdle(x, w) \/ CheckSkip(x, w)
    \/ Requeue(x) \/ Claim(x) \/ Process(x) \/ Complete(x) \/ Incomplete(x)
    \/ Fail(x) \/ Abort(x) \/ RelayCheck(x) \/ RelayEnqueue(x)

-----------------------------------------------------------------------------
(* The heartbeat, the cancel route, time and crashes.                        *)

\* record_pulse: begin_owned, then complete or fail; what they raise is logged.
PulseBegin(c) ==
    /\ heart = None /\ heart' = c
    /\ Insert(c, "running", CoS, None)
    /\ UNCHANGED <<outbox, threadVars, cancelling, historyVars, lapses, crashes, faults>>

PulseEnd ==
    /\ heart # None /\ heart' = None
    /\ \/ (CompleteRow(heart) \/ FailRow(heart)) /\ NoFault
       \/ UNCHANGED tableVars /\ Fault
    /\ UNCHANGED <<outbox, threadVars, cancelling, historyVars, lapses, crashes>>

\* The heartbeat process dies; the next one begins a pulse of its own.
PulseDies ==
    /\ heart # None /\ heart' = None
    /\ UNCHANGED <<tableVars, outbox, threadVars, cancelling, historyVars, lapses, crashes, faults>>

\* cancel, read and refuse what is not queued; then UPDATE ... WHERE id = ?.
CancelRead(c) ==
    /\ cancelling = None /\ state[c] = "queued" /\ cancelling' = c
    /\ UNCHANGED <<tableVars, outbox, threadVars, heart, historyVars, lapses, crashes, faults>>

CancelWrite ==
    /\ cancelling # None /\ cancelling' = None
    /\ Write(cancelling, "failed")
    /\ UNCHANGED <<outbox, threadVars, heart, historyVars, lapses, crashes, faults>>

\* Somebody still means to close the row.
Holds(x, c) == c \in held[x] \/ (cur[x] = c /\ pc[x] \in Working)
Live(c) == c = heart \/ \E x \in Thread : Holds(x, c)

\* A claim reaches the limit of requeue_stale_running: ten minutes, which a
\* row also spends behind the others of its pass; a pulse, whose claimed_at is
\* local time read as UTC, need not wait at all west of Greenwich.
Lapse(c) ==
    /\ state[c] = "running" /\ c \notin stale
    /\ IF Live(c) THEN lapses < MaxLapses /\ lapses' = lapses + 1
       ELSE UNCHANGED lapses
    /\ stale' = stale \cup {c}
    /\ UNCHANGED <<state, owner, source, older, outbox, threadVars, heart,
                   cancelling, historyVars, crashes, faults>>

\* The process of the drain threads and the routes dies; it is restarted.
Crash ==
    /\ crashes < MaxCrashes /\ crashes' = crashes + 1
    /\ pc' = [x \in Thread |-> "between"]
    /\ sweep' = [x \in Thread |-> {}]
    /\ todo' = [x \in Thread |-> {}]
    /\ who' = [x \in Thread |-> None]
    /\ held' = [x \in Thread |-> {}]
    /\ cur' = [x \in Thread |-> None]
    /\ cancelling' = None
    /\ UNCHANGED <<tableVars, outbox, heart, historyVars, lapses, faults>>

Next ==
    \/ \E x \in Thread : Step(x)
    \/ Drain(Daemon, Citizen)
    \/ \E x \in Thread \ {Daemon}, w \in Citizen : Drain(x, {w})
    \/ \E c \in Work, w \in Citizen : Enqueue(c, w)
    \/ \E c \in Pulse : PulseBegin(c)
    \/ \E c \in Commission : CancelRead(c) \/ Lapse(c)
    \/ PulseEnd \/ PulseDies \/ CancelWrite \/ Crash

Spec == Init /\ [][Next]_vars

\* Threads run, the daemon polls, agent turns and pulses end, an orphaned
\* claim grows old, and the daemon does not find a citizen in conversation
\* every single time it looks.
Fairness ==
    /\ \A x \in Thread : WF_vars(Step(x))
    /\ WF_vars(Drain(Daemon, Citizen))
    /\ \A w \in Citizen : SF_vars(CheckIdle(Daemon, w))
    /\ WF_vars(PulseEnd) /\ WF_vars(CancelWrite)
    /\ \A c \in Commission : WF_vars(~ Live(c) /\ Lapse(c))

FairSpec == Spec /\ Fairness

-----------------------------------------------------------------------------
TableTypeOK ==
    /\ state \in [Commission -> {"none", "queued", "running", "done", "failed"}]
    /\ owner \in [Commission -> Citizen]
    /\ source \in [Commission -> Commission \cup {None}]
    /\ older \subseteq Commission \X Commission
    /\ stale \subseteq Commission /\ outbox \subseteq Commission

ThreadTypeOK ==
    /\ pc \in [Thread -> PC]
    /\ sweep \in [Thread -> SUBSET Commission]
    /\ todo \in [Thread -> SUBSET Citizen]
    /\ who \in [Thread -> Citizen \cup {None}]
    /\ held \in [Thread -> SUBSET Commission]
    /\ cur \in [Thread -> Commission \cup {None}]

RestTypeOK ==
    /\ heart \in Commission \cup {None} /\ cancelling \in Commission \cup {None}
    /\ started \subseteq Commission /\ overlapped \subseteq Commission
    /\ requeued \subseteq Commission /\ crossed \subseteq Citizen
    /\ lapses \in 0 .. MaxLapses /\ crashes \in 0 .. MaxCrashes /\ faults \in 0 .. MaxFaults

TypeOK == TableTypeOK /\ ThreadTypeOK /\ RestTypeOK
=============================================================================
