# SOVERYN: a TLA+ model of the house

SOVERYN (`src/soveryn`) is a self-hosted "house" of language-model agents, the
*citizens*: a Flask application with daemon threads beside it, a heartbeat
process, and SQLite files and git repositories that all of them share. Nearly
all of its code is prompts, tools and single-row SQL. What is hard in it is the
part where several threads and processes act on one table or one repository
without a transaction around what they read and what they write. That part is
what these modules model.

Six subsystems are modelled: **delegated coding tasks** (an agent called Scotty
works in a git worktree, a person approves or rejects), the **commissions queue**
(work the house owes, drained by several threads), the **agent loop** with its
approval gate (a turn between the model, its tools, a human and the history), the
**messenger** (a phone that sends again, agents that write of their own accord),
the **coordination boards** (nodes that agents move, and the events that make other
agents act) and the **kernel jobs** (coding children that one turn waits for and another
stops). Each has its state machine, TLC runs over small instances, and
machine-checked theorems for every size.

## Inventory

| Component | State | Operations | Interacts with |
|---|---|---|---|
| Delegation ledger (`platform/delegation/store.py`) | one row per task: status, worktree path, branch, updated_at | create, set_status (read and check, then write, on two connections), set_execution, set_result/review, clear_worktree, list | worker, engine, routes |
| Delegation worktrees (`worktree.py`) | `.worktrees/<id>`, branch `task/<id>`, tag `rejected/<id>`, `main` | create, commit, merge, preserve_branch, remove, under `_REPO_GIT_LOCK` | engine, routes |
| Delegation worker and engine (`worker.py`, `engine.py`, `scotty_runner.py`, `acceptance.py`) | the worker thread's position, its snapshot of tasks, Scotty's thread | recover, drain, execute_task, prune, expire | ledger, worktrees |
| Review gate (`app/routes/delegation.py`) | one handler per request | approve, reject | ledger, worktrees |
| Dispatch (`dispatch.py`, `tools.py`) | none of its own | duplicate check, insert | ledger |
| Landing proof (`landing.py`) | none of its own | evaluate evidence, mark landed | ledger |
| Commissions (`citizens/commissions.py`) | one row per commission: state, citizen, claim, result | enqueue, begin_owned, claim, complete, fail, requeue, cancel | drain passes, heartbeat, routes |
| Drain (`citizens/runtime.py`) | per thread: the stale rows, the citizens, the claimed rows of the pass | requeue_stale_running, drain_once, execute_claimed, relay to the Chief of Staff | commissions, outbox files |
| Pulses (`citizens/pulse.py`, `agents/heartbeat`) | the pulse under way | record_pulse | commissions, from another process |
| Agent loop (`agents/loop.py`) | per turn: rounds, look-up budget, the names it asked for, the draft | save the user's row, load, ask, dispatch tools, verify, save the answer | conversation store, approval gate, verification gate |
| Approval gate (`platform/approval/store.py`) | one row per request, and its state | create, wait with a timeout, decide (read, then write, on two connections) | agent loop, `decide_approval` route |
| Verification gate (`platform/verification/gate.py`) | none of its own | pass, force a look-up, replace by the honest floor | agent loop |
| Conversation store (`memory/conversation_store.py`) | the rows of each session | save_turn, load | every writer of a session |
| Messenger send (`app/routes/messenger.py`, `app/messenger/store.py`) | one row per message id, with or without its response | look up or record, run the turn, cache the response | agent loop, conversation store |
| Outbound queue (`agents/messenger_tool.py`, `app/messenger/delivery_worker.py`) | one row per intent: thread and delivery state | brake and insert, drain | conversation store |
| Coordination board (`platform/coordination/store.py`) | board, status, lesson and blocks of a node in one JSON column; lessons | create, update_status, add_block, archive, promote, request_direction | bus, routes, tools |
| Coordination worker (`worker.py`, `dispatcher.py`, `events.py`) | in-memory bus, event log, chain context of a thread | take, route, dispatch, note | agent loop, direct messages |
| Pairing, receipts, push (`app/messenger`) | devices, codes, read marks | claim a pairing, mark read | conversation store |
| Kernel jobs (`platform/kernel_jobs.py`) | jobs in memory, each with a process group and a thread; the finished ones are collected above 40 | spawn, wait, list, stop, steer | subprocesses, turns of forge and aetheria |
| The rest | see "Not modelled" | | |

### What is hard, and what must be right

*Delegation.* The worker is a single thread, but every HTTP request has its own,
so an approve and a reject of one task overlap with each other, with the sweep
that expires old worktrees and with a crash. `set_status` reads the status on
one connection and writes `WHERE id = ?` on another. A merge into `main`, the
removal of a branch and the row that says so are three steps, each of which may
fail alone. Correct is: what a row or an answer says of the work is true;
accepted work is never lost without the ledger saying so; nothing unreviewed is
merged; every run ends, across crashes.

*Commissions.* The runtime daemon, every `POST /api/citizens/runtime/drain`
(the Scotty worker repeats it after 120 seconds although the last one may still
be at work) and every deferred message run `drain_once` at the same time.
`claim`, `complete` and `fail` are guarded UPDATEs, `requeue` and `cancel` are a
SELECT and an unguarded UPDATE, and "is this citizen idle?" is a statement of
its own. A claim older than ten minutes is taken for a dead worker's. Correct
is: nothing is executed twice unless it was requeued; done means there is a
result; Jon hears of a result once; one commission at a time per citizen;
everything queued is closed.

*Agent loop.* Flask serves every request on a thread of its own and nothing keeps
two turns of one session apart; other parts of the house write into the same
sessions. A turn that wants to send something out of the house files a request and
polls its row until a human decides or the deadline passes, and both write that row
by id. Correct is: nothing leaves without a human's yes to that very call; what
looks like a claim without evidence is not said by a governed agent; the history is
what happened; every turn ends.

*Messenger.* A device that is not sure sends again, before, during or after the
first request. The row of a conversation and the mark of an intent are in two
databases. Correct is: a message is processed once unless something failed; delivered
means shown; shown twice only after a failure; no intent is forgotten.

*Coordination.* Every operation reads a node on one connection, checks it, and writes
the whole column on another. Its event is emitted after the commit, in memory, and
runs turns whose own calls emit events. Correct is: an archived node has its
lesson and stays archived; a block holds; chains of turns end; the worker never
stops.

*Kernel jobs.* The lock is held around the collections only: the status and the date of
a job are written by its thread and by whoever stops it, each after it looked. A child
may ignore SIGTERM, or leave a descendant that keeps its pipe. Correct is: what
a job became it stays; what is alive is known to the store; no turn waits forever.

*Next.* Dispatch: two equal objectives dispatched at once.

`PROJECT.json` lists the hazards one by one at their lines, each with the
properties that cover it.

## Modules

```
TaskLifecycle              what the delegation system promises of a task
DelegationStore  GitRepo   the ledger; the repository
        \          /
        Delegation         worker, engine, Scotty, review handlers, crashes
            |
  DelegationProperties     what must hold (and what the code claims and breaks)
            |
  DelegationInvariant ---- MCDelegation (TLC)
            |
  DelegationProofs, DelegationRefinement (TLAPS)

  Commissions - CommissionsProperties - CommissionsInvariant - MCCommissions (TLC)
                                                  |
                                        CommissionsProofs (TLAPS)

  ApprovalGate            SessionTurns       what the house promises of a conversation
       |      (implements) .'      \ (is built on it)
   AgentTurn ............'        Messenger         CoordinationStore
       |                              |                    |
       |                              |              Coordination
  KernelJobs                          |                    |
       |                              |                    |
  (Messenger also implements OutboundDelivery, what is promised of an intent)

  <X>Properties - <X>Invariant - MC<X> (TLC), and <X>Proofs (TLAPS),
  for X each of AgentTurn, Messenger, Coordination, KernelJobs;
  SessionTurnsProofs (TLAPS), which AgentTurnProofs instantiates and MessengerProofs extends
```

### Delegation

`DelegationStore` is `store.py`: `status`, the rows with a recorded worktree, the
order of `updated_at` (as recency classes, all its readers look at) and `aged`,
the rows old enough to expire. `CanTransition` and `WriteStatus` are the two
connections of `set_status`; `SetStatus` is the two together, for the callers
whose row nobody else writes. The columns diff, test_output and
review_summary only move `updated_at`; the branch column is set with the
worktree path and needs no variable.

`GitRepo` is `worktree.py` after the lock: a directory, a branch, a tag per task
and `main`. A branch is `"base"` until the engine commits on it, then `"work"`.
Merging a branch that is still at its base succeeds and brings nothing in, as
git does.

`Delegation` has one step per ledger connection or git command. `wpc` is the
worker's position: `recover*` are `_recover_stale_executing`, `poll`/`next` the
drain loop, `make` to `red` the phases of `execute_task`, `raise` its exception
handler, `prun*` and `expir*` the two sweeps after a run. The listing that
`_drain` starts with is outside every handler of exceptions: when it fails the
thread is `dead` until the process restarts. Scotty's thread is joined with a
timeout and left alive when it is exceeded (`scotty`). `req` holds the handlers:
`Open` reads the row and evaluates the route's guard, the later steps act on what
was read. A route that refuses changes nothing and is no step. `Crash` takes
every thread; ledger and repository stay; systemd restarts the unit
(`Restart=on-failure`, `systemd/soveryn-vnext.service`).

A Scotty who was left behind is still at work: `StrayWrites` is his `write_file`, which
makes the missing directories. Once his worktree was removed, what he writes is a directory
git knows nothing of (`bare`): `git worktree remove` fails on it, and no pruning ends it.

`contested` and `unrecorded` are history: the tasks of which an approve and a
reject were under way at once (a handler opened before one of the other kind had written its
decision), and those that an approve merged without being able to say so (its write was
refused, or its process died). They name what it takes to break a decision, and no guard reads
them.

`TaskLifecycle` is the abstract specification: six moves of a task, the merge in between,
and, for a proposal that was approved and rejected at once, what becomes of it: the later
decision stands in the ledger (`Overrule`), and the work may be merged
even after the rejection. `ImplementsLifecycle` maps `phase` to `status`, `merged` to
`main` and `disputed` to `contested`, for any number of handlers.

### Commissions

The ids are split into `Work`, `Relay` (the briefs that ask the Chief of Staff to
summarize a result) and `Pulse`; all are rows of one table. `older` is the order
of `created_at`, `stale` the running rows whose claim has passed the limit of
`requeue_stale_running`. A thread between its statements has the stale rows to
visit (`sweep`), the citizens to claim for (`todo`) and the rows it claimed
(`held`), and goes through them in this order. `heart` is the pulse of the
heartbeat process; `cancelling` the row a cancel request has read.

One step is one SQL statement where the code leaves a gap after it. `complete` and
`fail` are one step: they begin with an UPDATE, which holds SQLite's write lock
until their commit, whether or not it changed a row. `Process` is the agent's turn
with the outbox write that follows it. `Abort` is every exception that
`execute_claimed` and the claim loop do not catch: the pass ends and what it had
claimed stays running.

`started`, `overlapped`, `requeued` and `crossed` are history, the last the citizens
that a thread found idle while another had found them so and not claimed yet. Work that is refused at
`enqueue` is no step. Not in the model: the house post, the projection to a chat
room and the collaboration ticket, which follow a close and change no
commission; lounge nudges, which are commissions without a relay; the limit of 80
rows in the search for an earlier relay, so the model assumes that fewer than 80
rows of the Chief of Staff come between two executions of one commission.

### Agent loop

`SessionTurns` is the abstract specification of a conversation: a turn begins with its
user's row, is answered by one more row or fails, and other writers add theirs.
`ApprovalGate` is the ledger: `verdict`, with `DecideRead` and `DecideWrite` the two
connections of a human's `set_state`; `yes` is history, the requests that a human's
approval was written for.

`AgentTurn` is `process_message` and `process_message_stream`, which go through the
same steps: `load`, `ask` the model, `dispatch` and `send` a gated tool, `wait` and
`expire` at the gate, `save`. A model call returns any draft: nothing, a claim that
the gate finds risky when nothing was looked up, anything else. Ungated tools only
enter `named`, which is what the gate looks at. `AskForced` is the reply without tools
at the cap, past the gate; `AskFinal` the ordinary reply, with the forced look-ups.
`Load` is the assertion on the last row (`loop.py:1291`). `Break` is every
exception or disconnect after which a turn saves nothing, `Crash` the process, `Post` a row of
another part of the house. Left out: prompt assembly, recall, compaction, the
steering of kernel jobs, the deferral of chats (`DEFERRED_CHAT_AGENTS` is empty), the
texts.

### Messenger

`Messenger` extends `SessionTurns`: a turn is one attempt to send a message. `Look` and
`Record` are the SELECT and the INSERT of `idempotency_lookup_or_record`,
`CacheAnswer` its response; `Drop` is a client that goes, at any step. `CountShare`
and `InsertShare` are the brake and the insert of `deliberate_share`. The worker reads
the pending rows (`WorkerRead`), then per row resolves the thread (`WorkerTake`; a thread that is
gone fails the intent), writes the conversation (`WorkerSave`), and marks the intent
(`WorkerMark`); an exception ends its pass (`WorkerFail`). The abstract steps `Begin`,
`Answer` and `Post` of `SessionTurns` are the ones it takes on a conversation.
`OutboundDelivery` is the abstract specification of the queue: shown at least once before
the mark `delivered`, given up only when never shown, and one mark for good.
`ImplementsDelivery` maps `state` to `queue` and `shown` to the intents with a row in a conversation.

### Coordination

`CoordinationStore` is the column: what `_provenance_for` builds is what `Provenance`
keeps of a node that was read. `Coordination` has one step per connection: `Start`
reads, `Write*` commits, `Emit` logs the event and puts it on the bus. `call` is what a
thread has read and is about to write; `Committed` applies the routing table. Jon's
requests (`Http`) are one call each. A turn of the worker makes any number of calls, one after another; so does
the turn of a peer that such a turn sends a direct message to, which runs on another
thread. `rank` and `cause` are history: how many turns led to an event, or to
what a thread runs; `depth` is what the code counts. The outcome of an event is
`mark`; `lost` are those whose outcome nothing will note.
Agents write what their tools let them: aetheria moves nodes, her peers ask for direction.

### Kernel jobs

`KernelJobs` has the three collections of the store (`jobs` for `_jobs` and `_procs`, which
change together, `threads`, `stopping`), the two fields of a job that decide
(`status`, and whether `finished_at` is set), its process group (`proc`) and its thread
(`waiter`). `at` is where a caller is: `popen` to `start` are `spawn`, `wait` and `waiting`
`wait`, `mark` to `stamp` `stop`, and `respawn` the second half of `steer`.
`Conclude` and `Assign` are two steps because the thread looks at the mark and then writes
the status; `Settle` and `Stamp` because `stop` writes the status and then the date.
`Collect` is `_gc` under its lock; which of several dated jobs go first is left open, so the model
forgets more than the code. `Exit` is the child and all it starts: `held` is a group
that is dead while a descendant outside of it keeps the pipe, for which `communicate`
goes on. `Join` is a `join` with a timeout of 8 or 3 seconds. The model takes it that these
seconds are enough for what a thread does between `communicate` and its end, so a join gives up on a blocked
thread only; without that a stop could overwrite what the thread had decided. Left out:
outputs, prompts and errors, a `start` of a thread that fails, and the end of the process,
which takes the store with it.

Some operators next to an action are its mutations, and say so; `Next` does not use
them.

## Runs

CHECK_DEADLOCK is FALSE everywhere: with every task decided, every commission closed,
every turn over, and the bounds spent, these systems really have nothing to do.

| Run | Shows |
|---|---|
| `delegation_race` | two tasks, two handlers at a time, one fault, one crash: a landed row is in main, what is merged was proposed, accepted work stays reachable, answers are true, no abandoned Scotty is at work in what is judged or proposed, an executing row has one owner across recovery, failed worktrees stay within the retention, rejected work is live only after a race or a lost record, and all of it implements `TaskLifecycle` |
| `delegation_live` | one reviewer, a fault and a crash: under fairness dispatched tasks are taken and runs end |
| `delegation_rejected` | two handlers of one task: merged work recorded as rejected |
| `commissions_race` | two threads, a commission and the relays that follow it, a crash, two claims that go stale under a live thread: evidence before done, no repetition without requeue, no worker overwrites done, one relay per result, two commissions of a citizen at once only if both were claimed on the same idleness |
| `commissions_live` | the daemon alone with two commissions of one citizen, a pulse, cancels, a crash and a failing statement: everything queued is closed |
| `commissions_one_at_a_time` | with a second drainer: two at once |
| `agent_turn` | two turns of one session, one with a gated tool, a human, a foreign row, two faults: no egress without a yes, nothing unvetted said, an honest history, every turn ends, and the loop implements `SessionTurns` |
| `messenger` | a message sent twice, three intents of two turns of an agent, the worker, two faults: what is repeated, and when; delivery implements `OutboundDelivery`; every intent is settled |
| `coordination` | two nodes, a request beside the worker, three events, one fault: archived nodes keep their lessons, chains are capped, the worker catches up |
| `kernel_jobs` | two children, a turn that spawns, waits and stops, one that stops and steers, room for one finished job: what is alive is known, what is decided stays, every call returns |
| `coordination_chain`, `coordination_block` | a chain that passes the cap by way of a direct message; a block that a status move drops |

### Bounds

`Task`, `Work`, `Relay`, `Pulse`: ids are used once, so these bound the number of
rows. Two are enough for a race of two rows for one worker or one citizen, and for a
listing that exceeds a retention of one. `Request` and `Thread` are
slots, used again and again: the number at one time is bounded, not the
number. `MaxFaults` bounds failing statements and git commands, `MaxCrashes`
crashes; one of each already meets every step of every handler. `Retention` is 1
where the code has 5, so that the limit is reached with three tasks. `MaxLapses`
bounds the claims that grow stale under a *live* thread; an abandoned claim grows
stale freely. One cancel request is under way at a time; one pulse, as in the
code. When all relay ids are used the insert does nothing: `commissions_race` has
one more than the property allows. `commissions_live` has one citizen (the queues of
citizens are independent of each other once a thread has picked one) and no live claim
that grows stale (with one thread nothing can take it until its pass is over).

`MaxRounds` and `VerifyBudget` are 1 where the code has more: a request of a second round is
another element of `Request`, and each budget is exceeded by one turn. In `messenger` the
brake allows 1 and two turns share, so a third intent would break it. `MaxChainDepth` is 2
where the code has 5, with three events, so the cap is reached and an event is dropped;
`MaxEvents` and `MaxLessons` count the room for calls under way, so that every call
that begins can finish. Two nodes are a friction and the blueprint it blocks, or a node and the target of its
promotion; one request thread beside the worker's is a race on a node, and it serves
the peer of a direct message as well. In `kernel_jobs` `MaxJobs` is 1 where the code has 40,
so two finished jobs exceed it; `Builder` and `Steerer` split what every turn of forge may do between two
turns, and when both ids are used a spawn can only fail. What the bounds could hide is what the
theorems are for.

### Fairness

`delegation_live`: weak fairness of the worker (a thread; Scotty's turn is bounded by
a join with a timeout, the acceptance command by its own), of `Restart` (systemd)
and of every handler, each by a step that does not fail: nothing is ever forced to fail
(an idle worker polls an empty ledger for ever), and nothing is assumed of reviewers,
clients or Scotty.
`DispatchedIsTaken` excepts a worker lost to a failed listing, `ExecutingEnds` a
ledger that refused to record the end.

`commissions_live`: weak fairness of every thread's step (agent turns end), of the
daemon's poll and of an abandoned claim growing old; strong fairness of the daemon
finding a citizen idle, because `busy_fn` looks at the last 90 seconds of
conversation: the assumption is that a conversation pauses again and again.

`agent_turn`: weak fairness of every turn's next step (a thread; model and tool calls have
timeouts, the wait at the gate its deadline); nothing of the human. `messenger`: weak
fairness of the delivery worker, an endless loop that survives its exceptions.
`kernel_jobs`: weak fairness of every call's next step and of every thread of the store; nothing
of the children, which may never end.
`coordination`: weak fairness of the worker's thread, the steps of the store it is in and the timeout of a
direct message (240 seconds); strong fairness of the end of a worker's turn, because its
rounds are bounded in the code (`max_tool_rounds`) and not counted here.

## Proofs

All theorems hold for any number of tasks, requests, citizens, commissions and
threads and any bound on faults, crashes and lapses, from the named assumptions on
constants only.

*Delegation* (`DelegationProofs`). None of the safety properties is
inductive. `IInv` adds, first, four facts. `WorkerOwns`: the row the worker has in hand is
executing, and what it has still to visit is in the state it was listed for; this
holds because handlers only touch reviewed rows. `HandlerKnows`: what a handler has
read or said so far still holds, whoever else acts on the task. It is what makes
"landed means merged" survive a stale write: the writer is past its own merge, and
`main` never shrinks. `ProposedIsCommitted`: a reviewed branch holds the work or is
gone, so that a successful merge of it brings the work in. `Attended`: an executing
row is in the worker's hands. One lemma per conjunct, one step per action. Proved:
`TypeCorrect`, `LandedIsAlwaysMerged`, `MergedWasAlwaysProposed`, `WorkAlwaysSurvives`,
`ReportsAreTrue`, `ExecutingIsAlwaysAttended`, `ProposalsAlwaysStand`.

For `PrunedAlwaysToRetention` the order of the listing matters, and three more facts.
`Ordered`: the finitely many rows are strictly and totally ordered by when they were last
written, because every write makes its row the newest (`TouchOrders`). So the number of rows of a
listing above one of it is an injection, and all but those past the first n are at most
n (`BeyondLeaves`). `HasDirectory`: a run has its directory from its making on.
`Pruning`: the run that just failed is the newest failed row, so the slice spares it, and
with every command through what is listed is removed. What happens beside the run (handlers,
new tasks, aging) writes no failed row and takes away no directory of one (`Aside`).

*Refinement* (`DelegationRefinement`). Nothing is assumed of the number of handlers, of
faults or of crashes. Two more facts are inductive. `DecidesUnopposed`: on a task nobody
contested, what a handler read is still so when it writes, or one of its own kind was faster, and no
handler of the other kind is about to write. `MergedIsRecorded`: work in main is
landed or about to be, unless it was contested or its record was lost. From them
`RejectedIsLiveByRaceOnly`, which says exactly when what `delegation_rejected` shows can come
about, and `DelegationImplementsLifecycle`: every step is a step of `TaskLifecycle` or a
stutter.

*Commissions* (`CommissionsProofs`). `ThreadKnows`: a thread about to complete has its
result on disk. `HandedOut`: a row requeue never touched is in no hands before its
claim, in one thread's after, in none once started. From them `TypeCorrect`,
`DoneAlwaysHasResult`, `RepeatsAreRequeued`, `DoneIsLeftOnlyByRace`. `ClaimsForIdle` (a
citizen someone is about to claim for has nothing running, or was crossed) carries
`SecondOnlyByCrossing`: with any number of drain threads, what
`commissions_one_at_a_time` shows has no other cause. `RelayedAtMostOnce` counts rows, but is proved as an
injectivity, `SourcesDiffer`: two relays of one result mean that two executions of its commission
overlapped. The look for an earlier relay and the insert are apart, and what carries the
fact over the gap is `OneAtWork` (outside the overlapped commissions one thread at
most is past the start of one) and `LookIsFresh` (what such a thread saw at its look is
still so when it inserts).

*Agent loop* (`AgentTurnProofs`). `ApprovedByHuman` and `SenderHasYes` carry
`EgressAlwaysHasYes`: a turn sends only after it read approved, which only a human
writes, and a row overwritten later does not take the yes back. `RoundsLeft` and
`AcceptedLast` carry `GuessIsAlwaysVetted`: a draft is accepted last, so what was
looked up before it stays so. `CompanyIsKnown` and `AloneFindsItsRow` carry
`AssertAlwaysNeedsCompany`. `SentIsAlwaysApproved` needs `OneDecider` and
`SentIsSettled`: a request that was executed is in no other hand. `TurnsImplemented` is the refinement: every step
of the loop is a step of `SessionTurns` or leaves its variables alone.

*Conversations* (`SessionTurnsProofs`). That the abstract specification keeps a history
honest (`HistoryAlwaysHonest`: every turn that was begun has its user's row, every answered
one an answer below it, and none a row more, anywhere) is proved once, from what an append does to
the places of a turn's rows (`AppendedRow`). The other writers must not be turns
(`WritersAssumption`). The loop inherits it by its refinement (`TurnsProofs` instantiates the
module, theorems included): `HistoryIsAlwaysHonest`, which adds `AloneIsAnswered`, the
question and the answer of a turn alone in its session next to each other
(`AloneFindsItsRow`). The messenger inherits it by `MessengerImplementsTurns`: `ThreadsAreHonest`.

*Messenger* (`MessengerProofs`). `RequestPhase` ties a request to its turn;
`BegunIsCached`, `CompanyCrowds` and `LateRequest` carry `RetryAlwaysNeedsFault`: without a
fault a turn that is over has left its response, so a later request finds it.
`MarkingHasRow` carries `DeliveredAlwaysHasRow`. `BrakeInv` counts the
rows together with the turns that passed the brake: `BrakeAlwaysHolds`. `RepeatAlwaysNeedsFault` is a
count, too: an intent whose text is in a conversation while its row is pending and nobody is
about to mark it is `Loose`; a fault makes one intent loose at most (the worker has one in
hand), and showing it again ties it down. So the rows shown and the loose intents together
are no more than the intents shown and the faults (`RepeatsCounted`). `MessengerImplementsTurns`: what a request,
the worker and a crash do to a conversation are steps of `SessionTurns`. `DeliveryImplemented`:
the row of a conversation is a `Show` (the worker's rows are pending, `WorkerPending`), the mark a
`Deliver`, a thread that is gone a `GiveUp`; that nothing shown is given up is
`ShownIsAddressed`, and a row shown again is a stutter.

*Coordination* (`CoordinationProofs`). `BoardInv` (what a call has seen, and may write, is
a row that was there, and if archived with its lesson) carries `LessonsAreKept` and
`ArchiveIsLeftByRaceOnly`; `ChainInv` (depth and rank of an event agree unless a
direct message led to it) carries `ChainsAreCapped`.

*Kernel jobs* (`KernelJobsProofs`). `StopperKnows`: while a job that is being stopped still
runs, the mark is set, its thread will obey it or has, and after the kill its child is
dead. `WaiterKnows`: a thread that has decided has seen its child gone or given it up, and
does not contradict a stop. With `JobPhase` and `CallPhase` (one thread per job, started
once) they carry `LiveIsAlwaysKnown` and `TerminalAlwaysStays`.

Every safety property of the passing runs is stated by a theorem, the action properties and the
refinements included. Only model-checked: the liveness properties (`DispatchedIsTaken`, `ExecutingEnds`, `QueuedCloses`,
`TurnEnds`, `EventsAreSettled`, `PendingIsSettled`, `CallsReturn`), since fairness and ENABLED are out of the
provers' reach. Every MC module extends the module of its inductive invariant, which TLC finds to hold on the
instances of the runs when it is added to their INVARIANTS.

## What the code does not keep

Each of these has a run that ends in a counterexample and an entry in `PROJECT.json`.

1. Two handlers that both read `in_review` both write, and merged work is recorded as
   rejected; so terminal states can be left, too.
2. Two drainers run two commissions of one citizen.
3. A direct message in a turn that an event called for starts a new chain at depth 0: the cap
   does not stop the two agents.
4. Moving a friction to another status drops the blueprints it blocks.

Seen while modelling, present in the models as the code has them, and without a run of
their own:

- The timeout of a turn and a human, or two humans, overwrite each other's decision on a
  request (`approval/store.py:198`), which "once decided, stays decided" (`:195`). What was sent had its
  yes all the same: `EgressNeedsYes`.
- A child that ignores the SIGTERM of its timeout lives on under a job that is `failed`
  (`kernel_jobs.py:243`); a stop finds nothing to stop, and a steer, which "stops then respawns" (`:5-6`),
  starts a second child in the same tree.
- A stop that meets a job between the registration of its thread and `start` raises
  (`kernel_jobs.py:177`), with the job marked and its group sent SIGTERM only.
- Expiry deletes the branch that its docstring says survives (`engine.py:313`, `:340`), so the
  proposal, which is still in review, cannot be merged: the invariant that a task in
  `in_review \cap expired` has its work on a branch fails on two tasks.
- A directory that an abandoned Scotty writes anew is never pruned: git does not know it.
- `scotty_runner.py:174` says a timeout returns a summary; it raises, and the task fails.
- Reject answers `rejected` when the ledger refused to record it (`routes/delegation.py:241`).
- The stale sweep queues the row of a pulse (`pulse.py:84`); cancel fails a row that was claimed
  after it looked, requeue queues one that was closed (`commissions.py:395`, `:330`).
- The request of a turn that died stays pending: `expire_stale` has no caller.
- A retry that finds its message without a response is processed again (`routes/messenger.py:266`),
  although `store.py:139` says the cached value is returned without re-processing.
- A node that is archived by two calls has two lessons and names the later; a status move that had
  read it before brings it back.
- `blueprint_blockers` is read before the status is written: a block added in between does not
  hold.
- A failing `_log_references` leaves a committed call without its event.
- `_delivery_label` (`api_coord.py`) shows an event dropped at the cap, or routed to an agent
  without a loop (scotty), as received.

## Plan

1. `Dispatch`: `dispatch()`'s look for a live duplicate and its insert as two steps of
   concurrent callers, composed with `DelegationStore`; `dispatch_task`, which answers with
   the id of a `recorded` row that nothing runs. Property: one live task per objective.
   Abstract specification: an atomic get-or-create.
2. Pairing of devices: a code pairs one device.
3. `Landing`: the evaluation of evidence as an operator, checked against a reference
   definition over all small inputs.
4. Abstract specifications of the boards (nodes moved atomically, implemented when one thread
   calls the store) and of the commissions queue (where `requeue` and `cancel` are the hard part).
5. Proofs: their refinement, once these are stated.

## Not modelled

Everything whose behaviour is text or model output (cognition, prompts, voice,
inference, act-truth; of the agent loop the control is modelled), clients of external services (mail, web, calendar, social, web
push), read-only views and single-row stores without concurrency of their own (ledgers,
library, knowledge, telemetry, audit), numeric retrieval (lattice), and pure file or
process management (backup, sandbox, supervisor; the last is `Restart` in
`Delegation`). The duplicate check of dispatch, rooms and the heartbeat's
own loop are processes worth a model and have none yet. `PROJECT.json` lists each with its reason.
