----------------------------- MODULE KernelJobs -----------------------------
(***************************************************************************)
(* The coding children of the house (platform/kernel_jobs.py, with the     *)
(* tools run_aider, run_opencode and kernel_child): each is a process      *)
(* group and a thread of the store that waits for it.  Turns of agents     *)
(* spawn children and wait, and list, stop or steer them meanwhile.  The   *)
(* lock is only held around the four collections; a job's own fields are   *)
(* written by its thread and by whoever stops it.                          *)
(***************************************************************************)
EXTENDS Naturals, FiniteSets

CONSTANTS
    Job,        \* ids, each used once
    Caller,     \* turns that use the store at the same time, of forge and aetheria
    Builder,    \* those of forge, who has run_aider and run_opencode, too
    Steerer,    \* bound: those that steer, as all may
    None,       \* no job
    MaxJobs     \* MAX_JOBS

ASSUME JobAssumption ==
    /\ None \notin Job /\ IsFiniteSet(Job) /\ MaxJobs \in Nat
    /\ Builder \subseteq Caller /\ Steerer \subseteq Caller

VARIABLES
    jobs, threads, stopping,    \* the keys of _jobs and _procs, of _threads; _stop
    status, finished,           \* of each job; whether finished_at is set
    proc,                       \* its process group
    waiter, verdict,            \* its thread in _wait, and what that will record
    timedOut,                   \* jobs whose thread has given up
    at, on,                     \* per caller: where its call is, about which job
    follow, joins               \* it steers; it has found a thread to join

storeVars == <<jobs, threads, stopping>>
jobVars == <<status, finished>>
waiterVars == <<waiter, verdict, timedOut>>
callVars == <<at, on, follow, joins>>
vars == <<storeVars, jobVars, proc, waiterVars, callVars>>

Terminal == {"stopped", "failed", "succeeded"}
Status == {"none", "running"} \cup Terminal

\* "held": the group is dead, but a descendant that left it has the pipe open.
Proc == {"none", "live", "held", "gone"}

\* "recorded": known to the store, and not started.
Waiter == {"none", "recorded", "begin", "communicate", "drain", "conclude", "assign", "done"}
Blocked == {"communicate", "drain"}
At == {"idle", "respawn", "popen", "record", "start", "wait", "waiting",
       "mark", "join", "kill", "rejoin", "settle", "stamp"}

Init ==
    /\ jobs = {} /\ threads = {} /\ stopping = {}
    /\ status = [j \in Job |-> "none"] /\ finished = {}
    /\ proc = [j \in Job |-> "none"]
    /\ waiter = [j \in Job |-> "none"] /\ verdict = [j \in Job |-> "none"]
    /\ timedOut = {}
    /\ at = [c \in Caller |-> "idle"] /\ on = [c \in Caller |-> None]
    /\ follow = [c \in Caller |-> FALSE] /\ joins = [c \in Caller |-> FALSE]

Goto(c, there) == at' = [at EXCEPT ![c] = there]
Over(c) ==
    /\ Goto(c, "idle")
    /\ on' = [on EXCEPT ![c] = None]
    /\ follow' = [follow EXCEPT ![c] = FALSE] /\ joins' = [joins EXCEPT ![c] = FALSE]

-----------------------------------------------------------------------------
\* The group is dead; its pipe may be held.
Dead(j) ==
    \E p \in {"held", "gone"} :
        proc' = IF proc[j] = "live" THEN [proc EXCEPT ![j] = p] ELSE proc

\* A child ends by itself or by SIGTERM, which it may ignore: both at any time.
Exit(j) ==
    /\ \/ proc[j] = "live" /\ Dead(j)
       \/ proc[j] = "held" /\ proc' = [proc EXCEPT ![j] = "gone"]
    /\ UNCHANGED <<storeVars, jobVars, waiterVars, callVars>>

-----------------------------------------------------------------------------
\* _gc: what is not running goes when it has no date, when its date is more than
\* an hour ago, which it may be of any job that has one, and when there are too
\* many.  Which of the dated ones go first is left open.
Collect ==
    LET ended == {j \in jobs : status[j] # "running"}
        undated == ended \ finished
    IN  \E dropped \in SUBSET ended :
          /\ undated \subseteq dropped
          /\ dropped = ended \/ Cardinality(dropped) + MaxJobs >= Cardinality(jobs)
          /\ jobs' = jobs \ dropped /\ threads' = threads \ dropped
          /\ stopping' = stopping \ dropped

List(c) ==
    /\ at[c] = "idle" /\ Collect
    /\ UNCHANGED <<jobVars, proc, waiterVars, callVars>>

\* spawn, for run_aider and run_opencode, which wait for the child, ...
Spawn(c) ==
    /\ c \in Builder /\ at[c] = "idle" /\ Collect /\ Goto(c, "popen")
    /\ UNCHANGED <<jobVars, proc, waiterVars, on, follow, joins>>

\* ... unless the launcher cannot be started.
Popen(c, j) ==
    /\ at[c] = "popen" /\ status[j] = "none"
    /\ jobs' = jobs \cup {j}
    /\ status' = [status EXCEPT ![j] = "running"]
    /\ proc' = [proc EXCEPT ![j] = "live"]
    /\ on' = [on EXCEPT ![c] = j] /\ Goto(c, "record")
    /\ UNCHANGED <<threads, stopping, finished, waiterVars, follow, joins>>

PopenFails(c) ==
    /\ at[c] = "popen" /\ Over(c)
    /\ UNCHANGED <<storeVars, jobVars, proc, waiterVars>>

RecordThread(c) ==
    /\ at[c] = "record" /\ Goto(c, "start")
    /\ threads' = threads \cup {on[c]}
    /\ waiter' = [waiter EXCEPT ![on[c]] = "recorded"]
    /\ UNCHANGED <<jobs, stopping, jobVars, proc, verdict, timedOut, on, follow, joins>>

StartThread(c) ==
    /\ at[c] = "start"
    /\ waiter' = [waiter EXCEPT ![on[c]] = "begin"]
    /\ IF follow[c] THEN Over(c) ELSE Goto(c, "wait") /\ UNCHANGED <<on, follow, joins>>
    /\ UNCHANGED <<storeVars, jobVars, proc, verdict, timedOut>>

\* wait, without a timeout; a job that was collected has no thread to join.
Wait(c) ==
    /\ at[c] = "wait"
    /\ IF on[c] \in threads
       THEN Goto(c, "waiting") /\ UNCHANGED <<on, follow, joins>>
       ELSE Over(c)
    /\ UNCHANGED <<storeVars, jobVars, proc, waiterVars>>

WaitEnds(c) ==
    /\ at[c] = "waiting" /\ waiter[on[c]] = "done" /\ Over(c)
    /\ UNCHANGED <<storeVars, jobVars, proc, waiterVars>>

-----------------------------------------------------------------------------
\* stop, and steer, which goes on to spawn: of a job that is not running there
\* is nothing to stop.
Stop(c, j, steer) ==
    /\ at[c] = "idle" /\ j \in jobs /\ (steer => c \in Steerer)
    /\ \/ status[j] = "running" /\ Goto(c, "mark") /\ on' = [on EXCEPT ![c] = j]
       \/ status[j] # "running" /\ steer /\ Goto(c, "respawn") /\ UNCHANGED on
    /\ follow' = [follow EXCEPT ![c] = steer]
    /\ UNCHANGED <<storeVars, jobVars, proc, waiterVars, joins>>

\* The job is marked and its group sent SIGTERM.  To join a thread that is
\* recorded and not started raises.
Mark(c) ==
    /\ at[c] = "mark"
    /\ stopping' = stopping \cup {on[c]}
    /\ IF on[c] \in threads /\ waiter[on[c]] = "recorded"
       THEN Over(c)
       ELSE /\ Goto(c, IF on[c] \in threads THEN "join" ELSE "kill")
            /\ joins' = [joins EXCEPT ![c] = on[c] \in threads]
            /\ UNCHANGED <<on, follow>>
    /\ UNCHANGED <<jobs, threads, jobVars, proc, waiterVars>>

\* The join ends with the thread, or after 8 seconds, the second after 3: more
\* than a thread takes that is not blocked in communicate.
Join(c) ==
    /\ at[c] \in {"join", "rejoin"} /\ waiter[on[c]] \in Blocked \cup {"done"}
    /\ Goto(c, IF at[c] = "join" THEN "kill" ELSE "settle")
    /\ UNCHANGED <<storeVars, jobVars, proc, waiterVars, on, follow, joins>>

\* A mutation: SIGTERM was enough.
KillNothing(c) ==
    /\ at[c] = "kill" /\ Goto(c, "settle")
    /\ UNCHANGED <<storeVars, jobVars, proc, waiterVars, on, follow, joins>>

Kill(c) ==
    /\ at[c] = "kill"
    /\ IF status[on[c]] = "running"
       THEN Dead(on[c]) /\ Goto(c, IF joins[c] THEN "rejoin" ELSE "settle")
       ELSE Goto(c, "settle") /\ UNCHANGED proc
    /\ UNCHANGED <<storeVars, jobVars, waiterVars, on, follow, joins>>

\* What stop returns to, and steer.
StopReturns(c) ==
    IF follow[c]
    THEN Goto(c, "respawn") /\ on' = [on EXCEPT ![c] = None]
         /\ joins' = [joins EXCEPT ![c] = FALSE] /\ UNCHANGED follow
    ELSE Over(c)

\* The follow-up is spawned, and not waited for.
Respawn(c) ==
    /\ at[c] = "respawn" /\ Collect /\ Goto(c, "popen")
    /\ UNCHANGED <<jobVars, proc, waiterVars, on, follow, joins>>

\* A job still running by now is stopped, and dated after that.
Settle(c) ==
    /\ at[c] = "settle"
    /\ IF status[on[c]] = "running"
       THEN /\ status' = [status EXCEPT ![on[c]] = "stopped"]
            /\ Goto(c, "stamp") /\ UNCHANGED <<on, follow, joins>>
       ELSE StopReturns(c) /\ UNCHANGED status
    /\ UNCHANGED <<storeVars, finished, proc, waiterVars>>

Stamp(c) ==
    /\ at[c] = "stamp" /\ StopReturns(c)
    /\ finished' = finished \cup {on[c]}
    /\ UNCHANGED <<storeVars, status, proc, waiterVars>>

-----------------------------------------------------------------------------
\* _wait, the thread of job j.
Continue(j, there) == waiter' = [waiter EXCEPT ![j] = there]

Begin(j) ==
    /\ waiter[j] = "begin"
    /\ Continue(j, IF j \in jobs THEN "communicate" ELSE "done")
    /\ UNCHANGED <<storeVars, jobVars, proc, verdict, timedOut, callVars>>

Communicate(j) ==
    /\ waiter[j] = "communicate" /\ proc[j] = "gone"
    /\ Continue(j, "conclude")
    /\ UNCHANGED <<storeVars, jobVars, proc, verdict, timedOut, callVars>>

\* The child's time is over.  SIGTERM is the last it hears of this thread, ...
Expire(j) ==
    /\ waiter[j] = "communicate" /\ proc[j] # "gone"
    /\ timedOut' = timedOut \cup {j}
    /\ Continue(j, "drain")
    /\ UNCHANGED <<storeVars, jobVars, proc, verdict, callVars>>

\* A mutation: the rest of its output is waited for without a timeout.
DrainForever(j) ==
    /\ waiter[j] = "drain" /\ proc[j] = "gone"
    /\ Continue(j, "conclude")
    /\ UNCHANGED <<storeVars, jobVars, proc, verdict, timedOut, callVars>>

\* ... which gives its output 8 seconds and goes on with or without it.
Drain(j) ==
    /\ waiter[j] = "drain"
    /\ Continue(j, "conclude")
    /\ UNCHANGED <<storeVars, jobVars, proc, verdict, timedOut, callVars>>

\* A mutation: the exit code alone decides.
ConcludeByExit(j) ==
    /\ waiter[j] = "conclude" /\ Continue(j, "assign")
    /\ finished' = finished \cup {j}
    /\ \E v \in {"failed", "succeeded"} : verdict' = [verdict EXCEPT ![j] = v]
    /\ UNCHANGED <<storeVars, status, proc, timedOut, callVars>>

\* The job is dated, and its status decided, ...
Conclude(j) ==
    /\ waiter[j] = "conclude" /\ Continue(j, "assign")
    /\ finished' = finished \cup {j}
    /\ \E v \in IF j \in stopping \/ status[j] = "stopped" THEN {"stopped"}
                ELSE IF j \in timedOut THEN {"failed"} ELSE {"failed", "succeeded"} :
          verdict' = [verdict EXCEPT ![j] = v]
    /\ UNCHANGED <<storeVars, status, proc, timedOut, callVars>>

\* ... and then written.
Assign(j) ==
    /\ waiter[j] = "assign" /\ Continue(j, "done")
    /\ status' = [status EXCEPT ![j] = verdict[j]]
    /\ verdict' = [verdict EXCEPT ![j] = "none"]
    /\ UNCHANGED <<storeVars, finished, proc, timedOut, callVars>>

-----------------------------------------------------------------------------
\* All of a call but its beginning.
Step(c) ==
    \/ (\E j \in Job : Popen(c, j)) \/ PopenFails(c)
    \/ RecordThread(c) \/ StartThread(c) \/ Wait(c) \/ WaitEnds(c)
    \/ Mark(c) \/ Join(c) \/ Kill(c) \/ Settle(c) \/ Stamp(c) \/ Respawn(c)

Waits(j) ==
    \/ Begin(j) \/ Communicate(j) \/ Expire(j) \/ Drain(j) \/ Conclude(j) \/ Assign(j)

Next ==
    \/ \E c \in Caller : List(c) \/ Spawn(c) \/ Step(c)
    \/ \E c \in Caller, j \in Job, steer \in BOOLEAN : Stop(c, j, steer)
    \/ \E j \in Job : Waits(j) \/ Exit(j)

Spec == Init /\ [][Next]_vars

\* Threads run, and every wait of theirs has a timeout or is for such a thread;
\* nothing is assumed of the children.
FairSpec ==
    /\ Spec
    /\ \A c \in Caller : WF_vars(Step(c))
    /\ \A j \in Job : WF_vars(Waits(j))
=============================================================================
