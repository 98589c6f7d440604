------------------------ MODULE KernelJobsInvariant ------------------------
(***************************************************************************)
(* What makes the invariants of KernelJobsProperties inductive.            *)
(***************************************************************************)
EXTENDS KernelJobsProperties

\* What the store, the status and the thread of a job say of one another.
JobPhase ==
    \A j \in Job :
        /\ status[j] = "none" => waiter[j] = "none"
        /\ j \in jobs => status[j] # "none"
        /\ status[j] = "running" => j \in jobs /\ waiter[j] # "done"
        /\ status[j] = "running" /\ waiter[j] # "none" => j \in threads
        /\ status[j] \in {"failed", "succeeded"} => waiter[j] = "done"

\* A thread that does not wait for its child any more has seen it gone, or has
\* given up; what it is about to write, a stop before it has agreed to.
WaiterKnows ==
    \A j \in Job :
        /\ waiter[j] = "drain" => j \in timedOut
        /\ waiter[j] \in {"conclude", "assign"} => proc[j] # "live" \/ j \in timedOut
        /\ waiter[j] = "assign" => verdict[j] \in Terminal
        /\ waiter[j] = "assign" /\ status[j] = "stopped" => verdict[j] = "stopped"

\* A call is about a job that was spawned, and one call at most starts its thread.
CallPhase ==
    /\ \A c \in Caller :
          /\ at[c] \notin {"idle", "respawn", "popen"} => on[c] \in Job
          /\ on[c] \in Job => status[on[c]] # "none"
          /\ at[c] = "record" => waiter[on[c]] = "none"
          /\ at[c] = "start" => waiter[on[c]] = "recorded"
    /\ \A c, d \in Caller :
          at[c] \in {"record", "start"} /\ at[d] \in {"record", "start"} /\ on[c] = on[d] => c = d

\* While a job that is being stopped still runs, its thread will find the mark, or
\* has; after the kill its child is not alive.
StopperKnows ==
    \A c \in Caller :
        at[c] \in {"join", "kill", "rejoin", "settle"} /\ status[on[c]] = "running" =>
            /\ on[c] \in stopping
            /\ at[c] # "join" /\ waiter[on[c]] = "assign" => verdict[on[c]] = "stopped"
            /\ at[c] \in {"rejoin", "settle"} => proc[on[c]] # "live"

IInv == TypeOK /\ JobPhase /\ WaiterKnows /\ CallPhase /\ StopperKnows /\ LiveIsKnown
=============================================================================
