------------------------ MODULE CommissionsProperties ------------------------
(***************************************************************************)
(* What the commissions queue must get right.                              *)
(***************************************************************************)
EXTENDS Commissions

\* "Success without a file is forbidden": a row that says done has its result
\* in the outbox, whichever of the threads that ran it closed it.  A pulse has
\* none; its evidence is the pulse itself.
DoneHasResult ==
    \A c \in Commission : state[c] = "done" /\ c \notin Pulse => c \in outbox

\* The claim hands a row to one thread: nothing is executed a second time but
\* what requeue put back.
RepeatsRequeued ==
    \A x \in Thread, c \in started :
        pc[x] = "between" /\ pc'[x] = "process" /\ cur'[x] = c => c \in requeued

RepeatedWasRequeued == [][RepeatsRequeued]_vars

\* A finished or failed commission is summarized for Jon once, however often
\* it was executed, unless two threads were at work on it at the same time.
RelayedOnce ==
    \A c \in Commission \ overlapped :
        Cardinality({d \in Row : source[d] = c}) <= 1

\* A result on disk is never recorded as a failure by a worker: once done, a
\* row leaves done only because requeue or cancel had read it before.
LeavesDoneByRace ==
    \A c \in Commission :
        state[c] = "done" /\ state'[c] # "done" =>
            \/ \E x \in Thread : pc[x] = "requeue" /\ cur[x] = c /\ state'[c] = "queued"
            \/ cancelling = c /\ state'[c] = "failed"

DoneIsLeftByRaceOnly == [][LeavesDoneByRace]_vars

\* Two commissions of one citizen are in flight (pulses are recorded beside
\* them).
Together(c, d) ==
    /\ c # d /\ c \notin Pulse /\ d \notin Pulse
    /\ state[c] = "running" /\ state[d] = "running" /\ owner[c] = owner[d]

\* They are only when two threads had found the citizen idle before either
\* claimed: requeues of live work, late closes, aborted passes and crashes
\* never bring it about, and once the citizen is idle again it is over.
TogetherByCrossingOnly ==
    \A c, d \in Commission : Together(c, d) => owner[c] \in crossed

\* One at a time per citizen, as the runtime says of itself.
OnePerCitizen == \A c, d \in Commission : ~ Together(c, d)

-----------------------------------------------------------------------------
(* Liveness, under Fairness.                                                 *)

\* A commission that is put on a queue is closed, crashes included.
QueuedCloses ==
    \A c \in Commission : state[c] = "queued" ~> state[c] \in {"done", "failed"}
=============================================================================
