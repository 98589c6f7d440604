------------------------- MODULE CommissionsInvariant -------------------------
(***************************************************************************)
(* The inductive invariant behind the safety properties of the queue: what *)
(* a thread has in hand at each of its points, who may still have a row    *)
(* that requeue never touched, and who is left to relay one.               *)
(***************************************************************************)
EXTENDS CommissionsProperties

\* A thread knows the row or the citizen its next statement names, and closes
\* a row as done only with its result on disk.
ThreadKnows ==
    \A x \in Thread :
        /\ pc[x] \in Working \cup {"requeue"} => cur[x] \in Commission
        /\ pc[x] = "claim" => who[x] \in Citizen
        /\ pc[x] = "complete" => cur[x] \in outbox

\* The heartbeat closes no row but its own pulse.
HeartKnows == heart \in Pulse \cup {None}

\* A row that was never requeued is handed out once: unclaimed it is in no
\* hands, claimed it waits in those of one thread, and once started in none.
HandedOut ==
    \A c \in Commission \ requeued :
        /\ state[c] \in {"none", "queued"} =>
             c \notin started /\ \A x \in Thread : c \notin held[x]
        /\ c \in started => \A x \in Thread : c \notin held[x]
        /\ \A x, y \in Thread : c \in held[x] /\ c \in held[y] => x = y

\* What is at work on a row that was never overlapped is one thread.
OneAtWork ==
    \A x, y \in Thread :
        /\ pc[x] \in Working /\ pc[y] \in Working
        /\ cur[x] = cur[y] /\ cur[x] \notin overlapped
        => x = y

\* Between its look for an earlier relay and its insert that thread is the only
\* one that could make the answer old.
LookIsFresh ==
    \A x \in Thread, d \in Commission :
        pc[x] = "relayEnqueue" /\ cur[x] \notin overlapped => source[d] # cur[x]

\* No id without a row has a source, and no two rows have the same one.
SourceOfRows == \A d \in Commission : state[d] = "none" => source[d] = None
SourcesDiffer ==
    \A d, e \in Commission :
        source[d] = source[e] /\ source[d] \in Commission \ overlapped => d = e

RelayInv == OneAtWork /\ LookIsFresh /\ SourceOfRows /\ SourcesDiffer

\* While a thread has found a citizen idle and not claimed for it yet, the
\* citizen is idle still and no other thread has, unless they crossed.
ClaimsForIdle ==
    \A x \in Thread :
        pc[x] = "claim" /\ who[x] \notin crossed =>
            /\ \A y \in Thread : Claiming(y, who[x]) => x = y
            /\ \A c \in Commission \ Pulse : owner[c] = who[x] => state[c] # "running"

IInv ==
    /\ TypeOK /\ ThreadKnows /\ HeartKnows /\ HandedOut /\ DoneHasResult /\ RelayInv
    /\ ClaimsForIdle /\ TogetherByCrossingOnly
=============================================================================
