------------------------- MODULE MessengerInvariant -------------------------
(***************************************************************************)
(* What makes the invariants of MessengerProperties inductive.             *)
(***************************************************************************)
EXTENDS MessengerProperties

\* A request and its turn keep step, and a turn has a row of its message.
RequestPhase ==
    \A t \in Turn :
        /\ at[t] \in {"unsent", "insert", "admitted"} => phase[t] = "new"
        /\ at[t] = "running" => phase[t] = "open"
        /\ at[t] = "answered" => phase[t] = "answered"
        /\ at[t] \in {"admitted", "running", "answered"} => of[t] \in known

\* Without a fault, a turn that was begun is under way or has its response.
BegunIsCached ==
    \A t \in Turn :
        phase[t] # "new" /\ faults = 0 => at[t] \in Active \/ of[t] \in cached

\* Two requests under way for a message are known to be.
CompanyCrowds ==
    \A t, u \in Turn :
        t # u /\ of[t] = of[u] /\ at[t] \in Active /\ at[u] \in Active => of[t] \in crowded

\* So is a request under way beside a turn of its message, without a fault.
LateRequest ==
    \A t, u \in Turn :
        t # u /\ of[t] = of[u] /\ phase[t] # "new" /\ at[u] \in Active =>
            faults > 0 \/ of[t] \in crowded

\* What the worker delivers has a session, and its row when it is to be marked.
MarkingHasRow ==
    /\ hand # 0 => place \in Session
    /\ marking => hand \in Intent /\ HasRow(hand)

MInv == /\ TypeOK /\ RequestPhase /\ BegunIsCached /\ CompanyCrowds /\ LateRequest
        /\ RetryNeedsFault /\ MarkingHasRow /\ DeliveredHasRow

-----------------------------------------------------------------------------
\* The worker holds rows of the queue.  Every agent that passed the brake adds
\* one, or none.
Passing == {s \in Sharer : sharing[s]}
BrakeInv ==
    /\ batch \subseteq Queued /\ (hand # 0 => hand \in Queued)
    /\ IsFiniteSet(Queued)
    /\ \/ Queued = {} /\ Passing = {}
       \/ Cardinality(Queued) + Cardinality(Passing) < Limit + Cardinality(Sharer)

-----------------------------------------------------------------------------
\* The worker's rows are pending; its next one is no longer in its batch.
WorkerPending ==
    /\ \A i \in batch : queue[i] = "pending"
    /\ hand # 0 => queue[hand] = "pending"
    /\ hand \notin batch

\* Only what was put on the queue gets into a conversation.
PostedIsQueued == PostedIntents \subseteq Queued

\* Shown, and to be shown again: a pass that failed left the row pending.  Each
\* fault makes one intent loose at most, and showing it again ties it down.
Loose == {i \in PostedIntents : queue[i] = "pending" /\ ~(marking /\ hand = i)}
RepeatsCounted ==
    /\ IsFiniteSet(Posted)
    /\ Cardinality(Posted) + Cardinality(Loose) <= Cardinality(PostedIntents) + faults

RepeatInv == WorkerPending /\ PostedIsQueued /\ RepeatsCounted

\* What is shown, or about to be, has a thread to be shown in.
ShownIsAddressed ==
    /\ \A i \in PostedIntents : target[i] # Gone
    /\ hand # 0 => target[hand] # Gone

IInv == MInv /\ BrakeInv /\ RepeatInv /\ ShownIsAddressed
=============================================================================
