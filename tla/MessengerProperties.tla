------------------------- MODULE MessengerProperties -------------------------
(***************************************************************************)
(* What must hold of the messenger.                                        *)
(***************************************************************************)
EXTENDS Messenger

TypeOK ==
    /\ conv \in [Session -> Seq(Row)] /\ sess \in [Turn -> Session]
    /\ phase \in [Turn -> {"new", "open", "answered", "failed"}]
    /\ of \in [Turn -> Message] /\ at \in [Turn -> At]
    /\ known \subseteq Message /\ cached \subseteq known /\ crowded \subseteq Message
    /\ sharing \in [Sharer -> BOOLEAN]
    /\ queue \in [Intent -> {"none", "pending", "delivered", "failed"}]
    /\ target \in [Intent -> Session \cup {Default, Gone}]
    /\ batch \subseteq Intent /\ hand \in Intent \cup {0}
    /\ place \in Session \cup {Default} /\ marking \in BOOLEAN
    /\ faults \in 0 .. MaxFaults

(* A message that is sent again is processed twice only if its client went *)
(* away or something failed, or if two of its requests were under way at   *)
(* once: once it was answered to the end, its turn stays the only one.     *)
RetryNeedsFault ==
    \A t, u \in Turn :
        /\ t # u /\ of[t] = of[u]
        /\ phase[t] # "new" /\ phase[u] # "new"
        => faults > 0 \/ of[t] \in crowded

(* An intent is marked delivered only when its row is in a conversation.   *)
HasRow(i) == \E s \in Session : \E n \in 1 .. Len(conv[s]) : conv[s][n].by = i
DeliveredHasRow == \A i \in Intent : queue[i] = "delivered" => HasRow(i)

(* An intent's text is shown a second time only for a pass of the worker   *)
(* that failed: every fault repeats at most one row.                       *)
IntentRows(i) ==
    {r \in UNION {{s} \X (1 .. Len(conv[s])) : s \in Session} : conv[r[1]][r[2]].by = i}
Posted == UNION {IntentRows(i) : i \in Intent}
PostedIntents == {i \in Intent : IntentRows(i) # {}}
RepeatNeedsFault == Cardinality(Posted) <= Cardinality(PostedIntents) + faults

(* Delivery keeps the promise of OutboundDelivery: whatever the worker,    *)
(* its failures and crashes do, an intent is delivered only when shown,    *)
(* shown only while it is pending, given up only when it never was, and    *)
(* neither mark is taken back.                                             *)
Delivery == INSTANCE OutboundDelivery WITH state <- queue, shown <- PostedIntents
ImplementsDelivery == Delivery!Spec

(* The brake on an agent that writes too often counts and inserts in two   *)
(* steps: it may be passed by as many as share at once, and no more.       *)
ShareBrake == Cardinality(Queued) < Limit + Cardinality(Sharer) \/ Queued = {}

(* What an agent decided to say is delivered, or fails for its thread.     *)
PendingIsSettled ==
    \A i \in Intent : queue[i] = "pending" ~> queue[i] \in {"delivered", "failed"}
=============================================================================
