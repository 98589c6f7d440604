----------------------- MODULE CoordinationProperties -----------------------
(***************************************************************************)
(* What must hold of the boards and of the turns that their events run.    *)
(***************************************************************************)
EXTENDS Coordination

Call == [op : Op, on : Node \cup {0}, seen : Row,
         arg : {""} \cup Status \cup Board, other : Node \cup {0}, dests : SUBSET Name]

TypeOK ==
    /\ row \in [Node -> Row] /\ lessons \in Seq(Node)
    /\ who \in [Thread -> Name \cup {"nobody"}] /\ call \in [Thread -> Call]
    /\ cause \in [Thread -> Nat] /\ direct \in [Thread -> BOOLEAN]
    /\ log \in Seq(Event) /\ bus \subseteq 1 .. Len(log) /\ lost \subseteq 1 .. Len(log)
    /\ hand \in 0 .. Len(log) /\ left \subseteq Name
    /\ outcome \in {"nobody", "dropped", "received", "failed"}
    /\ waits \in Thread /\ faults \in 0 .. MaxFaults

(* A node that is Archived names a lesson that was written about it,       *)
(* however its archiving raced other calls: no resolution is lost.         *)
LessonPerArchive ==
    \A n \in Node :
        Archived(n) => row[n].lesson \in 1 .. Len(lessons) /\ lessons[row[n].lesson] = n

(* A node comes back from Archived only by a call that had read it before  *)
(* it was archived: a call that sees it Archived leaves it so.             *)
ArchiveLeftByRaceOnly ==
    [][\A n \in Node : Archived(n) /\ ~Archived(n)' =>
         \E t \in Thread : call[t].on = n /\ call[t].seen.status # "Archived"]_vars

(* A chain of turns, each run for an event of the one before it, is no     *)
(* longer than the cap, as long as no direct message is part of it.        *)
ChainIsCapped ==
    who[Worker] # "nobody" => direct[Worker] \/ cause[Worker] <= MaxChainDepth

(* The worker catches up: what became of every event is noted in the log   *)
(* at last, unless a crash or a failed write takes the outcome away.  No   *)
(* event, no turn and no message to a peer holds it up for good.           *)
Unsettled == {e \in 1 .. Len(log) : log[e].mark = "null"} \ lost
EventsAreSettled == Unsettled # {} ~> Unsettled = {}

-----------------------------------------------------------------------------
(* "Chain depth cap prevents runaway event chains (e.g., agent A triggers  *)
(* B who triggers A again with the same kind)." (coordination/worker.py:5) *)
ChainStops == who[Worker] # "nobody" => cause[Worker] <= MaxChainDepth

(* "The block holds until the Friction is Archived with a resolution       *)
(* lesson." (coordination/tools.py:493)                                    *)
BlockHolds ==
    [][\A f \in Node : ~Archived(f)' => row[f].blocks \subseteq row'[f].blocks]_vars
=============================================================================
