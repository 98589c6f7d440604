------------------------ MODULE CoordinationInvariant ------------------------
(***************************************************************************)
(* What makes the invariants of CoordinationProperties inductive.          *)
(***************************************************************************)
EXTENDS CoordinationProperties

\* The lesson that an archived row names was written, and about this node.
IsLearned(n, r) == r.lesson \in 1 .. Len(lessons) /\ lessons[r.lesson] = n

\* A call is about a node that is there, and has seen it there.
CallHasNode ==
    \A t \in Thread :
        /\ call[t].op \notin {"none", "emit"} => call[t].on \in Node /\ Exists(call[t].on)
        /\ call[t].op \notin {"none", "emit", "read"} => call[t].seen.board # "none"

\* What each call may have seen, and may write.
CallIsValid ==
    \A t \in Thread :
        /\ call[t].op \in {"check", "status"} =>
             call[t].seen.status # "Archived" /\ call[t].arg \in Status \ {"Archived"}
        /\ call[t].op = "promote" => call[t].arg \in Board
        /\ call[t].op \in {"read", "block"} => call[t].other \in Node
        /\ call[t].op = "block" /\ call[t].seen.status = "Archived" =>
             IsLearned(call[t].on, call[t].seen)

\* A row that is not there is not Archived.
NewIsOpen == \A n \in Node : Exists(n) \/ ~Archived(n)

BoardInv == CallHasNode /\ CallIsValid /\ NewIsOpen /\ LessonPerArchive

-----------------------------------------------------------------------------
\* A call is made for somebody; on the worker's thread, in a turn.
CallersAreKnown == \A t \in Thread : call[t].op # "none" => who[t] # "nobody"

\* A turn of the worker is of the event in its hand, which was not too deep.
TurnIsOfHand ==
    /\ who[Worker] # "nobody" =>
         hand # 0 /\ cause[Worker] = log[hand].rank + 1 /\ direct[Worker] = log[hand].direct
    /\ hand # 0 /\ (left # {} \/ who[Worker] # "nobody") => log[hand].depth < MaxChainDepth

\* Depth counts the turns that led to an event, direct messages apart.
DepthIsRank ==
    /\ \A e \in 1 .. Len(log) : log[e].direct \/ log[e].depth = log[e].rank
    /\ \A t \in Http : direct[t] \/ cause[t] = 0

ChainInv == CallersAreKnown /\ TurnIsOfHand /\ DepthIsRank

IInv == TypeOK /\ BoardInv /\ ChainInv
=============================================================================
