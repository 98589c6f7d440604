------------------------- MODULE AgentTurnInvariant -------------------------
(***************************************************************************)
(* What makes the invariants of AgentTurnProperties inductive.             *)
(***************************************************************************)
EXTENDS AgentTurnProperties

\* The ledger says approved only where a human wrote it, and a turn goes on to
\* execute a call only after that.
ApprovedByHuman == \A q \in Request : verdict[q] = "approved" => q \in yes
SenderHasYes == \A t \in Turn : pc[t] = "send" => Asked(t) \in yes

\* A turn that waits for, or executes, a call is one that may file it, and has
\* rounds left.
RoundsLeft ==
    \A t \in Turn : pc[t] \in Waiting \cup {"dispatch", "send"} =>
        rounds[t] < MaxRounds /\ t \in Egress

\* A draft is accepted last.
AcceptedLast == \A t \in Turn : answer[t] # "empty" => pc[t] \in {"save", "done", "broken"}

\* Turns that overlap in a session are known to.
CompanyIsKnown ==
    \A t, u \in Turn : t # u /\ Under(t) /\ Under(u) /\ sess[t] = sess[u] => t \in crowded

\* A turn alone in its session has its own row at the end until it answers.
AloneFindsItsRow ==
    \A t \in Turn :
        Under(t) /\ t \notin crowded =>
            /\ conv[sess[t]] # <<>>
            /\ conv[sess[t]][Len(conv[sess[t]])] = Turns!UserRow(t)

IInv == /\ TypeOK /\ ApprovedByHuman /\ SenderHasYes /\ EgressNeedsYes
        /\ RoundsLeft /\ AcceptedLast /\ GuessIsVetted
        /\ CompanyIsKnown /\ AloneFindsItsRow /\ AssertNeedsCompany
        /\ AloneIsAnswered

-----------------------------------------------------------------------------
\* With decisions taken one at a time: a request executed is one of an earlier
\* round, approved, and in nobody's hands; so is the one about to be executed;
\* what is in a human's hands is undecided or was expired under them.
OneDecider == \A d, e \in Decider : d = e

Settled(q) == verdict[q] = "approved" /\ \A d \in Decider : deciding[d] # q

SentIsSettled ==
    /\ \A q \in sent : Settled(q) /\ q[2] <= rounds[q[1]]
    /\ \A t \in Turn : pc[t] = "send" => Settled(Asked(t))
    /\ \A d \in Decider : deciding[d] # NoRequest =>
         verdict[deciding[d]] \in {"pending", "expired"}

SInv == IInv /\ SentIsSettled
=============================================================================
