------------------------ MODULE AgentTurnProperties ------------------------
(***************************************************************************)
(* What must hold of the turns of the agent loop and of the approval gate. *)
(***************************************************************************)
EXTENDS AgentTurn

TypeOK ==
    /\ GateTypeOK
    /\ conv \in [Session -> Seq(Row)]
    /\ pc \in [Turn -> PC]
    /\ sess \in [Turn -> Session]
    /\ rounds \in [Turn -> 0 .. MaxRounds] /\ budget \in [Turn -> 0 .. VerifyBudget]
    /\ named \in [Turn -> BOOLEAN] /\ answer \in [Turn -> Draft]
    /\ sent \subseteq Request
    /\ waived \subseteq Turn /\ crowded \subseteq Turn
    /\ posts \in 0 .. MaxPosts /\ faults \in 0 .. MaxFaults

(* No egress call is executed unless a human approved its very request:    *)
(* neither a timeout, a crash nor a lost race counts as a yes.             *)
EgressNeedsYes == sent \subseteq yes

(* With decisions taken one at a time, the ledger still says approved of   *)
(* every call that was executed: the turn's own expiry, the only other     *)
(* writer, never overwrites the yes its turn acted on.                     *)
SentIsApproved == \A q \in sent : verdict[q] = "approved"

(* A claim that the gate finds risky becomes the answer of a governed      *)
(* agent, shown on the stream and then saved, only when a look-up was      *)
(* asked for, the tool budget was spent, or the gate itself failed.        *)
GuessIsVetted ==
    \A t \in Turn :
        sess[t] \in Owner /\ answer[t] = "guess" =>
            named[t] \/ rounds[t] = MaxRounds \/ t \in waived

(* The loop implements the promise of SessionTurns: whatever the model,    *)
(* the tools, the human and the process do, a turn is at most answered     *)
(* once, after its user's row, and only if it did not fail.                *)
Phase(t) == CASE pc[t] = "new" -> "new"
              [] pc[t] = "done" -> "answered"
              [] Under(t) -> "open"
              [] OTHER -> "failed"
Turns == INSTANCE SessionTurns WITH Other <- {"posted"}, phase <- [t \in Turn |-> Phase(t)]
ImplementsTurns == Turns!TurnsSpec

(* The history of a session is what happened: a turn has left its user's   *)
(* row, an answer after it if and only if it was completed, and no other   *)
(* row between them when nobody else was writing to the session.           *)
AloneIsAnswered ==
    \A t \in Turn \ crowded :
        pc[t] = "done" =>
            \E i \in 1 .. Len(conv[sess[t]]) - 1 :
                /\ conv[sess[t]][i] = Turns!UserRow(t)
                /\ conv[sess[t]][i + 1] = Turns!AnswerRow(t)
HistoryIsHonest == Turns!HonestHistory /\ AloneIsAnswered

(* The assertion at loop.py:1291 (and its twin in the stream) fails only   *)
(* for a turn that another writer of its session overlapped.               *)
AssertNeedsCompany == \A t \in Turn : pc[t] = "asserted" => t \in crowded

(* Every turn ends, by an answer, a loud failure or the end of the         *)
(* process; a human who does not decide holds it up to the deadline only.  *)
TurnEnds == \A t \in Turn : Under(t) ~> ~Under(t)
=============================================================================
