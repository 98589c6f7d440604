---------------------------- MODULE SessionTurns ----------------------------
(***************************************************************************)
(* What the house promises of a conversation (memory/conversation_store.py *)
(* and its writers): every turn leaves its user's row, then either one     *)
(* answer, saved when the turn ends, or nothing, however it failed; other  *)
(* writers add rows of their own in between.  Nothing is ever taken back.  *)
(* AgentTurn implements this specification, and so does Messenger, which   *)
(* is built on it.                                                         *)
(***************************************************************************)
EXTENDS Naturals, Sequences

CONSTANTS
    Turn, Session,
    Other       \* writers of a session that are not turns

ASSUME WritersAssumption == Turn \cap Other = {}

VARIABLES
    conv,       \* [Session -> its rows, oldest first]
    sess,       \* [Turn -> the session it belongs to]
    phase       \* [Turn -> new, open, answered, failed]

turnsVars == <<conv, sess, phase>>

\* The rows of a session.  A row of role system counts as an assistant's.
Row == [role : {"user", "assistant"}, by : Turn] \cup [role : {"assistant"}, by : Other]

SaveTurn(s, role, by) ==
    conv' = [conv EXCEPT ![s] = Append(@, [role |-> role, by |-> by])]

TurnsInit ==
    /\ conv = [s \in Session |-> <<>>]
    /\ sess \in [Turn -> Session]
    /\ phase = [t \in Turn |-> "new"]

Begin(t) ==
    /\ phase[t] = "new"
    /\ SaveTurn(sess[t], "user", t)
    /\ phase' = [phase EXCEPT ![t] = "open"]
    /\ UNCHANGED sess

Answer(t) ==
    /\ phase[t] = "open"
    /\ SaveTurn(sess[t], "assistant", t)
    /\ phase' = [phase EXCEPT ![t] = "answered"]
    /\ UNCHANGED sess

\* Turns that fail, alone or all at once, leave the history alone.
Fail(failed) ==
    /\ \A t \in failed : phase[t] = "open"
    /\ phase' = [t \in Turn |-> IF t \in failed THEN "failed" ELSE phase[t]]
    /\ UNCHANGED <<conv, sess>>

Post(s, o) == SaveTurn(s, "assistant", o) /\ UNCHANGED <<sess, phase>>

TurnsNext ==
    \/ \E t \in Turn : Begin(t) \/ Answer(t)
    \/ \E failed \in SUBSET Turn : Fail(failed)
    \/ \E s \in Session, o \in Other : Post(s, o)

TurnsSpec == TurnsInit /\ [][TurnsNext]_turnsVars

-----------------------------------------------------------------------------
\* Where a turn's rows stand in a session, and what they say.
RowsIn(s, t) == {n \in 1 .. Len(conv[s]) : conv[s][n].by = t}
UserRow(t) == [role |-> "user", by |-> t]
AnswerRow(t) == [role |-> "assistant", by |-> t]

\* What a turn has left in the sessions is what became of it.
Honest(t) ==
    LET rows == conv[sess[t]]
        places == RowsIn(sess[t], t)
    IN  /\ \A s \in Session \ {sess[t]} : RowsIn(s, t) = {}
        /\ phase[t] = "new" => places = {}
        /\ phase[t] \in {"open", "failed"} =>
             \E i \in 1 .. Len(rows) : places = {i} /\ rows[i] = UserRow(t)
        /\ phase[t] = "answered" =>
             \E i, j \in 1 .. Len(rows) :
                /\ places = {i, j} /\ i < j
                /\ rows[i] = UserRow(t) /\ rows[j] = AnswerRow(t)

(* The history of a session is what happened in it: a turn that was begun  *)
(* has left its user's row, one that was answered that row and an answer   *)
(* below it, and no turn has left a row more, in its session or in others. *)
HonestHistory == \A t \in Turn : Honest(t)
=============================================================================
