------------------------- MODULE SessionTurnsProofs -------------------------
(***************************************************************************)
(* The promise of SessionTurns keeps histories honest, for any number of   *)
(* turns, sessions and other writers.  What implements the promise has the *)
(* property: the agent loop and the messenger.                             *)
(***************************************************************************)
EXTENDS SessionTurns, TLAPS

TurnsTypeOK ==
    /\ conv \in [Session -> Seq(Row)] /\ sess \in [Turn -> Session]
    /\ phase \in [Turn -> {"new", "open", "answered", "failed"}]

\* What a row appended to one session changes: that session's rows, at its end.
LEMMA AppendedRow ==
    ASSUME conv \in [Session -> Seq(Row)], NEW s \in Session, NEW role, NEW by,
           [role |-> role, by |-> by] \in Row, SaveTurn(s, role, by)
    PROVE  LET end == Len(conv[s]) + 1
           IN  /\ conv' \in [Session -> Seq(Row)]
               /\ Len(conv'[s]) = end /\ conv'[s][end] = [role |-> role, by |-> by]
               /\ \A u \in Session : \A n \in 1 .. Len(conv[u]) : conv'[u][n] = conv[u][n]
               /\ \A u \in Session : \A t :
                    RowsIn(u, t)' = IF u = s /\ t = by THEN RowsIn(u, t) \cup {end}
                                    ELSE RowsIn(u, t)
<1> DEFINE end == Len(conv[s]) + 1
<1>1. conv'[s] = Append(conv[s], [role |-> role, by |-> by])
      /\ \A u \in Session \ {s} : conv'[u] = conv[u]
  BY DEF SaveTurn
<1>2. conv' \in [Session -> Seq(Row)]
  BY DEF SaveTurn
<1>3. Len(conv'[s]) = end /\ conv'[s][end] = [role |-> role, by |-> by]
      /\ \A n \in 1 .. Len(conv[s]) : conv'[s][n] = conv[s][n]
  BY <1>1
<1>4. ASSUME NEW u \in Session, NEW t
      PROVE  RowsIn(u, t)' = IF u = s /\ t = by THEN RowsIn(u, t) \cup {end}
                             ELSE RowsIn(u, t)
  <2>1. CASE u # s
    BY <1>1, <2>1 DEF RowsIn
  <2>2. CASE u = s
    <3>1. 1 .. Len(conv'[s]) = 1 .. Len(conv[s]) \cup {end} /\ Len(conv[s]) \in Nat
      BY <1>3
    <3> QED BY <1>3, <2>2, <3>1 DEF RowsIn
  <2> QED BY <2>1, <2>2
<1> QED BY <1>1, <1>2, <1>3, <1>4

LEMMA TurnsTypeStep == TurnsTypeOK /\ [TurnsNext]_turnsVars => TurnsTypeOK'
<1> SUFFICES ASSUME TurnsTypeOK, [TurnsNext]_turnsVars PROVE TurnsTypeOK'
  OBVIOUS
<1> USE DEF TurnsTypeOK
<1>1. ASSUME NEW t \in Turn, Begin(t) PROVE TurnsTypeOK'
  <2>1. [role |-> "user", by |-> t] \in Row
    BY DEF Row
  <2> QED BY <1>1, <2>1, AppendedRow DEF Begin
<1>2. ASSUME NEW t \in Turn, Answer(t) PROVE TurnsTypeOK'
  <2>1. [role |-> "assistant", by |-> t] \in Row
    BY DEF Row
  <2> QED BY <1>2, <2>1, AppendedRow DEF Answer
<1>3. ASSUME NEW failed \in SUBSET Turn, Fail(failed) PROVE TurnsTypeOK'
  BY <1>3 DEF Fail
<1>4. ASSUME NEW s \in Session, NEW o \in Other, Post(s, o) PROVE TurnsTypeOK'
  <2>1. [role |-> "assistant", by |-> o] \in Row
    BY DEF Row
  <2> QED BY <1>4, <2>1, AppendedRow DEF Post
<1>5. CASE UNCHANGED turnsVars
  BY <1>5 DEF turnsVars
<1> QED BY <1>1, <1>2, <1>3, <1>4, <1>5 DEF TurnsNext

\* A turn whose rows keep their places and what they say keeps its history.
LEMMA HonestStays ==
    ASSUME TurnsTypeOK, NEW t \in Turn, Honest(t), UNCHANGED sess,
           \A u \in Session : RowsIn(u, t)' = RowsIn(u, t),
           \A u \in Session : \A n \in 1 .. Len(conv[u]) :
               n \in 1 .. Len(conv'[u]) /\ conv'[u][n] = conv[u][n],
           phase'[t] = phase[t] \/ (phase[t] = "open" /\ phase'[t] = "failed")
    PROVE  Honest(t)'
<1> DEFINE s == sess[t]
<1>1. s \in Session /\ sess'[t] = s
  BY DEF TurnsTypeOK
<1>2. \A u \in Session \ {s} : RowsIn(u, t)' = {}
  BY DEF Honest
<1>3. phase'[t] = "new" => RowsIn(s, t)' = {}
  BY <1>1 DEF Honest
<1>4. ASSUME phase'[t] \in {"open", "failed"}
      PROVE  \E i \in 1 .. Len(conv'[s]) : RowsIn(s, t)' = {i} /\ conv'[s][i] = UserRow(t)
  BY <1>1, <1>4 DEF Honest
<1>5. ASSUME phase'[t] = "answered"
      PROVE  \E i, j \in 1 .. Len(conv'[s]) :
                /\ RowsIn(s, t)' = {i, j} /\ i < j
                /\ conv'[s][i] = UserRow(t) /\ conv'[s][j] = AnswerRow(t)
  BY <1>1, <1>5 DEF Honest
<1> QED BY <1>1, <1>2, <1>3, <1>4, <1>5 DEF Honest, UserRow, AnswerRow

LEMMA HonestStep == TurnsTypeOK /\ HonestHistory /\ [TurnsNext]_turnsVars => HonestHistory'
<1> SUFFICES ASSUME TurnsTypeOK, HonestHistory, [TurnsNext]_turnsVars, NEW t \in Turn
             PROVE  Honest(t)'
  BY DEF HonestHistory
<1>1. Honest(t) /\ sess[t] \in Session /\ conv \in [Session -> Seq(Row)]
  BY DEF HonestHistory, TurnsTypeOK
<1>2. ASSUME NEW s \in Session, NEW role, NEW by, [role |-> role, by |-> by] \in Row,
             SaveTurn(s, role, by), by # t, UNCHANGED sess, phase'[t] = phase[t]
      PROVE  Honest(t)'
  <2> DEFINE end == Len(conv[s]) + 1
  <2>1. /\ conv' \in [Session -> Seq(Row)] /\ Len(conv'[s]) = end
        /\ \A u \in Session : \A n \in 1 .. Len(conv[u]) : conv'[u][n] = conv[u][n]
        /\ \A u \in Session : RowsIn(u, t)' = RowsIn(u, t)
    BY <1>1, <1>2, AppendedRow
  <2>2. \A u \in Session : u # s => conv'[u] = conv[u]
    BY <1>1, <1>2 DEF SaveTurn
  <2>3. \A u \in Session : \A n \in 1 .. Len(conv[u]) : n \in 1 .. Len(conv'[u])
    <3>1. \A n \in 1 .. Len(conv[s]) : n \in 1 .. Len(conv'[s])
      BY <1>1, <2>1
    <3> QED BY <2>2, <3>1
  <2> QED BY <1>1, <1>2, <2>1, <2>3, HonestStays
<1>3. ASSUME NEW u \in Turn, Begin(u) PROVE Honest(t)'
  <2>1. [role |-> "user", by |-> u] \in Row
    BY DEF Row
  <2>2. CASE u # t
    BY <1>2, <1>3, <2>1, <2>2 DEF Begin, TurnsTypeOK
  <2>3. CASE u = t
    <3> DEFINE s == sess[t]
               end == Len(conv[s]) + 1
    <3>1. /\ end \in 1 .. Len(conv'[s]) /\ conv'[s][end] = UserRow(t)
          /\ \A v \in Session : RowsIn(v, t)' = IF v = s THEN RowsIn(v, t) \cup {end}
                                                ELSE RowsIn(v, t)
      <4>1. SaveTurn(s, "user", t)
        BY <1>3, <2>3 DEF Begin
      <4>2. Len(conv[s]) \in Nat
        BY <1>1
      <4> QED BY <1>1, <2>1, <2>3, <4>1, <4>2, AppendedRow DEF UserRow
    <3>2. phase'[t] = "open" /\ sess'[t] = s /\ phase[t] = "new"
      BY <1>3, <2>3 DEF Begin, TurnsTypeOK
    <3>3. RowsIn(s, t)' = {end} /\ \A v \in Session \ {s} : RowsIn(v, t)' = {}
      BY <1>1, <3>1, <3>2 DEF Honest
    <3> QED BY <3>1, <3>2, <3>3 DEF Honest, UserRow
  <2> QED BY <2>2, <2>3
<1>4. ASSUME NEW u \in Turn, Answer(u) PROVE Honest(t)'
  <2>1. [role |-> "assistant", by |-> u] \in Row
    BY DEF Row
  <2>2. CASE u # t
    BY <1>2, <1>4, <2>1, <2>2 DEF Answer, TurnsTypeOK
  <2>3. CASE u = t
    <3> DEFINE s == sess[t]
               end == Len(conv[s]) + 1
    <3>1. /\ end \in 1 .. Len(conv'[s]) /\ conv'[s][end] = AnswerRow(t)
          /\ \A n \in 1 .. Len(conv[s]) : conv'[s][n] = conv[s][n]
          /\ \A v \in Session : RowsIn(v, t)' = IF v = s THEN RowsIn(v, t) \cup {end}
                                                ELSE RowsIn(v, t)
          /\ Len(conv[s]) \in Nat /\ Len(conv'[s]) = end
      <4>1. SaveTurn(s, "assistant", t)
        BY <1>4, <2>3 DEF Answer
      <4>2. Len(conv[s]) \in Nat
        BY <1>1
      <4>3. Len(conv'[s]) = end /\ conv'[s][end] = AnswerRow(t)
        BY <1>1, <2>1, <2>3, <4>1, AppendedRow DEF AnswerRow
      <4>4. \A n \in 1 .. Len(conv[s]) : conv'[s][n] = conv[s][n]
        BY <1>1, <2>1, <2>3, <4>1, AppendedRow
      <4>5. \A v \in Session : RowsIn(v, t)' = IF v = s THEN RowsIn(v, t) \cup {end}
                                               ELSE RowsIn(v, t)
        BY <1>1, <2>1, <2>3, <4>1, AppendedRow
      <4> QED BY <4>2, <4>3, <4>4, <4>5
    <3>2. phase'[t] = "answered" /\ sess'[t] = s /\ phase[t] = "open"
      BY <1>4, <2>3 DEF Answer, TurnsTypeOK
    <3>3. PICK i \in 1 .. Len(conv[s]) : RowsIn(s, t) = {i} /\ conv[s][i] = UserRow(t)
      BY <1>1, <3>2 DEF Honest
    <3>4. RowsIn(s, t)' = {i, end} /\ \A v \in Session \ {s} : RowsIn(v, t)' = {}
      <4>1. \A v \in Session \ {s} : RowsIn(v, t) = {}
        BY <1>1 DEF Honest
      <4>2. RowsIn(s, t)' = RowsIn(s, t) \cup {end}
        BY <1>1, <3>1, <3>2
      <4> QED BY <3>1, <3>3, <4>1, <4>2
    <3>5. i \in 1 .. Len(conv'[s]) /\ i < end /\ conv'[s][i] = UserRow(t)
      BY <3>1, <3>3
    <3> QED BY <3>1, <3>2, <3>4, <3>5 DEF Honest, UserRow, AnswerRow
  <2> QED BY <2>2, <2>3
<1>5. ASSUME NEW failed \in SUBSET Turn, Fail(failed) PROVE Honest(t)'
  <2>1. UNCHANGED <<conv, sess>>
        /\ (phase'[t] = phase[t] \/ (phase[t] = "open" /\ phase'[t] = "failed"))
    BY <1>5 DEF Fail
  <2>2. \A u \in Session : RowsIn(u, t)' = RowsIn(u, t)
    BY <2>1 DEF RowsIn
  <2> QED BY <1>1, <2>1, <2>2, HonestStays
<1>6. ASSUME NEW s \in Session, NEW o \in Other, Post(s, o) PROVE Honest(t)'
  <2>1. [role |-> "assistant", by |-> o] \in Row /\ o # t
    BY WritersAssumption DEF Row
  <2> QED BY <1>2, <1>6, <2>1 DEF Post
<1>7. CASE UNCHANGED turnsVars
  <2>1. \A u \in Session : RowsIn(u, t)' = RowsIn(u, t)
    BY <1>7 DEF RowsIn, turnsVars
  <2> QED BY <1>1, <1>7, <2>1, HonestStays DEF turnsVars
<1> QED BY <1>3, <1>4, <1>5, <1>6, <1>7 DEF TurnsNext

(* Whatever keeps the promise of SessionTurns leaves histories in which    *)
(* every turn stands as it went.                                           *)
THEOREM HistoryAlwaysHonest == TurnsSpec => []HonestHistory
<1>1. TurnsInit => TurnsTypeOK /\ HonestHistory
  <2> SUFFICES ASSUME TurnsInit PROVE TurnsTypeOK /\ HonestHistory
    OBVIOUS
  <2>1. TurnsTypeOK
    BY DEF TurnsInit, TurnsTypeOK
  <2>2. \A s \in Session, t \in Turn : RowsIn(s, t) = {}
    <3>1. \A s \in Session : 1 .. Len(conv[s]) = {}
      BY DEF TurnsInit
    <3> QED BY <3>1 DEF RowsIn
  <2>3. ASSUME NEW t \in Turn PROVE Honest(t)
    <3>1. phase[t] = "new" /\ sess[t] \in Session
      BY DEF TurnsInit
    <3> QED BY <2>2, <3>1 DEF Honest
  <2> QED BY <2>1, <2>3 DEF HonestHistory
<1>2. TurnsTypeOK /\ HonestHistory /\ [TurnsNext]_turnsVars => (TurnsTypeOK /\ HonestHistory)'
  BY TurnsTypeStep, HonestStep
<1> QED BY <1>1, <1>2, PTL DEF TurnsSpec
=============================================================================
