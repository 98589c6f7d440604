------------------------------ MODULE AgentTurn ------------------------------
(***************************************************************************)
(* Turns of the agent loop (agents/loop.py): process_message for JSON      *)
(* clients, commissions and daemons, process_message_stream for SSE        *)
(* clients.  A turn saves the user's row, loads the history, and then      *)
(* alternates between the model and the tools it asks for, until a draft   *)
(* passes the verification gate and is saved, or the turn fails.  A tool   *)
(* that leaves the house waits for a human at the approval gate.           *)
(*                                                                         *)
(* Flask serves every request on a thread of its own, and nothing keeps    *)
(* two turns of one session apart.  A step of a turn is one connection to  *)
(* a store, one model call, or one tool call.  A streaming turn runs in a  *)
(* thread that outlives its client.  The messenger's delivery worker, the  *)
(* rooms and the bridges write rows into the same sessions (Post).         *)
(***************************************************************************)
EXTENDS Integers, Sequences, ApprovalGate

CONSTANTS
    Turn, Session,
    Owner,          \* sessions of an agent the verification gate governs
    Egress,         \* turns whose agent owns a gated tool
    MaxRounds,      \* max_tool_rounds
    VerifyBudget,   \* forced_verify_budget
    MaxPosts,       \* bound: rows other parts of the house write to a session
    MaxFaults       \* bound: failures of turns and gates, and crashes

\* A round asks for leave at most once: its calls are a set of kinds.
ASSUME RequestAssumption == Request = Egress \X (1 .. MaxRounds)
ASSUME LoopAssumption ==
    /\ Owner \subseteq Session /\ Egress \subseteq Turn /\ "posted" \notin Turn
    /\ MaxRounds \in Nat \ {0} /\ VerifyBudget \in Nat
    /\ MaxPosts \in Nat /\ MaxFaults \in Nat

VARIABLES
    conv,       \* [Session -> its rows, oldest first]
    pc, sess,   \* per turn: where it is, its session
    rounds, budget, named,          \* per turn: the locals of the loop
    answer,     \* per turn: the draft accepted; a stream has shown it, too
    sent,       \* history: gated calls that were executed
    waived,     \* history: turns whose verification gate raised
    crowded,    \* history: turns another writer of their session overlapped
    posts, faults

turnVars == <<pc, sess, rounds, budget, named, answer>>
historyVars == <<sent, waived, crowded>>
boundVars == <<posts, faults>>
vars == <<gateVars, conv, turnVars, historyVars, boundVars>>

\* What the model may draft: nothing, a claim that the gate finds risky when
\* nothing was looked up, anything else.
Draft == {"empty", "guess", "plain"}

Row == [role : {"user", "assistant"}, by : Turn]
       \cup [role : {"assistant"}, by : {"posted"}]

Ended == {"done", "broken", "asserted", "exhausted", "silent"}
Waiting == {"wait", "expire"}
Running == {"load", "ask", "dispatch", "send", "save"} \cup Waiting
PC == {"new"} \cup Running \cup Ended

Under(t) == pc[t] \in Running
Asked(t) == <<t, rounds[t] + 1>>
Goto(t, there) == pc' = [pc EXCEPT ![t] = there]
SaveTurn(s, role, by) ==
    conv' = [conv EXCEPT ![s] = Append(@, [role |-> role, by |-> by])]

Init ==
    /\ GateInit
    /\ conv = [s \in Session |-> <<>>]
    /\ pc = [t \in Turn |-> "new"]
    /\ sess \in [Turn -> Session]
    /\ rounds = [t \in Turn |-> 0] /\ budget = [t \in Turn |-> VerifyBudget]
    /\ named = [t \in Turn |-> FALSE]
    /\ answer = [t \in Turn |-> "empty"]
    /\ sent = {} /\ waived = {} /\ crowded = {}
    /\ posts = 0 /\ faults = 0

-----------------------------------------------------------------------------
\* The user's row is saved before anything can fail, and stays.
Receive(t) ==
    /\ pc[t] = "new"
    /\ SaveTurn(sess[t], "user", t)
    /\ LET others == {u \in Turn : Under(u) /\ sess[u] = sess[t]}
       IN  crowded' = IF others = {} THEN crowded ELSE crowded \cup others \cup {t}
    /\ Goto(t, "load")
    /\ UNCHANGED <<gateVars, sess, rounds, budget, named, answer,
                   sent, waived, boundVars>>

\* A mutation: users and assistants must take turns.
LoadAlternating(t) ==
    /\ pc[t] = "load"
    /\ LET rows == conv[sess[t]] n == Len(rows)
       IN  Goto(t, IF rows[n].role = "user" /\ (n > 1 => rows[n - 1].role # "user")
                   THEN "ask" ELSE "asserted")
    /\ UNCHANGED <<gateVars, conv, sess, rounds, budget, named, answer, historyVars,
                   boundVars>>

\* The history is read on another connection, and its last row must be a
\* user's for the temporal context to be spliced in.
Load(t) ==
    /\ pc[t] = "load"
    /\ Goto(t, IF conv[sess[t]][Len(conv[sess[t]])].role = "user"
               THEN "ask" ELSE "asserted")
    /\ UNCHANGED <<gateVars, conv, sess, rounds, budget, named,
                   answer, historyVars, boundVars>>

EndRound(t, there) ==
    /\ rounds' = [rounds EXCEPT ![t] = @ + 1]
    /\ Goto(t, there)

\* A mutation: the cap is not looked at.
AskToolsUncapped(t) ==
    /\ pc[t] = "ask"
    /\ named' = [named EXCEPT ![t] = TRUE]
    /\ EndRound(t, "ask")
    /\ UNCHANGED <<gateVars, conv, sess, budget, answer, historyVars, boundVars>>

\* A reply with tool calls, within the budget: their names enter the ledger
\* of the gate before they are dispatched.  Only a call that leaves the house
\* touches the state modelled here.
AskTools(t) ==
    /\ pc[t] = "ask" /\ rounds[t] < MaxRounds
    /\ \E lookUp \in BOOLEAN : named' = [named EXCEPT ![t] = @ \/ lookUp]
    /\ \/ t \in Egress /\ Goto(t, "dispatch") /\ UNCHANGED rounds
       \/ EndRound(t, "ask")
    /\ UNCHANGED <<gateVars, conv, sess, budget, answer, historyVars, boundVars>>

\* The draft is the answer.  A stream shows it before its row is saved.
Accept(t, draft) ==
    /\ answer' = [answer EXCEPT ![t] = draft]
    /\ Goto(t, "save")

\* What takes the place of a draft that may not be said; the mutation keeps it.
FloorKeepsDraft(draft) == draft
HonestFloor(draft) == "plain"

\* The reply after the last round: made without tools, past the gate.
AskForced(t) ==
    /\ pc[t] = "ask" /\ rounds[t] = MaxRounds
    /\ \E draft \in Draft :
         IF draft = "empty"
         THEN Goto(t, "exhausted") /\ UNCHANGED answer
         ELSE Accept(t, draft)
    /\ UNCHANGED <<gateVars, conv, sess, rounds, budget, named,
                   sent, waived, crowded, boundVars>>

\* A reply without tools before that.  Of a governed agent it passes the gate:
\* a risky draft is held while there is budget, then replaced by the honest
\* floor; a gate that raises lets it through.
AskFinal(t) ==
    /\ pc[t] = "ask" /\ rounds[t] < MaxRounds
    /\ \E draft \in Draft :
         LET governed == sess[t] \in Owner /\ draft # "empty"
             risky == governed /\ draft = "guess" /\ ~named[t]
         IN  \/ /\ draft = "empty"
                /\ Goto(t, "silent")
                /\ UNCHANGED <<budget, answer, waived, faults>>
             \/ /\ draft # "empty" /\ ~risky
                /\ Accept(t, draft)
                /\ UNCHANGED <<budget, waived, faults>>
             \/ /\ governed /\ faults < MaxFaults
                /\ Accept(t, draft)
                /\ waived' = waived \cup {t}
                /\ faults' = faults + 1
                /\ UNCHANGED budget
             \/ /\ risky /\ budget[t] > 0
                /\ budget' = [budget EXCEPT ![t] = @ - 1]
                /\ UNCHANGED <<pc, answer, waived, faults>>
             \/ /\ risky /\ budget[t] = 0
                /\ Accept(t, HonestFloor(draft))
                /\ UNCHANGED <<budget, waived, faults>>
    /\ UNCHANGED <<gateVars, conv, sess, rounds, named, sent, crowded, posts>>

-----------------------------------------------------------------------------
\* An egress call files its request and blocks the turn.
File(t) ==
    /\ pc[t] = "dispatch"
    /\ Create(Asked(t))
    /\ Goto(t, "wait")
    /\ UNCHANGED <<conv, sess, rounds, budget, named, answer, historyVars, boundVars>>

\* A mutation: decided is taken for approved.
PollDecided(t) ==
    /\ pc[t] = "wait" /\ verdict[Asked(t)] \in Terminal
    /\ Goto(t, "send")
    /\ UNCHANGED <<gateVars, conv, sess, rounds, budget, named, answer, historyVars,
                   boundVars>>

\* wait: a poll finds the row decided.  Anything but approved is a denial,
\* and a result of the round like any other.
Poll(t) ==
    /\ pc[t] = "wait" /\ verdict[Asked(t)] \in Terminal
    /\ IF verdict[Asked(t)] = "approved"
       THEN Goto(t, "send") /\ UNCHANGED rounds
       ELSE EndRound(t, "ask")
    /\ UNCHANGED <<gateVars, conv, sess, budget, named, answer, historyVars, boundVars>>

\* A mutation: the deadline is looked at once the row is decided.
TimeOutLate(t) ==
    /\ pc[t] = "wait" /\ verdict[Asked(t)] = "expired"
    /\ Goto(t, "expire")
    /\ UNCHANGED <<gateVars, conv, sess, rounds, budget, named, answer,
                   historyVars, boundVars>>

\* wait: the deadline has passed, and set_state reads the row as pending ...
TimeOut(t) ==
    /\ pc[t] = "wait" /\ verdict[Asked(t)] = "pending"
    /\ Goto(t, "expire")
    /\ UNCHANGED <<gateVars, conv, sess, rounds, budget, named, answer,
                   historyVars, boundVars>>

\* ... and writes expired over whatever the row has become.
Expire(t) ==
    /\ pc[t] = "expire"
    /\ WriteState(Asked(t), "expired")
    /\ EndRound(t, "ask")
    /\ UNCHANGED <<deciding, yes, conv, sess, budget, named, answer,
                   historyVars, boundVars>>

\* The approved call is executed; an error of the tool is a result, too.
Send(t) ==
    /\ pc[t] = "send"
    /\ sent' = sent \cup {Asked(t)}
    /\ EndRound(t, "ask")
    /\ UNCHANGED <<gateVars, conv, sess, budget, named, answer, waived, crowded, boundVars>>

\* A mutation: the turn is over before its row is written.
SaveNothing(t) ==
    /\ pc[t] = "save"
    /\ Goto(t, "done")
    /\ UNCHANGED <<gateVars, conv, sess, rounds, budget, named, answer,
                   historyVars, boundVars>>

\* The assistant's row: the accepted draft, of any path to it.
Save(t) ==
    /\ pc[t] = "save"
    /\ SaveTurn(sess[t], "assistant", t)
    /\ Goto(t, "done")
    /\ UNCHANGED <<gateVars, sess, rounds, budget, named, answer,
                   historyVars, boundVars>>

-----------------------------------------------------------------------------
\* A mutation: what was drafted before the failure is saved all the same.
BreakSaving(t) ==
    /\ pc[t] \in Running \ {"send"} /\ faults < MaxFaults
    /\ faults' = faults + 1
    /\ SaveTurn(sess[t], "assistant", t)
    /\ Goto(t, "broken")
    /\ UNCHANGED <<gateVars, sess, rounds, budget, named, answer, historyVars, posts>>

\* A model call or a statement fails, and the turn with it.  Errors of tools
\* do not get this far.
Break(t) ==
    /\ pc[t] \in Running \ {"send"} /\ faults < MaxFaults
    /\ faults' = faults + 1
    /\ Goto(t, "broken")
    /\ UNCHANGED <<gateVars, conv, sess, rounds, budget, named, answer,
                   historyVars, posts>>

\* A row of another part of the house.
Post(s) ==
    /\ posts < MaxPosts
    /\ SaveTurn(s, "assistant", "posted")
    /\ crowded' = crowded \cup {t \in Turn : Under(t) /\ sess[t] = s}
    /\ posts' = posts + 1
    /\ UNCHANGED <<gateVars, turnVars, sent, waived, faults>>

\* The threads are gone; the stores stay.
Crash ==
    /\ faults < MaxFaults
    /\ faults' = faults + 1
    /\ pc' = [t \in Turn |-> IF Under(t) THEN "broken" ELSE pc[t]]
    /\ GateCrash
    /\ UNCHANGED <<conv, sess, rounds, budget, named, answer,
                   historyVars, posts>>

Decide(d) ==
    /\ \/ \E q \in Request : DecideRead(d, q)
       \/ DecideWrite(d)
    /\ UNCHANGED <<conv, turnVars, historyVars, boundVars>>

Step(t) ==
    \/ Load(t) \/ AskTools(t) \/ AskForced(t) \/ AskFinal(t)
    \/ File(t) \/ Poll(t) \/ TimeOut(t) \/ Expire(t) \/ Send(t) \/ Save(t)

Next ==
    \/ \E t \in Turn : Receive(t) \/ Step(t) \/ Break(t)
    \/ \E d \in Decider : Decide(d)
    \/ \E s \in Session : Post(s)
    \/ Crash

Spec == Init /\ [][Next]_vars

\* A turn is a thread: every wait in it ends, by an answer or a timeout.
FairSpec == Spec /\ \A t \in Turn : WF_vars(Step(t))
=============================================================================
