---------------------------- MODULE ApprovalGate ----------------------------
(***************************************************************************)
(* The ledger of the Approval Gate (platform/approval/store.py) and the    *)
(* route that records a human decision (app/routes/api_citizens.py).  A    *)
(* row is asked for by an agent turn, see AgentTurn, and is decided by the *)
(* human on any surface or by the turn's own timeout.                      *)
(*                                                                         *)
(* set_state reads the row on one connection and updates it WHERE id = ?   *)
(* on another, without the state: between the two any other writer may     *)
(* decide the same row.                                                    *)
(***************************************************************************)
CONSTANTS
    Request,    \* ids of approval requests
    Decider,    \* slots for decision requests served at the same time
    NoRequest   \* not an id

ASSUME NoRequestAssumption == NoRequest \notin Request

VARIABLES
    verdict,    \* the column state, "none" for a row that was not created
    deciding,   \* [Decider -> the row it has read as pending]
    yes         \* history: rows on which a human wrote approved

gateVars == <<verdict, deciding, yes>>

Terminal == {"approved", "denied", "expired"}

GateInit ==
    /\ verdict = [q \in Request |-> "none"]
    /\ deciding = [d \in Decider |-> NoRequest]
    /\ yes = {}

\* ApprovalStore.create.
Create(q) ==
    /\ verdict' = [verdict EXCEPT ![q] = "pending"]
    /\ UNCHANGED <<deciding, yes>>

\* The UPDATE of set_state, for a writer that has read the row as pending.
WriteState(q, s) == verdict' = [verdict EXCEPT ![q] = s]

\* A mutation: a decision may be taken back.
DecideReadAny(d, q) ==
    /\ deciding[d] = NoRequest
    /\ verdict[q] # "none"
    /\ deciding' = [deciding EXCEPT ![d] = q]
    /\ UNCHANGED <<verdict, yes>>

\* decide, its SELECT: a row that is decided is answered as it stands.
DecideRead(d, q) ==
    /\ deciding[d] = NoRequest
    /\ verdict[q] = "pending"
    /\ deciding' = [deciding EXCEPT ![d] = q]
    /\ UNCHANGED <<verdict, yes>>

\* decide, its UPDATE; the handler may also fail before it.
DecideWrite(d) ==
    /\ deciding[d] # NoRequest
    /\ \/ WriteState(deciding[d], "approved") /\ yes' = yes \cup {deciding[d]}
       \/ WriteState(deciding[d], "denied") /\ UNCHANGED yes
       \/ UNCHANGED <<verdict, yes>>
    /\ deciding' = [deciding EXCEPT ![d] = NoRequest]

\* The process dies: the rows stay, the handlers do not.
GateCrash ==
    /\ deciding' = [d \in Decider |-> NoRequest]
    /\ UNCHANGED <<verdict, yes>>

GateTypeOK ==
    /\ verdict \in [Request -> {"none", "pending"} \cup Terminal]
    /\ deciding \in [Decider -> Request \cup {NoRequest}]
    /\ yes \subseteq Request
=============================================================================
