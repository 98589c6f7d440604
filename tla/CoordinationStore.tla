-------------------------- MODULE CoordinationStore --------------------------
(***************************************************************************)
(* The coordination boards (platform/coordination/store.py, types.py): a   *)
(* node is a row of the lattice whose board, status, lesson and blocks are *)
(* one JSON column, read on one connection and written whole on another.   *)
(***************************************************************************)
EXTENDS Naturals, Sequences

CONSTANTS
    Node            \* the nodes, numbered in the order of their rows

ASSUME NodeAssumption == Node \subseteq Nat \ {0}

VARIABLES
    row,            \* per node: its provenance column
    lessons         \* the Lesson Learned rows: the node that each is about

storeVars == <<row, lessons>>

Board == {"Signal", "Blueprint", "Friction"}
Status == {"Open", "Refining", "Ready", "Archived"}

Row == [board : Board \cup {"none"}, status : Status, lesson : Nat, blocks : SUBSET Node]

\* create_node's provenance; board "none" is a row that is not there.
NewRow(board) == [board |-> board, status |-> "Open", lesson |-> 0, blocks |-> {}]

Exists(n) == row[n].board # "none"
Fresh(n) == ~Exists(n) /\ \A m \in Node : m < n => Exists(m)
Archived(n) == row[n].status = "Archived"

StoreInit == row = [n \in Node |-> NewRow("none")] /\ lessons = <<>>

ValidTransitions ==
    [s \in Status |-> CASE s = "Open" -> {"Refining", "Archived"}
                        [] s = "Refining" -> {"Ready", "Archived"}
                        [] s = "Ready" -> {"Archived"}
                        [] s = "Archived" -> {}]

\* blueprint_blockers: the frictions that block a blueprint, until archived.
Blockers(b) == {f \in Node : row[f].board = "Friction" /\ ~Archived(f) /\ b \in row[f].blocks}

\* _provenance_for, what is written back of a node that was read: its blocks
\* are not among the fields.
Provenance(seen) == [seen EXCEPT !.blocks = {}]

\* update_status's UPDATE: by id, whatever the row holds by now.
SetStatus(n, seen, status) ==
    /\ row' = [row EXCEPT ![n] = [Provenance(seen) EXCEPT !.status = status]]
    /\ UNCHANGED lessons

\* add_block's UPDATE, left out when the pair is there already.
SetBlock(n, seen, b) ==
    /\ row' = IF b \in seen.blocks THEN row
              ELSE [row EXCEPT ![n] = [seen EXCEPT !.blocks = @ \cup {b}]]
    /\ UNCHANGED lessons

\* The node, archived, as the transactions of archive_node and promote_node
\* leave it beside its new lesson.
ArchivedRow(seen) ==
    [Provenance(seen) EXCEPT !.status = "Archived", !.lesson = Len(lessons) + 1]

Archive(n, seen) ==
    /\ lessons' = Append(lessons, n)
    /\ row' = [row EXCEPT ![n] = ArchivedRow(seen)]

Promote(n, seen, target, board) ==
    /\ lessons' = Append(lessons, n)
    /\ row' = [row EXCEPT ![n] = ArchivedRow(seen), ![target] = NewRow(board)]
=============================================================================
