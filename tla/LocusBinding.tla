---------------------------- MODULE LocusBinding ----------------------------
(***************************************************************************)
(* amp.support.locus.go: a LocusBinding caches the cells of one locus of   *)
(* one node from the updates a pin delivers, and writes cells.             *)
(*                                                                         *)
(* An op is its node, whether its attribute is in the locus, its cell, its *)
(* EditID and what it does; the value of an upsert is its EditID.  Edits   *)
(* may be delivered in any order and more than once.                       *)
(***************************************************************************)
EXTENDS Naturals, Sequences, SequencesExt

CONSTANTS LocNodes,     \* node IDs
          LocCells,     \* cells an op may address
          LocMax,       \* Max: cells from here on are not the binding's
          LocEdits,     \* EditIDs
          LocBatch      \* bound on the ops of one update

ASSUME LocusAssumption == LocCells \subseteq Nat /\ LocEdits \subseteq Nat /\ LocMax \in Nat
                          /\ LocBatch \in Nat

NilNode == 0

VARIABLES locNode,      \* nodeID, NilNode until bound
          attached,     \* the occupied cells, in no order: [cell, edit]
          cellsShown,   \* what the OnCell callbacks left with the caller: cell to edit, 0 for none
          sinceDelete,  \* ghost: per cell, the upserts read since the last delete of it
          outgoing      \* the last op written by UpsertCell or DeleteCell, as a sequence

locVars == <<locNode, attached, cellsShown, sinceDelete, outgoing>>

LocOps == [node : LocNodes, inLocus : BOOLEAN, cell : LocCells, edit : LocEdits,
           kind : {"upsert", "delete", "unreadable"}]

LocInit ==
    /\ locNode = NilNode
    /\ attached = <<>>
    /\ cellsShown = [c \in LocCells |-> 0]
    /\ sinceDelete = [c \in LocCells |-> {}]
    /\ outgoing = <<>>

-----------------------------------------------------------------------------
findCell(cells, cell) == SelectInSeq(cells, LAMBDA at : at.cell = cell)

(* Mutant of detachCell: the last cell goes, whichever was asked for. *)
detachCellLast(cells, cell) == IF findCell(cells, cell) = 0 THEN cells ELSE Front(cells)
\* The last cell moves into the place of the one that goes.
detachCell(cells, cell) ==
    LET i == findCell(cells, cell)
    IN  IF i = 0 THEN cells ELSE Front([cells EXCEPT ![i] = Last(cells)])

\* An edit no newer than the one an occupied cell holds.
StaleEdit(cells, op) ==
    LET i == findCell(cells, op.cell) IN i > 0 /\ cells[i].edit >= op.edit

\* The filter on one op of an update.
ForLocus(node, op) == op.node = node /\ op.inLocus /\ op.cell < LocMax

\* One op: acc holds the cells, what the caller was shown and the ghost.
ApplyCellOp(node, acc, op) ==
    LET i == findCell(acc.cells, op.cell)
    IN  IF ~ForLocus(node, op) \/ StaleEdit(acc.cells, op) \/ op.kind = "unreadable" THEN acc
        ELSE IF op.kind = "delete"
        THEN [cells |-> detachCell(acc.cells, op.cell),
              shown |-> [acc.shown EXCEPT ![op.cell] = 0],
              since |-> [acc.since EXCEPT ![op.cell] = {}]]
        ELSE [cells |-> IF i = 0 THEN Append(acc.cells, [cell |-> op.cell, edit |-> op.edit])
                        ELSE [acc.cells EXCEPT ![i].edit = op.edit],
              shown |-> [acc.shown EXCEPT ![op.cell] = op.edit],
              since |-> [acc.since EXCEPT ![op.cell] = @ \cup {op.edit}]]

\* The node an update binds: the first one, when none is bound.
BoundNode(node) == IF locNode = NilNode THEN node ELSE locNode

\* OnNodeUpdate; an update of another node is left alone.
OnNodeUpdate(node, ops) ==
    LET acc0 == [cells |-> attached, shown |-> cellsShown, since |-> sinceDelete]
        acc  == FoldLeft(LAMBDA acc, op : ApplyCellOp(node, acc, op), acc0, ops)
    IN  /\ locNode' = BoundNode(node)
        /\ IF locNode' = node
           THEN /\ attached' = acc.cells
                /\ cellsShown' = acc.shown
                /\ sinceDelete' = acc.since
           ELSE UNCHANGED <<attached, cellsShown, sinceDelete>>
        /\ UNCHANGED outgoing

\* Bind panics when another node is bound.
LocBind(node) ==
    /\ locNode \in {NilNode, node}
    /\ locNode' = node
    /\ UNCHANGED <<attached, cellsShown, sinceDelete, outgoing>>

\* UpsertCell panics before a node is bound.
UpsertCell(cell) ==
    /\ locNode # NilNode
    /\ outgoing' = <<[node |-> locNode, cell |-> cell, kind |-> "upsert"]>>
    /\ UNCHANGED <<locNode, attached, cellsShown, sinceDelete>>

\* DeleteCell writes nothing for a cell that is not occupied.
DeleteCell(cell) ==
    /\ outgoing' = IF findCell(attached, cell) = 0 THEN <<>>
                   ELSE <<[node |-> locNode, cell |-> cell, kind |-> "delete"]>>
    /\ UNCHANGED <<locNode, attached, cellsShown, sinceDelete>>

\* Clear forgets the cells and no callback is made: the caller drops its own.
LocClear ==
    /\ attached' = <<>>
    /\ cellsShown' = [c \in LocCells |-> 0]
    /\ sinceDelete' = [c \in LocCells |-> {}]
    /\ UNCHANGED <<locNode, outgoing>>

LocNext ==
    \/ \E node \in LocNodes, ops \in BoundedSeq(LocOps, LocBatch) : OnNodeUpdate(node, ops)
    \/ \E node \in LocNodes : LocBind(node)
    \/ \E cell \in LocCells : UpsertCell(cell)
    \/ \E cell \in LocCells : DeleteCell(cell)
    \/ LocClear

LocSpec == LocInit /\ [][LocNext]_locVars

-----------------------------------------------------------------------------
\* Whatever the order in which edits and deletes arrive, every cell has at most one
\* entry, it holds the newest upsert read since the cell was last deleted, and the
\* callbacks have shown the caller exactly the cells GetCell returns.
CellsCurrent ==
    /\ \A i, j \in DOMAIN attached : attached[i].cell = attached[j].cell => i = j
    /\ \A c \in LocCells :
          LET i    == findCell(attached, c)
              held == IF i = 0 THEN 0 ELSE attached[i].edit
          IN  /\ cellsShown[c] = held
              /\ (i = 0) = (sinceDelete[c] = {})
              /\ \A e \in sinceDelete[c] : e <= held
              /\ i > 0 => held \in sinceDelete[c] /\ c < LocMax
=============================================================================
