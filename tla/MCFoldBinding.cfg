\* Two bindings over two nodes, two edits of every kind, txs of up to two ops.
CONSTANTS
  Node = {n1, n2}
  NoNode = NoNode
  Item = {x}
  Edit = {1, 2}
  Binding = {b1, b2}
  Match <- MatchAll
  MaxOps = 2
  MaxPass = 100
SPECIFICATION FairSpec
INVARIANTS
  FoldIsLWW
PROPERTIES
  OneNodeDispatched
  MergeEnds
