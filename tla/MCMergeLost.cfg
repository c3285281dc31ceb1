\* One binding, txs that touch two nodes.
CONSTANTS
  Node = {n1, n2}
  NoNode = NoNode
  Item = {x}
  Edit = {1}
  Binding = {b1}
  Match <- MatchAll
  MaxOps = 2
  MaxPass = 100
SPECIFICATION FairSpec
PROPERTIES
  AllDispatched
