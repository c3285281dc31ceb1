\* Two containers that may share an epoch, two epochs, one key:
\* elections of older epochs, partial shreds, kills in every call.
CONSTANTS
  Container = {A, B}
  Epoch = {1, 2}
  Role = {content}
  Key = {k1}
  NoEntry = NoEntry
  NoKey = NoKey
SPECIFICATION Spec
SYMMETRY StoreSymmetry
INVARIANTS
  DurableAtReturn
  ElectionDurable
  CurrentIsHeld
