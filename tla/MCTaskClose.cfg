\* Three contexts in every tree shape: concurrent starts, failed starts and
\* closes.  No idle-close.
CONSTANTS
  Ctx = {c1, c2, c3}
  NoCtx = NoCtx
  Delays = {0}
  IdleCloses = {0}
  MaxCalls = 0
SPECIFICATION FairSpec
INVARIANTS
  ActiveCountsWork
  ClosedMeansDrained
PROPERTIES
  RefinesTaskTree
  CloseCompletes
CHECK_DEADLOCK FALSE
