\* A parent and a child with Info.IdleClose on either, and one explicit idle
\* call at any time.
CONSTANTS
  Ctx = {c1, c2}
  NoCtx = NoCtx
  Delays = {0, 1}
  IdleCloses = {0, 1}
  MaxCalls = 1
SPECIFICATION FairSpec
INVARIANTS
  OneIdleLoop
PROPERTIES
  IdleCloseIsSafe
  ArmedIdleCloses
CHECK_DEADLOCK FALSE
