\* BlockingLoad in an app that closes.
CONSTANT NumTx = 1
SPECIFICATION LocalSpec
INVARIANT LoadedMeansFilled
CHECK_DEADLOCK FALSE
