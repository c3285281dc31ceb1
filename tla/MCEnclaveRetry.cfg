\* A retry of an import whose save failed.
CONSTANTS
  Pub = {1}
  NumTypes = 2
  Time = {1, 2}
  NoPub = NoPub
  PubPrefixes = {}
  KeyPairs <- KeyPairRecord
SPECIFICATION EnclaveSpec
INVARIANT ImportIsDurable
