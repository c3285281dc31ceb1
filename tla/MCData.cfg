\* Each component on its own small instance; README.md gives the bounds.
CONSTANTS
  v1 = v1
  v2 = v2
  a1 = a1
  a2 = a2
  Pub = {1, 2}
  NumTypes = 2
  Time = {1, 2}
  NoPub = NoPub
  KeyPairs <- MCKeyPairs
  PubPrefixes <- MCPrefixes
  Openers = {1, 2, 3}
  GuardOf <- MCGuardOf
  AadOf <- MCAadOf
  MaxSaves = 2
  SymCallers = {y1, y2}
  SymVals = {v1, v2}
  SymLen <- MCSymLen
  SymHash <- MCSymHash
  HashSlots = 3
  PoolSz = 3
  IssuerInitsAt = 1
  MaxMints = 2
  Registrars = {r1, r2}
  AttrIDs = {at1}
  NilAttr = nil
  Mods = {a1, a2}
  AliasesOf <- MCAliasesOf
  Takers = {t1, t2}
  Capacity = 7
  RefillRate = 2
  Unit = 5
  MaxNow = 5
  RefUsers = {u1, u2, u3}
  FirstRef = u1
  CtxClosers = {x1, x2, w}
  CtxWatcher = w
  TxNodes = {0}
  TxAttrs = {1}
  TxItems = {0, 1}
  TxVals = {"v"}
  TxBadVals = {"bad"}
  TxEdits = {6}
  OwnTxID = 5
  TxEpoch = 9
  SigSize = 2
  MaxTxOps = 3
  SelMax = 2
  SpanChoices <- MCSpans
  MaxSpans = 3
  URLChoices <- MCURLs
  MaxRevisions = 2
  Word = 16
  UID1Max = 12
  UID1Wildcard = 14
  Digit = 8
  NumDigits = 3
  LocusSpan = 4
  TicksPerSec = 3
  TickStep = 5
  TimePad = 2
  EntropySpan = 8
  MaxACCParentDepth = 3
  DefaultGrace = 2
  DefaultWindow = 2
  PlainKit = 1
  ByteMax = 5
  Base58 = 3
  PhraseChecksumSize = 1
  TokenVersion = 1
  MinTokenLen = 4
  Founders = {f1, f2}
  Stranger = str
  Charters <- MCCharters
  HashKits = {0, 1}
  MaxEpochs = 3
  SigListLen = 2
  KeyIDs = {k1, k2, k3}
  FirstKey = k1
  DIDKeyOf <- MCDIDKeyOf
  Members = {"eth", "did"}
  Elements = {1, 2}
  Observers = {f1, f2}
  Facts <- MCFacts
  BlobGrainSizeLog2 = 1
  BlobChunkSizeLog2Min = 2
  BlobChunkSizeLog2Max = 4
  BlobMetaTargetChunks = 3
  BlobLenMax = 54
  BlobMetaSpillLen = 5
  BlobMetaHashSize = 2
  VarintBase = 4
  SegmentSizes = {1, 3, 4, 9}
  PullWidth = 11
  NudgeParts = 1000
  Edit = {1, 2, 3}
  Record <- MCRecords
  LocNodes = {1, 2}
  LocCells = {0, 1, 2}
  LocMax = 2
  LocEdits = {1, 2}
  LocBatch = 1
  SegmentOf <- MCSegmentOf
  Residency = 2
  ReadSizes = {1, 3}
  SeekOffsets <- MCSeekOffsets
INIT DataInit
NEXT DataNext
INVARIANTS
  EnclaveSafe
  SymbolsAgree
  RegistrySound
  BucketSound
  CloserCorrect
  TxSound
  AdmitsOnlyAsked
  ChainLaw
  BlobLaw
  KeysAreMemberOwned
  CellsCurrent
  StreamCorrect
  NumberLaws
  TextLaws
PROPERTY RedeliveryIsNoOp
CHECK_DEADLOCK FALSE
