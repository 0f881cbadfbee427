\* Honest round trip: the blobs reach each call unchanged.
CONSTANTS
  M = 5
  Sha <- MCSha
  FormOf <- MCFormOf
  D <- MCD
  DigestBits = 4
  ExtraBits = 1
  SearchBound = 6
  Challenges = {0, 1, 3}
  PrimeSeeds <- MCPrimeSeeds
  BatchSizes = {1, 2}
  TValues = {0, 1, 5, 6}
  ThreadCounts = {1, 2, 4}
  Adversary = {}
  AIters = {}
  BIters = {}
  Hang = Hang
  NoForm = NoForm
  NoIter = NoIter
SPECIFICATION Spec
INVARIANTS
  TypeOK
  Completeness
  EveryCallReturns
  NoSharedSlotWrite
