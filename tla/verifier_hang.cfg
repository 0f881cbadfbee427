CONSTANTS
  M = 5
  Sha <- MCSha
  FormOf <- MCFormOf
  D <- MCD
  DigestBits = 4
  ExtraBits = 1
  SearchBound = 6
  Challenges = {0, 1, 3}
  PrimeSeeds <- MCPrimeSeeds
  BatchSizes = {1}
  TValues = {5}
  ThreadCounts = {1, 2, 4}
  Adversary = {"ys", "proof"}
  AIters = {0, 1, 2, 3, 4}
  BIters = {0, 1, 2, 3}
  Hang = Hang
  NoForm = NoForm
  NoIter = NoIter
SPECIFICATION Spec
INVARIANTS
  VerifyReturns
