CONSTANTS
  M = 5
  Sha <- RefSha
  FormOf <- RefFormOf
  D <- RefD
  DigestBits = 4
  ExtraBits = 1
  SearchBound = 6
  Challenges = {}
  PrimeSeeds = {}
  Hang = Hang
  BlobError = BlobError
  ParseFailure = ParseFailure
  Inputs <- LawInputs
SPECIFICATION Spec
INVARIANTS
  EncodingLaw
  PrimeSproutIsCounter
  PowQuotientLaw
  BlobRoundTrip
  HGWalkFullPeriod
  JoinSplitA_iters
  JoinSplitYs
  DiscriminantValid
