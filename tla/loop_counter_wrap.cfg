CONSTANTS
  IntBits = 5
  UIntBits = 7
  TBound = 127
  Builds = {"wrap", "widen"}
SPECIFICATION Spec
INVARIANT
  SquaresT
