CONSTANTS
  Powers <- MCPowers
  Exponents = {1, 2, 3, 256}
  MaxExps = 2
  BlobError = BlobError
SPECIFICATION Spec
INVARIANT
  ExpChainsCompose
