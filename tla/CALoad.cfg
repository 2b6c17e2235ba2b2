SPECIFICATION CASpec
CONSTANTS
  d1 = d1
  d2 = d2
  Data <- MCData
  MaxDer = 1
  MaxSegs = 3
  MaxSize = 12
  MaxCaSegs = 2
INVARIANT TypeOK
INVARIANT BundleDecodes
INVARIANT CapathAllOrNothing
