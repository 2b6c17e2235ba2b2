SPECIFICATION Spec
CONSTANTS
  n1 = n1  n2 = n2  k1 = k1  s1 = s1  s2 = s2
  NoKey = NoKey
  Names <- MCNames
  Keys <- MCKeys
  Serials <- MCSerials
  MaxEntries = 2
  MaxCrls = 2
INVARIANT AkidMatchRevokes
