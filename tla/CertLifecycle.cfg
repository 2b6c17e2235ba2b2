SPECIFICATION Spec
CONSTANTS
  k1 = k1
  k2 = k2
  s1 = s1
  s2 = s2
  d1 = d1
  d2 = d2
  dBad = dBad
  NotAKey = NotAKey
  Keys <- MCKeys
  Serials <- MCSerials
  Dates <- MCDates
  BadDate = dBad
INVARIANT TypeOK
INVARIANT SelfSignedMatchesExport
PROPERTY AbsSpec
