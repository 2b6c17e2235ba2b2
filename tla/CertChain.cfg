SPECIFICATION Spec
CONSTANTS
  c1 = c1
  c2 = c2
  c3 = c3
  l1 = l1
  l2 = l2
  l3 = l3
  NoCert = NoCert
  Certs <- MCCerts
  Labels <- MCLabels
  MaxPool = 3
  Crls <- MCCrls
  NameOf <- MCNameOf
  UnknownHashChoices <- MCUnknownHashChoices
INVARIANT TypeOK
INVARIANT BuildsAllowedChain
INVARIANT PoolConserved
PROPERTY Terminates
