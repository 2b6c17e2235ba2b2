SPECIFICATION Spec
CONSTANTS
  c1 = c1
  c2 = c2
  c3 = c3
  NoCert = NoCert
  NoChain = NoChain
  Certs <- MCCerts
  Labels <- MCLabels
  SubjectChoices <- MCSubjects
  SelfPools <- MCSelfPools
  AnchorLists <- MCAnchorLists
  UntrustedLists <- MCUntrustedLists
  UnknownHashChoices <- MCUnknownHashChoices
INVARIANT ResultUsesSelfBeyondAnchor
