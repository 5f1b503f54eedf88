CONSTANTS
  Documents <- MCDocuments
  Originals <- MCOriginals
  Claims <- MCClaims
  Diffs <- ChainDiffs
  Contracts <- MCContracts
  Contexts <- MCContexts
  Institutions <- MCInstitutions
  RequiredFields = {"a"}
  TestNames = {"test_f"}
  TestLike = {"test_f"}
  PrivateNames = {"_h"}
SPECIFICATION ChainSpec
INVARIANTS
  ChainTypeOK
  UnreviewedKeepsProtected
  DriftIsTold
  MisreportIsStopped
