CONSTANTS
  Documents <- PythonDocuments
  Originals <- PythonDocuments
  Claims <- MCClaims
  Diffs <- ChainDiffs
  Contracts <- ForbiddingContracts
  Contexts <- MCContexts
  Institutions <- MCInstitutions
  RequiredFields = {"a"}
  TestNames = {"test_f"}
  TestLike = {"test_f"}
  PrivateNames = {"_h"}
SPECIFICATION ChainSpec
INVARIANTS
  ForbiddenIsNotApplied
