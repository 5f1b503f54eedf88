CONSTANTS
  Diffs <- MCDiffs
  Contracts <- MCContracts
  Contexts <- MCContexts
  Institutions <- MCInstitutions
SPECIFICATION Spec
INVARIANTS
  TypeOK
  RequiredActionHonoured
  OutcomeIsAudited
PROPERTIES
  WorseNeverLoosens
