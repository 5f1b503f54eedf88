CONSTANTS
  Calls        <- MCCalls
  Configs      <- AllConfigs
  Institutions <- MCInstitutions
  Contexts     <- MCContexts
SPECIFICATION Spec
INVARIANTS
  TypeOK
  FullExecutionIsLowStakes
  CriticalHaltsOrIsReviewed
  HistoryAgreesWithPolicyBridge
PROPERTIES
  HistoryNeverLoosens
  TrustLossLoosensOnlyInWindow
