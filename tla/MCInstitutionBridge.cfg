CONSTANTS
  Rules <- MCRules
  Authorities <- MCAuthorities
  Facts <- MCFacts
  MaxRules = 2
SPECIFICATION Spec
INVARIANTS
  TypeOK
  RuledDecisionsStand
  AcceptanceIsCovered
  HelperAgreesWithBridge
PROPERTIES
  WiderAuthorityAccepts
