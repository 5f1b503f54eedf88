\* Two results held at once and two updates of one pair, from nothing or from a Phase 2 file,
\* with another relation type.
CONSTANTS
  Calls <- MCCalls
  Configs <- MCConfigs
  Institution <- MCInstitution
  Outcomes <- MCOutcomes
  OtherTypes = {"agent-document"}
  OldRecords <- MCOldRecords
  Slots = {s1, s2}
  MaxUpdates = 2
SPECIFICATION Spec
SYMMETRY SlotSymmetry
INVARIANTS
  TypeOK
  BlockedForGood
  OneRecordPerPair
PROPERTIES
  ImportKeepsDecisions
