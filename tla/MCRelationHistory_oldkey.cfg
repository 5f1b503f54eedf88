\* A Phase 2 file, and an upsert of another relation type.
CONSTANTS
  Calls <- MCCalls
  Configs <- MCConfigs
  Institution <- MCInstitution
  Outcomes <- MCOutcomes
  OtherTypes = {"agent-document"}
  OldRecords <- MCOldRecords
  Slots = {1}
  MaxUpdates = 1
SPECIFICATION Spec
PROPERTIES
  OldRecordsStayReadable
