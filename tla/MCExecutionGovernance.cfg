CONSTANTS
  write = write
  secretShell = secretShell
  shell = shell
  alice = alice
  bob = bob
  Calls = {write, secretShell, shell}
  Profile <- MCProfile
  Configs <- MCConfigs
  Institution <- MCInstitution
  Contexts <- MCContexts
  Reviewers = {alice}
  DecisionKinds = {"approve", "approve_dry_run", "require_rollback_plan"}
  SubprocessEnabled = TRUE
  Allowlisted = {shell, secretShell}
  Escaping = {}
  MaxRequests = 2
  MaxRuns = 1
  MaxCrashes = 1
  Sessions <- MCSessions
SPECIFICATION Spec
INVARIANTS
  TypeOK
  AuditNeverAheadOfStore
  QueueAgreesUnlessRaised
  OrphansOnlyAfterCrash
  EffectHasDurableAuthority
  HaltIsFinal
PROPERTIES
  ImplementsLedger
CHECK_DEADLOCK FALSE
