\* A rejection that comes after an approval.
CONSTANTS
  write = write
  secretShell = secretShell
  shell = shell
  alice = alice
  bob = bob
  Calls = {shell}
  Profile <- MCProfile
  Configs <- MCConfigs
  Institution <- MCInstitution
  Contexts <- MCContexts
  Reviewers = {alice, bob}
  DecisionKinds = {"approve", "reject"}
  SubprocessEnabled = TRUE
  Allowlisted = {shell, secretShell}
  Escaping = {}
  MaxRequests = 1
  MaxRuns = 1
  MaxCrashes = 1
  Sessions <- RejectingSessions
SPECIFICATION Spec
PROPERTIES
  RejectedIsNotExecuted
CHECK_DEADLOCK FALSE
