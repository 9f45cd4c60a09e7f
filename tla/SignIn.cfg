SPECIFICATION Spec
CONSTANTS
  IPs <- MCIPs
  Names <- MCNames
  Account = "own"
  MaxAttempts = 1
  Window = 2
  Cooldown = 2
  MaxFailures = 4
  MaxClears = 1
  MaxSecrets = 2
  MaxFaults = 1
  Requests = {r1, r2}
  None = None
INVARIANTS GuessesBounded FactorProven CodeAcceptedOnce
PROPERTY LockoutEnds
