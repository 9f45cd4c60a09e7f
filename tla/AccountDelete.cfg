SPECIFICATION Spec
CONSTANTS
  MaxUsers = 2
  MaxSessions = 2
  MaxTokens = 1
  MaxPasswords = 2
  MaxRequests = 5
  MaxFaults = 1
  Names <- MCNames
  Subjects <- MCSubjects
  ClaimedName <- MCClaimedName
  Requests = {r1, r2}
  None = None
PROPERTY DeleteRemoves
\* The bounds on rows run out.
CHECK_DEADLOCK FALSE
