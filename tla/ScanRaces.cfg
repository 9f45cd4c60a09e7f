\* A job asked for by hand while its agent and schedule are edited, two CIDR lists, of which the agents
\* accept one; a schedule that moves between two agents, either of which may be deleted, with one crash or
\* failed statement.
INIT MCInit
NEXT MCNext
SYMMETRY AgentSymmetry
CONSTANTS
  a1 = a1
  a2 = a2
  n1 = n1
  n2 = n2
  Agents = {a1, a2}
  Schedules = {s1}
  MaxJobs = 2
  Requests = {r1}
  Scheduler = Scheduler
  Nets = {n1, n2}
  Scopes <- TwoScopes
  Own <- NarrowOwn
  None = None
  MaxFaults = 1
  MaxPeriods = 1
CHECK_DEADLOCK FALSE
INVARIANTS TypeOK ProbesAuthorised UnfinishedJobOwned OneAttemptPerPeriod RecordsAgree ReferentialIntegrity
PROPERTY JobLifecycle
