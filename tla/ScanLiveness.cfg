\* One agent, the scheduler and a request competing for one job, one fault; an agent's job of every type.
SPECIFICATION BothSpec
CONSTANTS
  a1 = a1
  a2 = a2
  n1 = n1
  n2 = n2
  Agents = {a1}
  Schedules = {s1}
  MaxJobs = 1
  Requests = {r1}
  Scheduler = Scheduler
  Nets = {n1, n2}
  Scopes <- OneScope
  Own <- MCOwn
  None = None
  MaxFaults = 1
  MaxPeriods = 1
  IPs = {1, 2, 3, 4}
  enrichWorkers = 2
CHECK_DEADLOCK FALSE
PROPERTIES JobResolves DueScheduleAttempted AgentAnswers
