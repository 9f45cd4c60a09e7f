\* Two overlapping runs of one schedule.
INIT Init
NEXT Next
CONSTANTS
  a1 = a1
  a2 = a2
  n1 = n1
  n2 = n2
  Agents = {a1}
  Schedules = {s1}
  MaxJobs = 2
  Requests = {r1}
  Scheduler = Scheduler
  Nets = {n1, n2}
  Scopes <- OneScope
  Own <- MCOwn
  None = None
  MaxFaults = 0
  MaxPeriods = 1
CHECK_DEADLOCK FALSE
INVARIANT LastRunIsMostRecent
