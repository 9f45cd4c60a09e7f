\* A day of four minutes with every window of a schedule, in three zones; budgets in units of 30 seconds,
\* capped at 20 units; three hosts, two enriched at once, in 41 networks and jobs, the context ending
\* at any step.
SPECIFICATION JobSpec
CONSTANTS
  MinutesPerDay = 4
  Offsets <- MCOffsets
  DayChoices <- MCDayChoices
  ScanGrace = 1
  HostDiscoveryAllowance = 4
  MaxScanBudget = 20
  UnsupervisedTimeout = 60
  NetworkGrace = 2
  HostDiscoveryTimeout = 2
  LongestQuery = 3
  DefaultTimeout = 2
  Timeouts = {0, 3, 30}
  TargetLists <- MCTargetLists
  MaxTransit = 4
  IPs = {1, 2, 3, 4}
  enrichWorkers = 2
  Worlds <- MCWorlds
CHECK_DEADLOCK FALSE
INVARIANTS
  TickHonoursWindow
  DeadlinesNested
  AnswerIndependentOfSchedule
  CoreFindingsKept
  OnlyAllowedReported
  ProbesBounded
