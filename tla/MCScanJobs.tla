----------------------------- MODULE MCScanJobs -----------------------------
(* A scan job before, around and inside the agent: small instances of the  *)
(* windows, of the deadlines and of the job itself, one at a time.         *)
EXTENDS ScanWindows, ScanBudget, MCCombinedScan

VARIABLE focus
jobVars == <<windowVars, budgetVars, vars, focus>>

\* One zone behind UTC, one ahead that keeps daylight saving time.
MCOffsets == [z \in {"UTC", "west", "east"} |->
                CASE z = "UTC" -> {0} [] z = "west" -> {-2} [] z = "east" -> {1, 2}]
MCDayChoices == {{}, {6}, {0, 1}, {7}}
\* A bare address; a /30; a /30 and an address; and more than a scan has time for.
MCTargetLists == {<<0>>, <<2>>, <<2, 0>>, <<8>>}

\* What is not looked at stays at one of its initial states.
JobInit ==
  /\ focus \in {"window", "budget", "scan"}
  /\ WindowInit /\ BudgetInit /\ Init
  /\ focus # "window" => \A z \in Zones : \A o \in Offsets[z] : offset[z] <= o
  /\ focus # "budget" => job = CreateScanJob(0, <<0>>, "passive")
  /\ focus # "scan" => w = Net("dhcp_leases", {1, 2}, Known, {1}, "auto", TRUE)

JobNext ==
  \/ focus = "window" /\ WindowNext /\ UNCHANGED <<budgetVars, vars, focus>>
  \/ focus = "budget" /\ BudgetNext /\ UNCHANGED <<windowVars, vars, focus>>
  \/ focus = "scan" /\ Next /\ UNCHANGED <<windowVars, budgetVars, focus>>

JobSpec == JobInit /\ [][JobNext]_jobVars
=============================================================================
