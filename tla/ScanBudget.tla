----------------------------- MODULE ScanBudget -----------------------------
(***************************************************************************)
(* The deadlines of one scan job.  The dispatch is one HTTP call that the  *)
(* agent answers when the whole scan has ended: the app bounds the call,   *)
(* the agent bounds its scan, each by a deadline it derives from the same  *)
(* job, each from its own start, and nmap (external) bounds every host.    *)
(* The agent's deadline kills nmap, but the backends that query a host at  *)
(* a time look at it between two hosts only: a query that is under way     *)
(* ends when the host has answered or given up.                            *)
(* Time passes in units; a unit may stand for any number of seconds.       *)
(***************************************************************************)
EXTENDS Integers, SequencesExt

CONSTANTS
  ScanGrace, HostDiscoveryAllowance, MaxScanBudget,  \* budget.go
  UnsupervisedTimeout,   \* how long the app waits for a job without a budget
  NetworkGrace,          \* what the app adds to the agent's budget
  HostDiscoveryTimeout,  \* --host-timeout of the sweep
  LongestQuery,          \* the longest query of one host (external)
  DefaultTimeout,        \* of a job stored without a timeout
  Timeouts,              \* the per-host timeouts in requests, 0 for none
  TargetLists,           \* sequences of targets, each its number of free address bits
  MaxTransit             \* bound on the time spent on the way, there and back

\* What answers the job: nobody, nmap, nmap and then the queries of every host
\* it found, or the queries alone (SNMP, names, DNS, leases).
Kinds == {"passive", "nmap", "combined", "query"}

ASSUME ScanBudgetAssumption ==
  /\ {ScanGrace, HostDiscoveryAllowance, MaxScanBudget, UnsupervisedTimeout} \subseteq Nat \ {0}
  /\ {NetworkGrace, DefaultTimeout, HostDiscoveryTimeout} \subseteq Nat \ {0}
  /\ LongestQuery \in Nat
  /\ Timeouts \subseteq Nat /\ MaxTransit \in Nat /\ TargetLists \subseteq Seq(Nat)

VARIABLES
  job,      \* the stored job: its timeout and targets, and what answers it
  at,       \* where the call is
  waited,   \* how long the app has waited
  scanned,  \* how long the agent has scanned
  swept,    \* how much of that nmap's sweeps for live hosts took
  probed,   \* how much its probes of the live hosts took
  query,    \* how long the query under way has taken
  transit,  \* how long the call has been on the way
  outcome   \* what the app records, "none" until then

spent      == <<waited, scanned, swept, probed, query, transit>>
budgetVars == <<job, at, spent, outcome>>

-----------------------------------------------------------------------------

\* An upper bound on the hosts: a bare address has no free bits and counts for one.
EstimateTargetHosts(targets) ==
  LET total == FoldLeft(LAMBDA sum, bits : sum + 2 ^ bits, 0, targets)
  IN IF total < 1 THEN 1 ELSE total

\* "No supervising deadline" is 0.
ScanBudget(perHost, targets) ==
  LET hosts  == EstimateTargetHosts(targets)
      budget == perHost * hosts + HostDiscoveryAllowance + ScanGrace
  IN IF perHost <= 0 THEN 0
     ELSE IF hosts > MaxScanBudget \div perHost \/ budget > MaxScanBudget THEN MaxScanBudget
     ELSE budget

Supervision == ScanBudget(job.timeout, job.targets)

\* Mutant: the app waits as long as the agent may take.
DispatchTimeoutBare == IF Supervision <= 0 THEN UnsupervisedTimeout ELSE Supervision

DispatchTimeout == (IF Supervision <= 0 THEN UnsupervisedTimeout ELSE Supervision) + NetworkGrace

\* nmap leaves a host alone after its --host-timeout; each target is in one
\* egress set, so the passes over the sets share these.
SweepLimit == HostDiscoveryTimeout * EstimateTargetHosts(job.targets)
ProbeLimit == job.timeout * EstimateTargetHosts(job.targets)

\* scanCtx has ended.
Expired == Supervision > 0 /\ scanned >= Supervision

-----------------------------------------------------------------------------
CreateScanJob(timeout, targets, kind) ==
  [timeout |-> IF timeout <= 0 THEN DefaultTimeout ELSE timeout, targets |-> targets, kind |-> kind]

Goto(next) == at' = next /\ UNCHANGED <<job, spent, outcome>>

dispatch == at = "created" /\ Goto("sending")

\* The agent starts to scan; a passive job is answered at once.
submitJob ==
  /\ at = "sending"
  /\ \/ job.kind = "passive" /\ Goto("answering")
     \/ job.kind \in {"nmap", "combined"} /\ Goto("sweeping")
     \/ job.kind = "query" /\ Goto("querying")

\* The sweep of an egress set has ended: its live hosts are probed.
SweepEnds == at = "sweeping" /\ Goto("probing")

\* A set is done, or had no live host, or the job is over with the sweep: the
\* next set is swept, or a combined job goes on to its queries.
EgressSetDone ==
  /\ at \in {"sweeping", "probing"}
  /\ \/ Goto("sweeping")
     \/ job.kind = "nmap" /\ Goto("answering")
     \/ job.kind = "combined" /\ Goto("querying")

\* scanCtx ends: nmap is killed and the job has failed.
ScanCutShort == at \in {"sweeping", "probing"} /\ Expired /\ Goto("answering cut short")

\* A query has ended.  While scanCtx lives the next one is begun; a backend
\* with targets left fails once it has ended, but the queries of a combined
\* job only note it: what nmap found is answered.
QueryEnds ==
  /\ at = "querying"
  /\ \/ ~ Expired /\ query' = 0 /\ UNCHANGED <<job, at, waited, scanned, swept, probed, transit, outcome>>
     \/ Goto("answering")
     \/ Expired /\ job.kind = "query" /\ Goto("answering cut short")

Answered ==
  /\ \/ at = "answering" /\ outcome' = "answered"
     \/ at = "answering cut short" /\ outcome' = "cut short"
  /\ at' = "done"
  /\ UNCHANGED <<job, spent>>

\* dispatchCtx ends before the answer.
DispatchTimesOut ==
  /\ at \notin {"created", "done"} /\ waited = DispatchTimeout
  /\ at' = "done" /\ outcome' = "timed out"
  /\ UNCHANGED <<job, spent>>

\* A unit of time passes, for the call and for what is under way: nmap until
\* scanCtx ends, a query (or the read of the lease file, which never looks at it)
\* until it has ended.
Elapse ==
  /\ waited < DispatchTimeout /\ waited' = waited + 1
  /\ \/ at = "sweeping" /\ ~ Expired /\ swept < SweepLimit
        /\ swept' = swept + 1 /\ scanned' = scanned + 1 /\ UNCHANGED <<probed, query, transit>>
     \/ at = "probing" /\ ~ Expired /\ probed < ProbeLimit
        /\ probed' = probed + 1 /\ scanned' = scanned + 1 /\ UNCHANGED <<swept, query, transit>>
     \/ at = "querying" /\ query < LongestQuery
        /\ query' = query + 1 /\ scanned' = scanned + 1 /\ UNCHANGED <<swept, probed, transit>>
     \/ at \in {"sending", "answering", "answering cut short"} /\ transit < MaxTransit
        /\ transit' = transit + 1 /\ UNCHANGED <<scanned, swept, probed, query>>
  /\ UNCHANGED <<job, at, outcome>>

-----------------------------------------------------------------------------
BudgetInit ==
  /\ \E timeout \in Timeouts, targets \in TargetLists, kind \in Kinds :
       job = CreateScanJob(timeout, targets, kind)
  /\ at = "created" /\ outcome = "none"
  /\ waited = 0 /\ scanned = 0 /\ swept = 0 /\ probed = 0 /\ query = 0 /\ transit = 0

BudgetNext ==
  \/ dispatch \/ submitJob \/ SweepEnds \/ EgressSetDone \/ ScanCutShort \/ QueryEnds
  \/ Answered \/ DispatchTimesOut \/ Elapse

-----------------------------------------------------------------------------
(* Properties.                                                             *)

\* How far past its deadline the agent may go.
Overshoot == IF job.kind \in {"combined", "query"} THEN LongestQuery ELSE 0

\* "The app must outlast the agent's own budget" (dispatch): the app gives up only on
\* a call that spent NetworkGrace or more on the way and, where hosts are queried, in
\* the one query that outlasts the agent's deadline.  "nmap's own --host-timeout fires
\* first" (budget.go): nmap is killed only when its sweeps took more than the allowance
\* for them, or the cap left less time than the hosts may take.
DeadlinesNested ==
  /\ outcome = "timed out" => transit + Overshoot >= NetworkGrace
  /\ outcome = "cut short" /\ job.kind # "query" =>
       \/ swept > HostDiscoveryAllowance
       \/ Supervision = MaxScanBudget /\ HostDiscoveryAllowance + ProbeLimit + ScanGrace > MaxScanBudget
=============================================================================
