---------------------------- MODULE MCScanRaces ----------------------------
(* Two scenarios in one run, so that their state spaces add up.            *)
EXTENDS MCScanOrchestrator, FiniteSets

VARIABLE scenario

\* One agent and one job, asked for by hand while the rows are edited.
Edited ==
  /\ faults' = 0 /\ \A s \in Schedules : periods'[s] = 0
  /\ Cardinality({a \in Agents : agent'[a].row # "unused"}) <= 1
  /\ \A j \in Jobs \ {1} : job'[j].row = "unused"

\* A schedule that moves between two agents, either of which may be deleted; one
\* crash or failed statement.
Faulty ==
  /\ \A r \in Requests : call'[r] = NoCall
  /\ \A a \in Agents : agent'[a].allowed \in {{}, {n1}}
  /\ \A s \in Schedules : sched'[s].scope \in {{}, {n1}}

MCInit == Init /\ scenario \in {"edited", "faulty"}
MCNext ==
  /\ Next
  /\ UNCHANGED scenario
  /\ IF scenario = "edited" THEN Edited ELSE Faulty
=============================================================================
