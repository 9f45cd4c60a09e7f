--------------------------- MODULE MCScanLiveness ---------------------------
(* A scan job on the server and a scan job inside the agent, one at a time. *)
EXTENDS MCScanOrchestrator

CONSTANTS IPs, enrichWorkers

VARIABLES focus, w, cancelled, stage, nm, hosts, next, wk, dhcp, whole, count

Networks == INSTANCE MCCombinedScan WITH Worlds <- {}
Worlds   == Networks!LiveWorlds
Agent    == INSTANCE MCCombinedScan

agentVars == <<w, cancelled, stage, nm, hosts, next, wk, dhcp, whole, count>>

\* The server alone, with no agent's state, or the agent alone, with an idle server.
BothInit ==
  /\ Init
  /\ \/ /\ focus = "server"
        /\ w = None /\ cancelled = None /\ stage = None /\ nm = None /\ hosts = None
        /\ next = None /\ wk = None /\ dhcp = None /\ whole = None /\ count = None
     \/ focus = "agent" /\ Agent!Init

BothNext ==
  \/ focus = "server" /\ Next /\ UNCHANGED <<agentVars, focus>>
  \/ focus = "agent" /\ Agent!Next /\ UNCHANGED <<vars, focus>>

\* The fairness of the two, each for the one that is looked at.
BothFairness ==
  /\ WF_vars(focus = "server" /\ SchedulerStep)
  /\ \A r \in Requests : WF_vars(focus = "server" /\ Enqueue(r))
  /\ \A j \in Jobs : WF_vars(focus = "server" /\ RunStep(j))
  /\ WF_agentVars(focus = "agent" /\ Agent!Main) /\ WF_agentVars(focus = "agent" /\ Agent!ReadLeases)
  /\ \A i \in Agent!Slots : WF_agentVars(focus = "agent" /\ (Agent!CheckContext(i) \/ Agent!Query(i)))

BothSpec == BothInit /\ [][BothNext]_<<vars, agentVars, focus>> /\ BothFairness

\* Every job the agent has accepted is answered (agent.go, execute; combined.go:80): no pool
\* slot, pass or join waits for ever.
AgentAnswers == focus = "agent" => Agent!JobAnswers
=============================================================================
