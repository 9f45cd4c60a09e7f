------------------------- MODULE MCScanOrchestrator -------------------------
(* Small instances of ScanOrchestrator for TLC.                            *)
EXTENDS ScanOrchestrator, TLC

CONSTANTS a1, a2, n1, n2

\* a1 may scan both nets, a2 (where there is one) only the first.
MCOwn == [a \in Agents |-> IF a = a1 THEN {n1, n2} ELSE {n1}]
\* Agents whose own allowlist is narrower than what operators enter.
NarrowOwn == [a \in Agents |-> {n1}]
\* Agents with the same allowlist are interchangeable.
AgentSymmetry == Permutations(Agents)
OneScope == {{n1}}
TwoScopes == {{n1}, {n1, n2}}
=============================================================================
