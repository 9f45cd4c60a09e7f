-------------------------- MODULE MCDiscoveryQueue --------------------------
(* Two small instances of DiscoveryQueue in one run, so that their state   *)
(* spaces add up.                                                          *)
EXTENDS DiscoveryQueue, FiniteSets, TLC

\* The goroutines of two scans are interchangeable.
Symmetry == Permutations(Scans)

VARIABLE scenario

\* Two scans of one host race each other and edits by hand.
OneHost ==
  /\ \A ip \in IPs \ {1} : disc'[ip] = NoDiscovery
  /\ \A i \in Addresses : addr'[i].ip \in {1, None}
  /\ \A w \in Scans : proc'[w].ip \in {1, None}
  /\ \A n \in Subnets : subnet'[n].cidr \subseteq {1}
  /\ \A o \in Operators : proc'[o] = Idle /\ batch'[o] = {}

\* Two hosts seen with one MAC, imported one by one, together or by a scan.
TwoHosts ==
  /\ edits' <= 1
  /\ \A n \in Subnets \ {1} : subnet'[n] = NoSubnet("unused")
  /\ Cardinality({w \in Scans : proc'[w] # Idle}) <= 1

MCInit == Init /\ scenario \in {"one host", "two hosts"}
MCNext ==
  /\ Next
  /\ UNCHANGED scenario
  /\ IF scenario = "one host" THEN OneHost ELSE TwoHosts
=============================================================================
