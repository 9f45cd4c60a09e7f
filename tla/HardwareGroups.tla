--------------------------- MODULE HardwareGroups ---------------------------
(***************************************************************************)
(* What device links promise (ADR 0029): the devices on record are         *)
(* partitioned into physical units.  Linking devices merges their units,   *)
(* unlinking one takes it alone out of its unit, and nothing else, however *)
(* many operators and scans are at it, joins or splits a unit.             *)
(***************************************************************************)
CONSTANTS Devices

VARIABLE unit \* unit[d]: the devices that are the same hardware as d, {} once d is deleted

Live == {d \in Devices : unit[d] # {}}

Init == unit = [d \in Devices |-> {d}]

Merge(S) ==
  /\ S \subseteq Live
  /\ LET all == UNION {unit[d] : d \in S}
     IN unit' = [d \in Devices |-> IF d \in all THEN all ELSE unit[d]]

Leave(d) ==
  /\ d \in Live
  /\ unit' = [e \in Devices |-> IF e = d THEN {d} ELSE unit[e] \ {d}]

Delete(D) == unit' = [d \in Devices |-> IF d \in D THEN {} ELSE unit[d] \ D]

Next ==
  \/ \E S \in SUBSET Devices : Merge(S) \/ Delete(S)
  \/ \E d \in Devices : Leave(d)

Spec == Init /\ [][Next]_unit
=============================================================================
