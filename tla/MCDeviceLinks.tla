---------------------------- MODULE MCDeviceLinks ----------------------------
(* Small instances of DeviceLinks for TLC.                                 *)
EXTENDS DeviceLinks, TLC

CONSTANTS d1, d2, d3, n1, n2

\* One chassis serial on every device.
SameSerial == [d \in Devices |-> "serial"]
\* d1 alone in its subnet, the others together in the second.
ClonedNets == [d \in Devices |-> IF d = d1 THEN {n1} ELSE {n2}]
\* Transactions are interchangeable, and so are the devices of the second subnet.
Symmetry == Permutations(Txns) \cup Permutations(Devices \ {d1})
==============================================================================
