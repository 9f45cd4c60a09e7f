\* Two scans of one host race each other and edits by hand; two hosts seen with one MAC are imported one by
\* one, together or by a scan.
INIT MCInit
NEXT MCNext
SYMMETRY Symmetry
CONSTANTS
  IPs = {1, 2}
  MACs = {m1}
  MaxSubnets = 2
  MaxAddresses = 2
  MaxDevices = 2
  Scans = {w1, w2}
  Operators = {o1}
  MaxEdits = 4
  None = None
CHECK_DEADLOCK FALSE
INVARIANTS ImportsApproved ReferencesLive QueueStateCoherent QueueAgreesWithInventory
PROPERTY MACsNeverMove
