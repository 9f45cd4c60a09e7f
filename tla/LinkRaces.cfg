\* Two transactions, in any order of statements, and one edit on three devices.
SPECIFICATION Spec
SYMMETRY Symmetry
CONSTANTS
  d1 = d1
  d2 = d2
  d3 = d3
  n1 = n1
  n2 = n2
  Devices = {d1, d2, d3}
  Subnets = {n1, n2}
  Serial <- SameSerial
  InitNets <- ClonedNets
  Groups = {1, 2, 3}
  Txns = {t1, t2}
  MaxEdits = 1
  None = None
CHECK_DEADLOCK FALSE
PROPERTY LinksArePartition
