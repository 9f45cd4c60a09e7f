\* Two requests that create overlapping subnets at the same time.
SPECIFICATION Spec
CONSTANTS
  CIDRs <- MCCIDRs
  SubnetIds = {s1, s2}
  AddressIds = {a1, a2}
  Devices = {d1}
  Names <- MCNames
  NameOf <- MCNameOf
  Requests = {r1, r2}
  MaxRequests = 4
  MaxFile = 2
  None = None
SYMMETRY Symmetry
INVARIANT OverlapsBlocked
CHECK_DEADLOCK FALSE
