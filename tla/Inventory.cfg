SPECIFICATION Spec
CONSTANTS
  CIDRs <- MCCIDRs
  SubnetIds = {s1, s2}
  AddressIds = {a1, a2}
  Devices = {d1}
  Names <- MCNames
  NameOf <- MCNameOf
  Requests = {r1, r2}
  MaxRequests = 4
  MaxFile = 2
  None = None
SYMMETRY Symmetry
INVARIANTS SubnetsDisjoint AddressesFiled OrphansRemoved
PROPERTY OthersUntouched
\* The bound on requests runs out.
CHECK_DEADLOCK FALSE
