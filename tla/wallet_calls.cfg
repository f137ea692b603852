SPECIFICATION Spec
CONSTANTS
  x1 = x1
  x2 = x2
  x3 = x3
  a1 = a1
  a2 = a2
  a3 = a3
  a4 = a4
  p1 = p1
  p2 = p2
  NULL = NULL
  Blank = Blank
  Address = {x1, x2, x3}
  Pass = {p1, p2}
  Acct = {a1, a2, a3, a4}
  InitialCapacity = 1
  Workload <- Workloads
SYMMETRY Symmetric
INVARIANT TypeOK
INVARIANT DefaultLive
INVARIANT Ownership
INVARIANT AddressesUnique
INVARIANT DefaultFlag
INVARIANT SignsForItself
PROPERTY LoadFaithful
PROPERTY KeyKept
