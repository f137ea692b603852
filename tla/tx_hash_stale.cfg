SPECIFICATION Spec
CONSTANTS
  NULL = NULL
  Torn = Torn
  x1 = x1
  x2 = x2
  x3 = x3
  Parties <- MCParties
  Account = {x1, x2}
  Keyed = {x1}
  Script = {s1}
  Sgn = {g1, g2, g3}
  Txn = {t1, t2}
  Blk = {d1}
  Value = {0, 1}
  MaxFee = 1
  MaxAttributes = 1
  MaxWitnesses = 1
  MaxSigners = 2
  Workload <- Hashing
SYMMETRY Symmetric
INVARIANT CachedHash
