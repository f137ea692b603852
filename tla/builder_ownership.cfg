SPECIFICATION Spec
CONSTANTS
  NULL = NULL
  Torn = Torn
  x1 = x1
  x2 = x2
  x3 = x3
  Parties <- MCParties
  Account = {x1, x2, x3}
  Keyed = {x1}
  Script = {s1}
  Sgn = {g1, g2, g3, g4}
  Txn = {t1, t2}
  Blk = {d1, d2}
  Value = {0, 1}
  MaxFee = 1
  MaxAttributes = 3
  MaxWitnesses = 2
  MaxSigners = 2
  Workload <- Calls
CONSTRAINT Few
SYMMETRY Symmetric
INVARIANT TypeOK
INVARIANT SignerOwnedOnce
INVARIANT SignersUnique
INVARIANT AttributesOwned
PROPERTY SignsCurrent
PROPERTY BuiltFaithful
