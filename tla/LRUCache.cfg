CONSTANTS
  Key = {a, b, c, d}
  Null = Null
  MaxSize = 3
  TTL = {0, 1}
  MaxUses = 6
SPECIFICATION FairSpec
INVARIANTS
  TypeOK
  Linked
  RecencyOrder
  SizeBound
PROPERTIES
  ImplementsPolicy
  CallsTerminate
