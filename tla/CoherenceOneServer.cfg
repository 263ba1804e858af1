CONSTANTS
  c1 = c1
  c2 = c2
  c3 = c3
  s1 = s1
  s2 = s2
  k1 = k1
  t1 = t1
  Call = {c1, c2}
  Server = {s1}
  Home <- OneServer
  Key = {k1, k2}
  Type = {t1}
  NoType = NoType
  TypeOf <- OneType
  Operation = {"get", "peek", "set", "refresh", "delete", "invalidate", "byType", "byPattern", "clear"}
  Strict = FALSE
  Faults = {"origin"}
  MaxFaults = 0
  MaxMessages = 0
  MaxWrites = 2
  MaxLosses = 1
SPECIFICATION FairSpec
INVARIANTS
  CopiesAgree
  RegistryCovers
PROPERTY
  CallsReturn
