CONSTANTS
  c1 = c1
  c2 = c2
  c3 = c3
  s1 = s1
  s2 = s2
  k1 = k1
  t1 = t1
  Call = {c1, c2, c3}
  Server = {s1, s2}
  Home <- TwoServers
  Key = {k1}
  Type = {t1}
  NoType = NoType
  TypeOf <- OneType
  Operation = {"get", "set", "broadcast", "put"}
  Strict = FALSE
  Faults = {"reject", "message", "outage"}
  MaxFaults = 1
  MaxMessages = 1
  MaxWrites = 2
  MaxLosses = 1
SPECIFICATION Spec
SYMMETRY TwoServersSymmetry
INVARIANTS
  TypeOK
  BroadcastPurges
  OwnBroadcastIsLast
PROPERTY
  ReadsAreMonotonic
