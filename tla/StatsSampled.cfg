CONSTANTS
  Call = {c1, c2}
  Type = {t1}
  NoType = NoType
  Connected = {TRUE, FALSE}
  Rejects = TRUE
  Latency = {1, 2}
  Sampled = {TRUE}
  MaxSamples = 2
  MaxOps = 5
SPECIFICATION Spec
INVARIANTS
  TypeOK
  WindowsAreRecent
  CountersAddUp
  OverallHitRate
  NearestRank
