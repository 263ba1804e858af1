CONSTANTS
  c1 = c1
  c2 = c2
  c3 = c3
  s1 = s1
  s2 = s2
  Caller = {c1, c2, c3}
  Server = {s1, s2}
  Home <- TwoServers
  Key = {k1}
  None = None
  Redis = Redis
  HasL2 = TRUE
  LockTtl = 6
  WaitTime = 5
  MaxFetch = 1
  Prompt = TRUE
  Faults = {"redis"}
  MaxLosses = 1
SPECIFICATION Spec
SYMMETRY TwoServersSymmetry
INVARIANTS
  Degrades
