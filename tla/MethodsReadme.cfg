SPECIFICATION Spec
CONSTANTS
  Call = {c1, c2}
  c1 = c1
  c2 = c2
  c3 = c3
  Id = {"1"}
  Type <- UserProfile
  Text <- OneText
  Styles <- Readme
  ChangeName = "updateUser"
  Returned <- Value
  Encode <- ToJson
  Decode <- FromJson
  MaxWrites = 2
  MaxLosses = 1
INVARIANTS OnlyRacesAreStale
CHECK_DEADLOCK FALSE
