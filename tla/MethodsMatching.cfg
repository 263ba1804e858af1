SPECIFICATION Spec
CONSTANTS
  Call = {c1, c2, c3}
  c1 = c1
  c2 = c2
  c3 = c3
  Id = {"1", "2"}
  Type <- UserProfile
  Text <- OneText
  Styles <- Matching
  ChangeName = "updateUser"
  Returned <- Value
  Encode <- ToJson
  Decode <- FromJson
  MaxWrites = 2
  MaxLosses = 2
SYMMETRY Symmetry
INVARIANTS TypeOK RightResult TiersAgree OnlyRacesAreStale
CHECK_DEADLOCK FALSE
