SPECIFICATION FairSpec
CONSTANTS
  s1 = s1
  s2 = s2
  e1 = e1
  e2 = e2
  k1 = k1
  k2 = k2
  v1 = v1
  v2 = v2
  NoValue = NoValue
  Reuse = FALSE
  MaxEdits = 2
  MaxFaults = 0
  Station <- TwoStations
  Entity <- TwoEntities
  Kind <- OneKind
  KindOf <- SameKind
  Rank <- InOrder
  Wish <- Crossing
  Exempt <- TwoEntities
  Value <- TwoValues
  Plant <- Both
  Rowed <- OneKind
  Fresh <- NoStation
  Editor <- TwoStations
  Sweeper <- NoStation
  Author <- ByFirst
  Faults <- NoFaults
PROPERTIES
  SavesEnd
CHECK_DEADLOCK FALSE
