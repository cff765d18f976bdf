SPECIFICATION Spec
CONSTANTS
  s1 = s1
  s2 = s2
  e1 = e1
  e2 = e2
  k1 = k1
  k2 = k2
  v1 = v1
  v2 = v2
  NoValue = NoValue
  Reuse = TRUE
  MaxEdits = 2
  MaxFaults = 0
  Station <- TwoStations
  Entity <- OneEntity
  Kind <- OneKind
  KindOf <- SameKind
  Rank <- InOrder
  Wish <- Anything
  Exempt <- NoExempt
  Value <- TwoValues
  Plant <- FirstOnly
  Rowed <- OneKind
  Fresh <- NoStation
  Editor <- OneStation
  Sweeper <- TwoStations
  Author <- ByFirst
  Faults <- NoFaults
INVARIANTS
  RevTellsRowsApart
