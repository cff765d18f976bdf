SPECIFICATION Spec
CONSTANTS
  s1 = s1
  s2 = s2
  e1 = e1
  e2 = e2
  k1 = k1
  k2 = k2
  v1 = v1
  v2 = v2
  NoValue = NoValue
  Reuse = FALSE
  MaxEdits = 1
  MaxFaults = 1
  Station <- TwoStations
  Entity <- TwoEntities
  Kind <- TwoKinds
  KindOf <- OwnKinds
  Rank <- InOrder
  Wish <- Anything
  Exempt <- SecondExempt
  Value <- TwoValues
  Plant <- Both
  Rowed <- OneKind
  Fresh <- Second
  Editor <- OneStation
  Sweeper <- NoStation
  Author <- ByFirst
  Faults <- ReattachFaults
INVARIANTS
  UnmigratedKept
  MirrorOrDirty
  HistoryComplete
CHECK_DEADLOCK FALSE
