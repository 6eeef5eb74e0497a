SPECIFICATION ReadinessSpec
CONSTANTS
  ToNew = TRUE
  ToChange = TRUE
  Changing <- SomeChanging
  Initial <- SomeInitial
  MostProjects = 2
  Loops = {w1, w2}
  Events = {1, 2}
  MaxAttempts = 2
  MaxTries = 2
  MaxTrouble = 2
INVARIANT ProcessedMeansKnown
PROPERTIES GoodNewsIsTrue SnapshotsCatchUp EventsEnd
