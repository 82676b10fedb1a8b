SPECIFICATION PartsSpec
CONSTANTS
  Openers = {p1, p2, p3}
  OldRows = {old}
  NewRows = {new}
  MaxOpens = 2
  MaxFaults = 2
  Chunks <- ShortTexts
  MaxText = 6
  MaxVectors = 4
  Lengths = {1, 4}
  SummaryChars = 10
  ClusterSize = 3
  Uuids = {1, 2, 3}
  Scores = {0, 1}
  Batches <- ShortBatches
  MaxHits = 2
INVARIANTS
  RecordIsTrue
  OpenMeansMigrated
  SplitsExactly
  ClustersAreGreedy
  HitsAreBest
PROPERTIES
  OpenedInTheEnd
CHECK_DEADLOCK FALSE
