SPECIFICATION RecallSpec
CONSTANTS
  r1 = r1
  r2 = r2
  Tasks = {t1}
  Readers = {r1, r2}
  MaxMemories = 2
  MaxTime = 1
  Ttls = {1}
  NewExpiries = {2}
  Clutters = {FALSE, TRUE}
  SummaryTtl = 2
  CompressAge = 0
  MinCluster = 2
  Calls <- Writing
  Spellings = {"canonical"}
  Faults = {"insert", "crash"}
  EarlyReads = FALSE
  Queries <- Asked
  Limit = 1
  MinPool = 2
  MaxPool = 2
  StaleAfter <- StaleAfterOne
  Threshold = 2
  Confidences = {"explicit", "inferred"}
  MaxAccess = 1
INVARIANTS
  NoAccessLost
  PromotedExactly
  NothingBarred
  FindsWhatIsThere
  ReturnsOwnAccess
  AccessClockSane
  StaleAgree
PROPERTY
  StatsNeverFall
