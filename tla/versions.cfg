SPECIFICATION Spec
CONSTANTS
  t1 = t1
  t2 = t2
  Tasks = {t1, t2}
  MaxMemories = 3
  MaxTime = 1
  Ttls <- TtlsVersions
  NewExpiries = {}
  Clutters = {FALSE}
  SummaryTtl = 2
  CompressAge = 0
  MinCluster = 2
  Calls <- VersionCalls
  Spellings = {"canonical", "other"}
  Faults = {"sql", "read", "insert", "delete", "replace", "crash"}
  EarlyReads = TRUE
INVARIANTS
  TypeOK
  DatabaseReopens
  ChainsAcyclic
  OneWinnerPerVersion
PROPERTIES
  SupersessionIsFinal
  ImplementsVersionHistory
