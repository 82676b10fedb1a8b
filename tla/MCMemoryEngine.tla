--------------------------- MODULE MCMemoryEngine ---------------------------
(***************************************************************************)
(* Instances of MemoryEngine for TLC: who calls what in each run.          *)
(***************************************************************************)
EXTENDS MemoryEngineProperties, MemoryEngineHistory, TLC

CONSTANTS t1, t2

Symmetry == Permutations(Tasks)

\* Two tasks that may call the same methods.
Both(calls) == [t \in Tasks |-> calls]

VersionCalls  == [t \in Tasks |-> IF t = t1 THEN {"store", "update"}
                                             ELSE {"update", "forget", "purge", "rebuild"}]
LifeCalls     == Both({"store", "update", "forget", "purge", "compress"})
CompressCalls == Both({"store", "update", "compress"})
RebuildCalls  == Both({"store", "rebuild"})
RemovalCalls  == Both({"store", "forget", "compress"})

\* t1 is a caller, t2 the maintenance loop.
PurgeCalls == [t \in Tasks |-> IF t = t1 THEN {"store", "update"} ELSE {"purge"}]

NoExpiry     == {Never}
TtlsVersions == {Never, 1}
TtlsExpiry   == {Never, 1, 2}
=============================================================================
