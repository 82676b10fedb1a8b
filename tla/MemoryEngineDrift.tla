-------------------------- MODULE MemoryEngineDrift --------------------------
(***************************************************************************)
(* MemoryEngine with a history variable: degraded says that some call has  *)
(* admitted a failed compensation since the index was last replaced.       *)
(***************************************************************************)
EXTENDS MemoryEngineProperties

VARIABLE degraded

\* A compression gives up the summary it could not supersede with, and leaves
\* its row or its vector behind: documented as best effort, not escalated.
CleanUpFailed(t) ==
  /\ job[t].call = "compress" /\ job[t].pc = "undo_index"
  /\ job[t].fresh \in Rows \cup index'

\* The returns that admit drift.
AdmitsDrift(t) == job'[t].res = "comp_failed" \/ CleanUpFailed(t)

Returned(t) == job[t] # job'[t] /\ job'[t].pc = "idle"

IndexReplaced == \/ ~up /\ up'
                 \/ \E t \in Tasks : job[t].pc = "replace" /\ index' = job[t].batch

DriftInit == Init /\ degraded = FALSE

DriftNext ==
  /\ Next
  /\ degraded' = \/ \E t \in Tasks : Returned(t) /\ AdmitsDrift(t)
                 \/ degraded /\ ~IndexReplaced

DriftSpec == DriftInit /\ [][DriftNext]_<<vars, degraded>>

\* A runtime that polls its futures, and somebody who opens the database again.
FairDriftSpec == DriftSpec /\ Running /\ WF_vars(Open)

Quiet == up /\ \A t \in Tasks : job[t].pc = "idle"

\* Whatever fails, and in whichever combination, between calls of a single
\* caller the index holds every active memory and no vector without a row,
\* unless CompensationFailed told the caller that a rebuild is needed (or a
\* compression failed and could not take its summary back).
DriftIsReported == Quiet /\ ~degraded => Active \subseteq index /\ index \subseteq Rows
=============================================================================
