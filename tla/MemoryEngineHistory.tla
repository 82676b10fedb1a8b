------------------------- MODULE MemoryEngineHistory -------------------------
(***************************************************************************)
(* MemoryEngine without compression implements VersionHistory.             *)
(***************************************************************************)
EXTENDS MemoryEngine

\* Ids no write of a call under way still has to use.
SettledIds ==
  (1..issued) \ {job[t].fresh : t \in {u \in Tasks : job[u].pc \in {"draft", "commit"}}}

History == INSTANCE VersionHistory
             WITH HistoryIds <- Ids, used <- SettledIds,
                  next <- [i \in Rows |-> memories[i].superseded_by]

\* store, update, forget, purge, rebuild, crashes and compensations change the
\* memories table only as VersionHistory allows: ids are never reused, a
\* successor is set once, and no version outlives the one it points at.
ImplementsVersionHistory == History!HSpec
=============================================================================
