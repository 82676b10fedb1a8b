----------------------- MODULE MemoryEngineProperties -----------------------
(***************************************************************************)
(* What MemoryEngine promises.  Each property says which code it is about; *)
(* which calls and which faults it survives is fixed by the run that       *)
(* checks it (MCMemoryEngine and its configurations, README).              *)
(***************************************************************************)
EXTENDS MemoryEngine

\* Whatever step a crash follows, the database left behind passes the checks
\* of the next open: no superseded_by dangles (foreign_key_check) and every
\* memory, not only the active ones open looks at, still has its embedding.
DatabaseReopens == ForeignKeyCheck /\ embeddings = Rows

\* No cycle of superseded_by: every non-empty set of memories has one whose
\* successor lies outside of it.  find_superseded_chain and its 10,000-hop
\* guard rely on update() and compression never closing a cycle.
ChainsAcyclic ==
  \A S \in SUBSET Rows :
    S # {} => \E i \in S : memories[i].superseded_by \notin S

\* A version is superseded once: as long as a memory exists, the successor
\* mark_superseded gave it is never replaced (the IS NULL guard under races).
SupersessionIsFinal ==
  [][\A i \in Rows \cap DOMAIN memories' :
       memories[i].superseded_by # NoId =>
         memories'[i].superseded_by = memories[i].superseded_by]_vars

\* Of several racing updates of one version at most one is told it succeeded.
OneWinnerPerVersion ==
  \A t, u \in Tasks :
    /\ t # u
    /\ job[t].call = "update" /\ job[t].res = "ok"
    /\ job[u].call = "update" /\ job[u].res = "ok"
    => job[t].target # job[u].target

\* A store or update that reports a plain error (compensation included) has
\* left no trace of its new memory: no row, no vector.
FailedWriteLeavesNothing ==
  \A t \in Tasks :
    /\ job[t].pc = "idle"
    /\ job[t].call \in {"store", "update"}
    /\ job[t].res = "err"
    => job[t].fresh \notin Rows \cup index

\* Every active memory can be found by recall: its vector is in the index,
\* except while the call that is storing it has not inserted it yet.
ActiveIsSearchable ==
  up => \A i \in Active \ index :
          \E t \in Tasks : /\ job[t].fresh = i
                           /\ job[t].pc \in {"insert", "undo_insert", "undo_index"}

\* A memory whose forget returned Ok is gone from SQLite and from the vector
\* store, and stays gone.
ForgottenStaysGone ==
  \A t \in Tasks :
    /\ job[t].pc = "idle"
    /\ job[t].call = "forget" /\ job[t].res = "ok"
    => job[t].target \notin Rows \cup index

\* A memory that was updated does not outlive its successor, so the DELETE of
\* purge_expired never meets a live row that points at an expired one.
SuccessorOutlives ==
  \A i \in Rows :
    LET next == memories[i].superseded_by IN
    next # NoId =>
      \/ memories[next].expires_at = Never
      \/ /\ memories[i].expires_at # Never
         /\ memories[i].expires_at <= memories[next].expires_at

\* When compression reports Corruption, the database is corrupted: there is a
\* memory without its embedding, as the comments of compress_old_memories say.
CorruptionIsTrue ==
  [][\A t \in Tasks :
       job[t].pc = "fetch" /\ job'[t].res = "corruption" => ~(Rows \subseteq embeddings)]_vars

\* With purge_expired run again and again, an expired memory is eventually
\* deleted from SQLite.
ExpiredRowsLeave ==
  \A i \in Ids : (i \in Rows /\ Expired(i)) ~> (i \notin Rows)

\* Every call that was started returns (or dies with the process): no step of
\* it waits for a state that never comes, and compression runs out of clusters.
EveryCallReturns ==
  \A t \in Tasks : (job[t].pc # "idle") ~> (job[t].pc = "idle")
=============================================================================
