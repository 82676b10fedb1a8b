---------------------------- MODULE MemoryEngine ----------------------------
(***************************************************************************)
(* The storage core of memolite: MemoryEngine (src/src/engine.rs) over one *)
(* SQLite connection and one vector store.                                 *)
(*                                                                         *)
(* SQLite (memories, embeddings) is the durable truth, the vector store    *)
(* (index) a volatile copy of the active part of it.  Every engine method  *)
(* is async and takes &self, so calls of several tasks interleave; the     *)
(* connection mutex is held for one transaction and never across an await. *)
(* An action is therefore one locked section or one vector-store call,     *)
(* and job[t] is what the suspended future of task t remembers.            *)
(*                                                                         *)
(* Abstractions: a UUID is a number handed out in call order (never reused,*)
(* as Uuid::new_v4); content, metadata, confidence and access counts are   *)
(* left out; clutter says "type is Episodic and importance < 0.3", all the *)
(* compression filter looks at; time is a counter; a TTL is a duration,    *)
(* Never stands for no expiry.                                             *)
(***************************************************************************)
EXTENDS Integers, FiniteSets

CONSTANTS
  Tasks,        \* concurrent callers, the maintenance loop included
  MaxMemories,  \* bound: ids ever issued
  MaxTime,      \* bound: the clock
  Ttls,         \* expiries a store request may ask for
  NewExpiries,  \* values MemoryUpdate.new_expiry may carry (Keep: None)
  Clutters,     \* values of the clutter attribute a caller may store
  SummaryTtl,   \* TTL of a compression summary (Semantic default)
  CompressAge,  \* age a clutter memory must exceed to be compressed
  MinCluster,   \* cluster size worth a summary (3 in the code)
  Calls,        \* Calls[t]: the methods task t invokes
  Spellings,    \* how callers write an id for forget
  Faults,       \* which external failures can happen
  EarlyReads    \* may callers learn an id (by listing) before store returns?

Never == -1     \* expires_at IS NULL
Keep  == 0      \* MemoryUpdate.new_expiry = None
NoId  == 0      \* superseded_by IS NULL
Ids   == 1..MaxMemories

CallNames  == {"store", "update", "forget", "purge", "rebuild", "compress"}
FaultNames == {"sql", "read", "embed", "insert", "delete", "replace", "crash"}
Expiries   == {Never} \cup (Nat \ {0})

ASSUME BoundAssumption == MaxMemories \in Nat /\ MaxTime \in Nat
ASSUME ExpiryAssumption ==
  /\ Ttls \subseteq Expiries
  /\ NewExpiries \subseteq Expiries \cup {Keep}
  /\ SummaryTtl \in Expiries
ASSUME CompressAssumption ==
  /\ Clutters \subseteq BOOLEAN
  /\ CompressAge \in Nat
  /\ MinCluster \in Nat \ {0}
ASSUME CallAssumption ==
  /\ Calls \in [Tasks -> SUBSET CallNames]
  /\ Faults \subseteq FaultNames
  /\ Spellings \subseteq {"canonical", "other"}
  /\ EarlyReads \in BOOLEAN

VARIABLES
  memories,   \* table memories: id -> row
  embeddings, \* table embeddings: the memory_ids that have a row
  index,      \* ids held by the vector store
  now,        \* Utc::now()
  issued,     \* how many UUIDs were generated
  up,         \* a MemoryEngine value exists
  job         \* per task: the call it is in, or the outcome of its last call

vars == <<memories, embeddings, index, now, issued, up, job>>
db   == <<memories, embeddings>>

-----------------------------------------------------------------------------
(* Types *)

Row == [superseded_by : Ids \cup {NoId}, expires_at : Expiries,
        clutter : BOOLEAN, created_at : Nat]

Outcomes == {"none", "ok", "err", "comp_failed", "corruption"}
Pcs == {"idle", "draft", "commit", "insert", "undo_insert", "mark", "undo_row",
        "undo_index", "forget_index", "purge_index", "reconcile", "replace",
        "fetch", "cluster"}

Job == [pc : Pcs, call : CallNames \cup {"none"}, res : Outcomes,
        target : Ids \cup {NoId},   \* the id argument
        fresh : Ids \cup {NoId},    \* the id this call generated
        ttl : Expiries, clutter : BOOLEAN, created_at : Nat,  \* the StoreRequest
        batch : SUBSET Ids,         \* ids still to be worked through
        group : SUBSET Ids]         \* compression: ids read, then the cluster

Idle == [pc |-> "idle", call |-> "none", res |-> "none", target |-> NoId,
         fresh |-> NoId, ttl |-> Never, clutter |-> FALSE, created_at |-> 0,
         batch |-> {}, group |-> {}]

TypeOK ==
  /\ DOMAIN memories \subseteq Ids
  /\ memories \in [DOMAIN memories -> Row]
  /\ embeddings \subseteq Ids
  /\ index \subseteq Ids
  /\ now \in 0..MaxTime
  /\ issued \in 0..MaxMemories
  /\ up \in BOOLEAN
  /\ job \in [Tasks -> Job]

Init ==
  /\ memories = [i \in {} |-> Idle]
  /\ embeddings = {}
  /\ index = {}
  /\ now = 0
  /\ issued = 0
  /\ up = TRUE
  /\ job = [t \in Tasks |-> Idle]

-----------------------------------------------------------------------------
(* SQL *)

Rows == DOMAIN memories

Expired(i) == memories[i].expires_at # Never /\ memories[i].expires_at <= now

\* The rows reconcile_vector_index selects and recall serves by default.
Active == {i \in Rows : memories[i].superseded_by = NoId /\ ~Expired(i)}

\* (mutant: PRAGMA foreign_keys left off)
Deletable_NoForeignKeys(S) == TRUE

\* superseded_by REFERENCES memories(id): a DELETE that would leave a
\* dangling reference fails as a whole.
Deletable(S) == \A i \in Rows \ S : memories[i].superseded_by \notin S

\* (mutant: no ON DELETE CASCADE)
DeleteRows_NoCascade(S) ==
  /\ memories' = [i \in Rows \ S |-> memories[i]]
  /\ UNCHANGED embeddings

\* DELETE FROM memories, with the ON DELETE CASCADE of embeddings.
DeleteRows(S) ==
  /\ memories' = [i \in Rows \ S |-> memories[i]]
  /\ embeddings' = embeddings \ S

\* (mutant: the UPDATE lost its WHERE id = ?2)
Supersede_EveryRow(S, new) ==
  memories' = [i \in Rows |-> [memories[i] EXCEPT !.superseded_by = new]]

\* UPDATE memories SET superseded_by = new, for the rows of S.
Supersede(S, new) ==
  memories' = [i \in Rows |-> IF i \in S
                              THEN [memories[i] EXCEPT !.superseded_by = new]
                              ELSE memories[i]]

\* A statement fails.  A row or an embedding may also be there and not decode,
\* which stops those who read it and nobody else.
SqlFails  == "sql" \in Faults
ReadFails == {"sql", "read"} \cap Faults # {}

-----------------------------------------------------------------------------
(* Control of a call *)

Ready(t, c) == up /\ job[t].pc = "idle" /\ c \in Calls[t]

Proceed(t, j) == job' = [job EXCEPT ![t] = j]

\* Return from the method; only what the caller knows is kept.
Ended(j, r) == [Idle EXCEPT !.call = j.call, !.target = j.target,
                            !.fresh = j.fresh, !.res = r]
Return(t, r) == Proceed(t, Ended(job[t], r))

\* Ids a caller can have in hand: every id issued, except one whose row is
\* not committed or, unless callers list the table, not returned yet.
KnownIds ==
  (1..issued) \ {job[t].fresh : t \in {u \in Tasks :
                   IF EarlyReads THEN job[u].pc \in {"draft", "commit"}
                                 ELSE job[u].pc # "idle"}}

-----------------------------------------------------------------------------
(* store_with_options_id, shared by store, update and compression *)

\* The request is validated, the id generated and the clock read.
Store(t) ==
  /\ Ready(t, "store")
  /\ issued < MaxMemories
  /\ issued' = issued + 1
  /\ \E ttl \in Ttls, clutter \in Clutters :
       Proceed(t, [Idle EXCEPT !.pc = "commit", !.call = "store",
                               !.fresh = issued + 1, !.ttl = ttl,
                               !.clutter = clutter, !.created_at = now])
  /\ UNCHANGED <<db, index, now, up>>

\* The row being written: created_at + ttl is its expiry.
NewRow(j) == [superseded_by |-> NoId,
              expires_at |-> IF j.ttl = Never THEN Never ELSE j.created_at + j.ttl,
              clutter |-> j.clutter, created_at |-> j.created_at]

\* One transaction writes the memory and its embedding.
CommitRow(t) ==
  /\ job[t].pc = "commit"
  /\ memories' = [i \in Rows \cup {job[t].fresh} |->
                    IF i = job[t].fresh THEN NewRow(job[t]) ELSE memories[i]]
  /\ embeddings' = embeddings \cup {job[t].fresh}
  /\ Proceed(t, [job[t] EXCEPT !.pc = "insert"])
  /\ UNCHANGED <<index, now, issued, up>>

\* The embedder or the transaction fails before anything is written.
CommitFails(t) ==
  /\ job[t].pc = "commit"
  /\ Faults \cap {"embed", "sql"} # {}
  /\ Return(t, "err")
  /\ UNCHANGED <<db, index, now, issued, up>>

\* The vector is inserted; update and compression go on to the supersession.
InsertVector(t) ==
  /\ job[t].pc = "insert"
  /\ index' = index \cup {job[t].fresh}
  /\ IF job[t].call = "store" THEN Return(t, "ok")
                              ELSE Proceed(t, [job[t] EXCEPT !.pc = "mark"])
  /\ UNCHANGED <<db, now, issued, up>>

\* (mutant: the error is returned without deleting the row)
InsertVectorFails_NoUndo(t) ==
  /\ job[t].pc = "insert"
  /\ "insert" \in Faults
  /\ Return(t, "err")
  /\ UNCHANGED <<db, index, now, issued, up>>

InsertVectorFails(t) ==
  /\ job[t].pc = "insert"
  /\ "insert" \in Faults
  /\ Proceed(t, [job[t] EXCEPT !.pc = "undo_insert"])
  /\ UNCHANGED <<db, index, now, issued, up>>

\* Compensation of a failed insert: the row goes again, the error is returned.
UndoInsert(t) ==
  /\ job[t].pc = "undo_insert"
  /\ Deletable({job[t].fresh})
  /\ DeleteRows({job[t].fresh})
  /\ Return(t, "err")
  /\ UNCHANGED <<index, now, issued, up>>

UndoInsertFails(t) ==
  /\ job[t].pc = "undo_insert"
  /\ SqlFails \/ ~Deletable({job[t].fresh})
  /\ Return(t, "comp_failed")
  /\ UNCHANGED <<db, index, now, issued, up>>

-----------------------------------------------------------------------------
(* update *)

\* What update demands of the row its get() saw: there, the newest version,
\* and alive unless a new expiry revives it.
Accepts(i, expiry) ==
  /\ i \in Rows
  /\ memories[i].superseded_by = NoId
  /\ Expired(i) => expiry # Keep

\* update is refused by what it reads, or cannot read it.
UpdateRefused(t) ==
  /\ Ready(t, "update")
  /\ \E i \in KnownIds, expiry \in NewExpiries \cup {Keep} :
       /\ ReadFails \/ ~Accepts(i, expiry)
       /\ Proceed(t, [Idle EXCEPT !.call = "update", !.target = i, !.res = "err"])
  /\ UNCHANGED <<db, index, now, issued, up>>

\* (mutant: what is left of Never computed like any other expiry)
UpdateTtl_NeverNotSpecial(old, expiry) ==
  IF expiry # Keep THEN expiry ELSE old.expires_at - now

\* (mutant: a new version starts over with its type's default)
UpdateTtl_TypeDefault(old, expiry) == IF expiry # Keep THEN expiry ELSE SummaryTtl

\* The expiry of the new version: the one asked for, or what is left of the old.
UpdateTtl(old, expiry) ==
  IF expiry # Keep THEN expiry
  ELSE IF old.expires_at = Never THEN Never ELSE old.expires_at - now

\* get(id) and the request built from it; type and importance may change.
UpdateRead(t) ==
  /\ Ready(t, "update")
  /\ issued < MaxMemories
  /\ issued' = issued + 1
  /\ \E i \in KnownIds, expiry \in NewExpiries \cup {Keep} :
       /\ Accepts(i, expiry)
       /\ \E clutter \in Clutters \cup {memories[i].clutter} :
            Proceed(t, [Idle EXCEPT !.pc = "draft", !.call = "update",
                          !.target = i, !.fresh = issued + 1,
                          !.ttl = UpdateTtl(memories[i], expiry),
                          !.clutter = clutter])
  /\ UNCHANGED <<db, index, now, up>>

\* store_with_options_id reads the clock again: the kept TTL starts here.
UpdateDraft(t) ==
  /\ job[t].pc = "draft"
  /\ Proceed(t, [job[t] EXCEPT !.pc = "commit", !.created_at = now])
  /\ UNCHANGED <<db, index, now, issued, up>>

\* (mutant: AND superseded_by IS NULL dropped)
Markable_NoGuard(j) == j.target \in Rows /\ j.fresh \in Rows

\* mark_superseded: UPDATE ... WHERE id = old AND superseded_by IS NULL
\* affects a row, and the foreign key finds the new version.
Markable(j) == /\ j.target \in Rows
               /\ memories[j.target].superseded_by = NoId
               /\ j.fresh \in Rows

MarkSuperseded(t) ==
  /\ job[t].pc = "mark" /\ job[t].call = "update"
  /\ Markable(job[t])
  /\ Supersede({job[t].target}, job[t].fresh)
  /\ Return(t, "ok")
  /\ UNCHANGED <<embeddings, index, now, issued, up>>

\* NotFound, "already superseded" (a lost race) or a database error.
MarkSupersededFails(t) ==
  /\ job[t].pc = "mark" /\ job[t].call = "update"
  /\ SqlFails \/ ~Markable(job[t])
  /\ Proceed(t, [job[t] EXCEPT !.pc = "undo_row"])
  /\ UNCHANGED <<db, index, now, issued, up>>

\* Compensation of a failed mark: the new row, then the new vector.  update
\* reports a failing compensation, compression ignores it.
UndoRow(t) ==
  /\ job[t].pc = "undo_row"
  /\ Deletable({job[t].fresh})
  /\ DeleteRows({job[t].fresh})
  /\ Proceed(t, [job[t] EXCEPT !.pc = "undo_index", !.res = "err"])
  /\ UNCHANGED <<index, now, issued, up>>

CompensationFailure(j) == IF j.call = "update" THEN "comp_failed" ELSE "err"

UndoRowFails(t) ==
  /\ job[t].pc = "undo_row"
  /\ SqlFails \/ ~Deletable({job[t].fresh})
  /\ Proceed(t, [job[t] EXCEPT !.pc = "undo_index",
                               !.res = CompensationFailure(job[t])])
  /\ UNCHANGED <<db, index, now, issued, up>>

\* (mutant: only the row is taken back)
UndoIndex_KeepsVector(t) ==
  /\ job[t].pc = "undo_index"
  /\ Return(t, job[t].res)
  /\ UNCHANGED <<db, index, now, issued, up>>

UndoIndex(t) ==
  /\ job[t].pc = "undo_index"
  /\ index' = index \ {job[t].fresh}
  /\ Return(t, job[t].res)
  /\ UNCHANGED <<db, now, issued, up>>

UndoIndexFails(t) ==
  /\ job[t].pc = "undo_index"
  /\ "delete" \in Faults
  /\ Return(t, CompensationFailure(job[t]))
  /\ UNCHANGED <<db, index, now, issued, up>>

-----------------------------------------------------------------------------
(* forget *)

\* The rows `DELETE ... WHERE id = ?1` matches: the argument is compared with
\* the stored text as it was written, while Uuid::parse_str (and so the vector
\* store) takes any spelling of the id.
Matching(i, spelling) == IF spelling = "canonical" THEN {i} \cap Rows ELSE {}

Forget(t) ==
  /\ Ready(t, "forget")
  /\ \E i \in KnownIds, spelling \in Spellings :
       /\ Deletable(Matching(i, spelling))
       /\ DeleteRows(Matching(i, spelling))
       /\ Proceed(t, [Idle EXCEPT !.pc = "forget_index", !.call = "forget",
                                  !.target = i])
  /\ UNCHANGED <<index, now, issued, up>>

\* The DELETE fails: a database error, or another version points at this one.
ForgetFails(t) ==
  /\ Ready(t, "forget")
  /\ \E i \in KnownIds, spelling \in Spellings :
       /\ SqlFails \/ ~Deletable(Matching(i, spelling))
       /\ Proceed(t, [Idle EXCEPT !.call = "forget", !.target = i, !.res = "err"])
  /\ UNCHANGED <<db, index, now, issued, up>>

\* (mutant: the vector is left to the next rebuild)
ForgetVector_Skipped(t) ==
  /\ job[t].pc = "forget_index"
  /\ Return(t, "ok")
  /\ UNCHANGED <<db, index, now, issued, up>>

ForgetVector(t) ==
  /\ job[t].pc = "forget_index"
  /\ index' = index \ {job[t].target}
  /\ Return(t, "ok")
  /\ UNCHANGED <<db, now, issued, up>>

ForgetVectorFails(t) ==
  /\ job[t].pc = "forget_index"
  /\ "delete" \in Faults
  /\ Proceed(t, [job[t] EXCEPT !.pc = "reconcile"])
  /\ UNCHANGED <<db, index, now, issued, up>>

-----------------------------------------------------------------------------
(* purge_expired *)

\* (mutant: only active rows are purged)
ExpiredRows_NotSuperseded ==
  {i \in Rows : Expired(i) /\ memories[i].superseded_by = NoId}

ExpiredRows == {i \in Rows : Expired(i)}

\* One DELETE removes every expired row and returns their ids.
Purge(t) ==
  /\ Ready(t, "purge")
  /\ Deletable(ExpiredRows)
  /\ DeleteRows(ExpiredRows)
  /\ Proceed(t, IF ExpiredRows = {}
                THEN [Idle EXCEPT !.call = "purge", !.res = "ok"]
                ELSE [Idle EXCEPT !.pc = "purge_index", !.call = "purge",
                                  !.batch = ExpiredRows])
  /\ UNCHANGED <<index, now, issued, up>>

\* The DELETE fails as a whole: nothing is purged.
PurgeFails(t) ==
  /\ Ready(t, "purge")
  /\ SqlFails \/ ~Deletable(ExpiredRows)
  /\ Proceed(t, [Idle EXCEPT !.call = "purge", !.res = "err"])
  /\ UNCHANGED <<db, index, now, issued, up>>

\* (mutant: a deleted vector is not taken off the list)
PurgeVector_Repeated(t) ==
  /\ job[t].pc = "purge_index"
  /\ \E i \in job[t].batch : index' = index \ {i}
  /\ UNCHANGED <<db, now, issued, up, job>>

\* The vectors follow one by one; a failure is remembered, the loop goes on.
PurgeVector(t) ==
  /\ job[t].pc = "purge_index"
  /\ \E i \in job[t].batch :
       \/ /\ index' = index \ {i}
          /\ Proceed(t, [job[t] EXCEPT !.batch = @ \ {i}])
       \/ /\ "delete" \in Faults
          /\ Proceed(t, [job[t] EXCEPT !.batch = @ \ {i}, !.res = "err"])
          /\ UNCHANGED index
  /\ UNCHANGED <<db, now, issued, up>>

PurgeEnd(t) ==
  /\ job[t].pc = "purge_index" /\ job[t].batch = {}
  /\ IF job[t].res = "err" THEN Proceed(t, [job[t] EXCEPT !.pc = "reconcile"])
                           ELSE Return(t, "ok")
  /\ UNCHANGED <<db, index, now, issued, up>>

-----------------------------------------------------------------------------
(* rebuild_vector_index, and the reconciliation forget and purge fall back on *)

Rebuild(t) ==
  /\ Ready(t, "rebuild")
  /\ Proceed(t, [Idle EXCEPT !.pc = "reconcile", !.call = "rebuild"])
  /\ UNCHANGED <<db, index, now, issued, up>>

\* The active rows are read under the connection lock, which is then released.
Reconcile(t) ==
  /\ job[t].pc = "reconcile"
  /\ Active \subseteq embeddings
  /\ Proceed(t, [job[t] EXCEPT !.pc = "replace", !.batch = Active])
  /\ UNCHANGED <<db, index, now, issued, up>>

\* What the caller is told: forget and purge report their own failure.
Reconciled(j) == IF j.call = "rebuild" THEN "ok" ELSE "err"
NotReconciled(j) == IF j.call = "rebuild" THEN "err" ELSE "comp_failed"

ReconcileFails(t) ==
  /\ job[t].pc = "reconcile"
  /\ ReadFails \/ ~(Active \subseteq embeddings)
  /\ Return(t, NotReconciled(job[t]))
  /\ UNCHANGED <<db, index, now, issued, up>>

\* replace_all swaps the whole index for the rows read before.
ReplaceAll(t) ==
  /\ job[t].pc = "replace"
  /\ index' = job[t].batch
  /\ Return(t, Reconciled(job[t]))
  /\ UNCHANGED <<db, now, issued, up>>

ReplaceAllFails(t) ==
  /\ job[t].pc = "replace"
  /\ "replace" \in Faults
  /\ Return(t, NotReconciled(job[t]))
  /\ UNCHANGED <<db, index, now, issued, up>>

-----------------------------------------------------------------------------
(* compress_old_memories *)

Eligible(i) == /\ memories[i].clutter
               /\ now - memories[i].created_at > CompressAge
               /\ memories[i].superseded_by = NoId
               /\ memories[i].expires_at = Never \/ memories[i].expires_at >= now

Candidates == {i \in Rows : Eligible(i)}

\* The candidates are read in one scan ...
Compress(t) ==
  /\ Ready(t, "compress")
  /\ Proceed(t, IF Candidates = {}
                THEN [Idle EXCEPT !.call = "compress", !.res = "ok"]
                ELSE [Idle EXCEPT !.pc = "fetch", !.call = "compress",
                                  !.batch = Candidates])
  /\ UNCHANGED <<db, index, now, issued, up>>

\* The scan itself fails.
CompressFails(t) ==
  /\ Ready(t, "compress")
  /\ ReadFails
  /\ Proceed(t, [Idle EXCEPT !.call = "compress", !.res = "err"])
  /\ UNCHANGED <<db, index, now, issued, up>>

\* ... and their embeddings one at a time, each under its own lock.
FetchEmbedding(t) ==
  /\ job[t].pc = "fetch"
  /\ \E i \in job[t].batch \cap embeddings :
       LET read == job[t].group \cup {i} IN
       Proceed(t, IF job[t].batch = {i}
                  THEN [job[t] EXCEPT !.pc = "cluster", !.batch = read, !.group = {}]
                  ELSE [job[t] EXCEPT !.batch = @ \ {i}, !.group = read])
  /\ UNCHANGED <<db, index, now, issued, up>>

\* An embedding cannot be read.
FetchFails(t) ==
  /\ job[t].pc = "fetch"
  /\ ReadFails
  /\ Return(t, "err")
  /\ UNCHANGED <<db, index, now, issued, up>>

\* A candidate without an embedding is reported as Corruption.
FetchMissing(t) ==
  /\ job[t].pc = "fetch"
  /\ ~(job[t].batch \subseteq embeddings)
  /\ Return(t, "corruption")
  /\ UNCHANGED <<db, index, now, issued, up>>

\* The next cluster large enough is summarised: store_with_options_id starts.
\* Which candidates are similar is data: any disjoint clusters may come out.
Summarise(t) ==
  /\ job[t].pc = "cluster"
  /\ issued < MaxMemories
  /\ issued' = issued + 1
  /\ \E cluster \in SUBSET job[t].batch :
       /\ Cardinality(cluster) >= MinCluster
       /\ Proceed(t, [job[t] EXCEPT !.pc = "commit", !.fresh = issued + 1,
                        !.ttl = SummaryTtl, !.clutter = FALSE, !.created_at = now,
                        !.group = cluster, !.batch = @ \ cluster])
  /\ UNCHANGED <<db, index, now, up>>

CompressEnd(t) ==
  /\ job[t].pc = "cluster"
  /\ Return(t, "ok")
  /\ UNCHANGED <<db, index, now, issued, up>>

\* mark_all_superseded: UPDATE ... WHERE id = old for every original, in one
\* transaction.  The foreign key only speaks when a row is affected.
AllMarkable(j) == j.fresh \in Rows \/ j.group \cap Rows = {}

MarkAllSuperseded(t) ==
  /\ job[t].pc = "mark" /\ job[t].call = "compress"
  /\ AllMarkable(job[t])
  /\ Supersede(job[t].group, job[t].fresh)
  /\ Proceed(t, [job[t] EXCEPT !.pc = "cluster", !.group = {}])
  /\ UNCHANGED <<embeddings, index, now, issued, up>>

MarkAllSupersededFails(t) ==
  /\ job[t].pc = "mark" /\ job[t].call = "compress"
  /\ SqlFails \/ ~AllMarkable(job[t])
  /\ Proceed(t, [job[t] EXCEPT !.pc = "undo_row"])
  /\ UNCHANGED <<db, index, now, issued, up>>

-----------------------------------------------------------------------------
(* The environment and the lifecycle *)

Tick ==
  /\ now < MaxTime
  /\ now' = now + 1
  /\ UNCHANGED <<db, index, issued, up, job>>

\* The process ends (or the engine is dropped): calls and index are lost.
Crash ==
  /\ "crash" \in Faults
  /\ up
  /\ up' = FALSE
  /\ index' = {}
  /\ job' = [t \in Tasks |-> Idle]
  /\ UNCHANGED <<db, now, issued>>

\* PRAGMA foreign_key_check
ForeignKeyCheck == \A i \in Rows : memories[i].superseded_by \in Rows \cup {NoId}

\* (mutant: BackfillPolicy::ExistingOnly on a fresh in-memory store)
Open_NoBackfill ==
  /\ ~up
  /\ ForeignKeyCheck
  /\ up' = TRUE
  /\ UNCHANGED <<db, index, now, issued, job>>

\* open: refuses a corrupt database, rebuilds the index before anyone calls.
Open ==
  /\ ~up
  /\ ForeignKeyCheck
  /\ Active \subseteq embeddings
  /\ up' = TRUE
  /\ index' = Active
  /\ UNCHANGED <<db, now, issued, job>>

\* The next step of a call under way.
Continue(t) ==
  \/ CommitRow(t) \/ CommitFails(t)
  \/ InsertVector(t) \/ InsertVectorFails(t)
  \/ UndoInsert(t) \/ UndoInsertFails(t)
  \/ UpdateDraft(t) \/ MarkSuperseded(t) \/ MarkSupersededFails(t)
  \/ UndoRow(t) \/ UndoRowFails(t) \/ UndoIndex(t) \/ UndoIndexFails(t)
  \/ ForgetVector(t) \/ ForgetVectorFails(t)
  \/ PurgeVector(t) \/ PurgeEnd(t)
  \/ Reconcile(t) \/ ReconcileFails(t) \/ ReplaceAll(t) \/ ReplaceAllFails(t)
  \/ FetchEmbedding(t) \/ FetchMissing(t) \/ FetchFails(t)
  \/ Summarise(t) \/ CompressEnd(t)
  \/ MarkAllSuperseded(t) \/ MarkAllSupersededFails(t)

\* A caller starts a method.
Start(t) ==
  \/ Store(t) \/ UpdateRefused(t) \/ UpdateRead(t)
  \/ Forget(t) \/ ForgetFails(t) \/ Purge(t) \/ PurgeFails(t)
  \/ Rebuild(t) \/ Compress(t) \/ CompressFails(t)

Next ==
  \/ Tick \/ Crash \/ Open
  \/ \E t \in Tasks : Start(t) \/ Continue(t)

Spec == Init /\ [][Next]_vars

\* A runtime that polls its futures finishes every step that is possible.
Running == \A t \in Tasks : WF_vars(Continue(t))

\* The maintenance loop purges again and again; its interval timer is fair
\* as long as time goes on.
Maintained == \A t \in Tasks : WF_vars(Purge(t) \/ PurgeFails(t))

FairSpec == Spec /\ Running /\ WF_vars(Open)
PurgingSpec == Spec /\ Running /\ Maintained /\ WF_vars(Tick)
=============================================================================
