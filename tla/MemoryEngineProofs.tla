------------------------- MODULE MemoryEngineProofs -------------------------
(***************************************************************************)
(* Theorems about MemoryEngine, for every value of its constants.          *)
(***************************************************************************)
EXTENDS MemoryEngineProperties, WellFoundedInduction, TLAPS

\* Where a call has generated an id and is not done with it.
Storing == {"draft", "commit", "insert", "undo_insert", "mark", "undo_row", "undo_index"}

\* A call under way when n ids are issued: its new id is issued, and younger
\* than whatever it is going to supersede; the ids it works on are issued.
JobOK(j, n) ==
  /\ j \in Job
  /\ j.batch \cup j.group \subseteq 1..n
  /\ j.target \in 0..n
  /\ j.pc \in Storing => /\ j.fresh \in 1..n
                         /\ j.target < j.fresh
                         /\ \A i \in j.group : i < j.fresh

\* A successor is younger than the memory it supersedes.
ChainOrder ==
  \A i \in Rows : memories[i].superseded_by # NoId => i < memories[i].superseded_by

DbOK ==
  /\ Rows \subseteq 1..issued
  /\ memories \in [Rows -> Row]
  /\ embeddings = Rows
  /\ ForeignKeyCheck
  /\ ChainOrder

\* The inductive invariant.
IInv ==
  /\ now \in 0..MaxTime /\ issued \in 0..MaxMemories /\ up \in BOOLEAN
  /\ index \subseteq Ids
  /\ DbOK
  /\ job \in [Tasks -> Job]
  /\ \A t \in Tasks : JobOK(job[t], issued)

-----------------------------------------------------------------------------
(* Calls *)

\* The state of a task that is in no call satisfies the job invariant.
LEMMA IdleOK ==
  ASSUME NEW n \in Nat PROVE JobOK(Idle, n)
  BY DEF JobOK, Idle, Job, Pcs, Outcomes, Expiries, Never, NoId, Storing

\* So does the outcome of a call that ends.
LEMMA EndedOK ==
  ASSUME NEW n \in Nat, NEW j \in Job, NEW r \in Outcomes, JobOK(j, n)
  PROVE  JobOK(Ended(j, r), n)
  <1>1. Ended(j, r) \in Job
    BY DEF Ended, Idle, Job, Pcs, Expiries, Never, NoId
  <1>2. Ended(j, r).pc = "idle" /\ Ended(j, r).batch = {} /\ Ended(j, r).group = {}
    BY DEF Ended, Idle
  <1> QED BY <1>1, <1>2 DEF JobOK, Ended, Idle, NoId, Storing

\* Ids stay issued.
LEMMA JobMonotone ==
  ASSUME NEW n \in Nat, NEW m \in Nat, n <= m, NEW j, JobOK(j, n)
  PROVE  JobOK(j, m)
  BY DEF JobOK

\* A step of one task keeps the others' invariant.
LEMMA JobsOK ==
  ASSUME NEW t \in Tasks, NEW j, Proceed(t, j),
         issued \in Nat, issued' \in Nat, issued <= issued',
         job \in [Tasks -> Job], \A u \in Tasks : JobOK(job[u], issued),
         JobOK(j, issued')
  PROVE  job' \in [Tasks -> Job] /\ \A u \in Tasks : JobOK(job'[u], issued')
  <1>1. j \in Job
    BY DEF JobOK
  <1>2. job' \in [Tasks -> Job]
    BY <1>1 DEF Proceed
  <1>3. ASSUME NEW u \in Tasks PROVE JobOK(job'[u], issued')
    <2>1. CASE u = t
      BY <2>1 DEF Proceed
    <2>2. CASE u # t
      BY <2>2, JobMonotone DEF Proceed
    <2> QED BY <2>1, <2>2
  <1> QED BY <1>2, <1>3

\* Ending a call keeps the invariant of the calls.
LEMMA ReturnOK ==
  ASSUME NEW t \in Tasks, NEW r \in Outcomes, Return(t, r), IInv, issued' = issued
  PROVE  job' \in [Tasks -> Job] /\ \A u \in Tasks : JobOK(job'[u], issued')
  <1>1. issued \in Nat
    BY DEF IInv
  <1>2. JobOK(Ended(job[t], r), issued)
    BY <1>1, EndedOK DEF IInv
  <1> QED BY <1>1, <1>2, JobsOK DEF Return, IInv

-----------------------------------------------------------------------------
(* The tables *)

\* A step that writes neither table keeps their invariant.
LEMMA DbUnchanged ==
  ASSUME IInv, UNCHANGED db, issued' \in Nat, issued <= issued'
  PROVE  DbOK'
  BY DEF IInv, DbOK, db, Rows, ForeignKeyCheck, ChainOrder

\* A DELETE that the foreign key admits keeps the invariant of the tables.
LEMMA DeleteOK ==
  ASSUME IInv, NEW S, Deletable(S), DeleteRows(S), issued' = issued
  PROVE  DbOK'
  BY DEF IInv, DbOK, Rows, ForeignKeyCheck, ChainOrder, Deletable, DeleteRows

\* So does an UPDATE that gives every memory of S an existing, younger
\* successor.
LEMMA SupersedeOK ==
  ASSUME IInv, NEW S, NEW new, Supersede(S, new), \A i \in S : i < new,
         new \in Rows \/ S \cap Rows = {},
         UNCHANGED embeddings, issued' = issued
  PROVE  DbOK'
  <1>1. DOMAIN memories' = Rows
    BY DEF Supersede
  <1>2. ASSUME NEW i \in Rows
        PROVE  /\ memories'[i] \in Row
               /\ memories'[i].superseded_by \in Rows \cup {NoId}
               /\ memories'[i].superseded_by # NoId => i < memories'[i].superseded_by
    <2>0. /\ memories[i] \in Row
          /\ memories[i].superseded_by \in Rows \cup {NoId}
          /\ memories[i].superseded_by # NoId => i < memories[i].superseded_by
      BY DEF IInv, DbOK, ForeignKeyCheck, ChainOrder
    <2>1. CASE i \in S
      <3>1. new \in Rows /\ i < new
        BY <2>1
      <3>2. new \in Ids
        BY <3>1, BoundAssumption DEF IInv, DbOK, Ids
      <3>3. memories'[i] = [memories[i] EXCEPT !.superseded_by = new]
        BY <2>1 DEF Supersede
      <3> QED BY <2>0, <3>1, <3>2, <3>3 DEF Row
    <2>2. CASE i \notin S
      BY <2>0, <2>2 DEF Supersede
    <2> QED BY <2>1, <2>2
  <1>3. memories' \in [Rows -> Row]
    BY <1>2 DEF Supersede
  <1> QED BY <1>1, <1>2, <1>3 DEF IInv, DbOK, Rows, ForeignKeyCheck, ChainOrder

\* The INSERT of a row for an issued id keeps the invariant of the tables.
LEMMA InsertOK ==
  ASSUME IInv, NEW t \in Tasks, CommitRow(t)
  PROVE  DbOK'
  <1> DEFINE f == job[t].fresh
  <1>1. f \in 1..issued /\ issued' = issued
    BY DEF IInv, JobOK, CommitRow, Storing
  <1>2. NewRow(job[t]) \in Row /\ NewRow(job[t]).superseded_by = NoId
    <2>1. /\ job[t].ttl \in Expiries /\ job[t].clutter \in BOOLEAN
          /\ job[t].created_at \in Nat
      BY DEF IInv, Job
    <2> QED BY <2>1 DEF NewRow, Row, Expiries, Never, NoId
  <1>3. DOMAIN memories' = Rows \cup {f}
    BY DEF CommitRow
  <1>4. \A i \in Rows \cup {f} : memories'[i] = IF i = f THEN NewRow(job[t]) ELSE memories[i]
    BY DEF CommitRow
  <1>5. memories' \in [Rows \cup {f} -> Row]
    BY <1>2 DEF CommitRow, IInv, DbOK
  <1>6. embeddings' = Rows \cup {f}
    BY DEF CommitRow, IInv, DbOK
  <1> QED BY <1>1, <1>2, <1>3, <1>4, <1>5, <1>6
          DEF IInv, DbOK, Rows, ForeignKeyCheck, ChainOrder

-----------------------------------------------------------------------------
(* One step *)

\* What a step that only moves a call has to show.
LEMMA MoveOK ==
  ASSUME IInv, NEW t \in Tasks, NEW j, Proceed(t, j), JobOK(j, issued'),
         issued' \in 0..MaxMemories, issued <= issued',
         UNCHANGED <<db, now, up>>, index' \subseteq Ids
  PROVE  IInv'
  <1>1. issued \in Nat /\ issued' \in Nat
    BY BoundAssumption DEF IInv
  <1>2. job' \in [Tasks -> Job] /\ \A u \in Tasks : JobOK(job'[u], issued')
    BY <1>1, JobsOK DEF IInv
  <1>3. DbOK'
    BY <1>1, DbUnchanged
  <1> QED BY <1>2, <1>3 DEF IInv

\* What a call that ends without touching the tables has to show: nothing.
LEMMA ReturnKeepsIInv ==
  ASSUME IInv, NEW t \in Tasks, NEW r \in Outcomes, Return(t, r),
         UNCHANGED <<db, now, issued, up>>, index' \subseteq Ids
  PROVE  IInv'
  <1>1. issued \in Nat
    BY DEF IInv
  <1>2. JobOK(Ended(job[t], r), issued')
    BY <1>1, EndedOK DEF IInv
  <1> QED BY <1>1, <1>2, MoveOK DEF Return, IInv

\* Steps that start a call and only change the calls.
LEMMA StartKeepsIInv ==
  ASSUME IInv, NEW t \in Tasks, Start(t)
  PROVE  IInv'
  <1> USE BoundAssumption, ExpiryAssumption, CompressAssumption
  <1>0. issued \in Nat /\ now \in Nat /\ issued \in 0..MaxMemories /\ KnownIds \subseteq 1..issued
    BY DEF IInv, KnownIds
  <1>a. Rows \subseteq 1..issued /\ 1..issued \subseteq Ids
    BY <1>0 DEF IInv, DbOK, Ids
  <1>1. CASE Store(t)
    <2>1. PICK ttl \in Ttls, clutter \in Clutters :
            Proceed(t, [Idle EXCEPT !.pc = "commit", !.call = "store",
                          !.fresh = issued + 1, !.ttl = ttl,
                          !.clutter = clutter, !.created_at = now])
      BY <1>1 DEF Store
    <2>2. issued' = issued + 1 /\ issued' \in 0..MaxMemories /\ issued + 1 \in Ids
      BY <1>0, <1>1 DEF Store, Ids
    <2>3. JobOK([Idle EXCEPT !.pc = "commit", !.call = "store",
                   !.fresh = issued + 1, !.ttl = ttl,
                   !.clutter = clutter, !.created_at = now], issued')
      <3>1. ttl \in Expiries /\ clutter \in BOOLEAN
        OBVIOUS
      <3>2. [Idle EXCEPT !.pc = "commit", !.call = "store",
               !.fresh = issued + 1, !.ttl = ttl,
               !.clutter = clutter, !.created_at = now] \in Job
        BY <1>0, <2>2, <3>1 DEF Job, Idle, Pcs, CallNames, Outcomes
      <3> QED BY <1>0, <2>2, <3>2 DEF JobOK, Idle, NoId
    <2> QED BY <1>0, <1>1, <2>1, <2>2, <2>3, MoveOK DEF Store, IInv
  <1>2. CASE UpdateRefused(t)
    <2>1. PICK i \in KnownIds :
            Proceed(t, [Idle EXCEPT !.call = "update", !.target = i, !.res = "err"])
      BY <1>2 DEF UpdateRefused
    <2>2. i \in Ids /\ i \in 1..issued
      BY <1>0 DEF Ids
    <2>3. JobOK([Idle EXCEPT !.call = "update", !.target = i, !.res = "err"], issued)
      <3>1. [Idle EXCEPT !.call = "update", !.target = i, !.res = "err"] \in Job
        BY <1>0, <2>2 DEF Job, Idle, Pcs, CallNames, Outcomes, Expiries, Never, NoId
      <3> QED BY <1>0, <2>2, <3>1 DEF JobOK, Idle, NoId, Storing
    <2> QED BY <1>0, <1>2, <2>1, <2>3, MoveOK DEF UpdateRefused, IInv
  <1>3. CASE UpdateRead(t)
    <2>1. PICK i \in KnownIds, expiry \in NewExpiries \cup {Keep} :
            /\ Accepts(i, expiry)
            /\ \E clutter \in Clutters \cup {memories[i].clutter} :
                 Proceed(t, [Idle EXCEPT !.pc = "draft", !.call = "update",
                               !.target = i, !.fresh = issued + 1,
                               !.ttl = UpdateTtl(memories[i], expiry),
                               !.clutter = clutter])
      BY <1>3 DEF UpdateRead
    <2>2. PICK clutter \in Clutters \cup {memories[i].clutter} :
            Proceed(t, [Idle EXCEPT !.pc = "draft", !.call = "update",
                          !.target = i, !.fresh = issued + 1,
                          !.ttl = UpdateTtl(memories[i], expiry),
                          !.clutter = clutter])
      BY <2>1
    <2>3. memories[i] \in Row /\ clutter \in BOOLEAN
      BY <2>1, <2>2 DEF IInv, DbOK, Accepts, Row
    <2>4. UpdateTtl(memories[i], expiry) \in Expiries
      BY <1>0, <2>1, <2>3 DEF UpdateTtl, Accepts, Expired, Row, Expiries, Keep, Never
    <2>5. issued' = issued + 1 /\ issued' \in 0..MaxMemories
          /\ issued + 1 \in Ids /\ i \in Ids /\ i < issued + 1
      BY <1>0, <1>3 DEF UpdateRead, Ids
    <2>6. JobOK([Idle EXCEPT !.pc = "draft", !.call = "update",
                   !.target = i, !.fresh = issued + 1,
                   !.ttl = UpdateTtl(memories[i], expiry),
                   !.clutter = clutter], issued')
      <3>1. [Idle EXCEPT !.pc = "draft", !.call = "update",
               !.target = i, !.fresh = issued + 1,
               !.ttl = UpdateTtl(memories[i], expiry),
               !.clutter = clutter] \in Job
        BY <1>0, <2>3, <2>4, <2>5 DEF Job, Idle, Pcs, CallNames, Outcomes
      <3> QED BY <1>0, <2>5, <3>1 DEF JobOK, Idle
    <2> QED BY <1>0, <1>3, <2>2, <2>5, <2>6, MoveOK DEF UpdateRead, IInv
  <1>4. CASE Forget(t)
    <2>1. PICK i \in KnownIds, spelling \in Spellings :
            /\ Deletable(Matching(i, spelling))
            /\ DeleteRows(Matching(i, spelling))
            /\ Proceed(t, [Idle EXCEPT !.pc = "forget_index", !.call = "forget",
                                       !.target = i])
      BY <1>4 DEF Forget
    <2>2. i \in Ids /\ i \in 1..issued
      BY <1>0 DEF Ids
    <2>3. JobOK([Idle EXCEPT !.pc = "forget_index", !.call = "forget",
                             !.target = i], issued)
      <3>1. [Idle EXCEPT !.pc = "forget_index", !.call = "forget",
                             !.target = i] \in Job
        BY <1>0, <2>2 DEF Job, Idle, Pcs, CallNames, Outcomes, Expiries, Never, NoId
      <3> QED BY <1>0, <2>2, <3>1 DEF JobOK, Idle, NoId, Storing
    <2>4. job' \in [Tasks -> Job] /\ \A u \in Tasks : JobOK(job'[u], issued')
      BY <1>0, <1>4, <2>1, <2>3, JobsOK DEF Forget, IInv
    <2>5. DbOK'
      BY <1>4, <2>1, DeleteOK DEF Forget
    <2> QED BY <1>4, <2>4, <2>5 DEF Forget, IInv
  <1>5. CASE ForgetFails(t)
    <2>1. PICK i \in KnownIds :
            Proceed(t, [Idle EXCEPT !.call = "forget", !.target = i, !.res = "err"])
      BY <1>5 DEF ForgetFails
    <2>2. i \in Ids /\ i \in 1..issued
      BY <1>0 DEF Ids
    <2>3. JobOK([Idle EXCEPT !.call = "forget", !.target = i, !.res = "err"], issued)
      <3>1. [Idle EXCEPT !.call = "forget", !.target = i, !.res = "err"] \in Job
        BY <1>0, <2>2 DEF Job, Idle, Pcs, CallNames, Outcomes, Expiries, Never, NoId
      <3> QED BY <1>0, <2>2, <3>1 DEF JobOK, Idle, NoId, Storing
    <2> QED BY <1>0, <1>5, <2>1, <2>3, MoveOK DEF ForgetFails, IInv
  <1>6. CASE Purge(t)
    <2> DEFINE j == IF ExpiredRows = {}
                    THEN [Idle EXCEPT !.call = "purge", !.res = "ok"]
                    ELSE [Idle EXCEPT !.pc = "purge_index", !.call = "purge",
                                      !.batch = ExpiredRows]
    <2>1. ExpiredRows \subseteq 1..issued /\ ExpiredRows \subseteq Ids
      BY <1>a DEF ExpiredRows
    <2>2. JobOK(j, issued)
      <3>1. j \in Job
        BY <1>0, <2>1 DEF Job, Idle, Pcs, CallNames, Outcomes, Expiries, Never, NoId
      <3> QED BY <1>0, <2>1, <3>1 DEF JobOK, Idle, NoId, Storing
    <2>3. Proceed(t, j)
      BY <1>6 DEF Purge
    <2>4. job' \in [Tasks -> Job] /\ \A u \in Tasks : JobOK(job'[u], issued')
      <3> HIDE DEF j
      <3> QED BY <1>0, <1>6, <2>2, <2>3, JobsOK DEF Purge, IInv
    <2>5. DbOK'
      BY <1>6, DeleteOK DEF Purge
    <2> QED BY <1>6, <2>4, <2>5 DEF Purge, IInv
  <1>7. CASE PurgeFails(t)
    <2>1. JobOK([Idle EXCEPT !.call = "purge", !.res = "err"], issued)
      <3>1. [Idle EXCEPT !.call = "purge", !.res = "err"] \in Job
        BY <1>0 DEF Job, Idle, Pcs, CallNames, Outcomes, Expiries, Never, NoId
      <3> QED BY <1>0, <3>1 DEF JobOK, Idle, NoId, Storing
    <2> QED BY <1>0, <1>7, <2>1, MoveOK DEF PurgeFails, IInv
  <1>8. CASE Rebuild(t)
    <2>1. JobOK([Idle EXCEPT !.pc = "reconcile", !.call = "rebuild"], issued)
      <3>1. [Idle EXCEPT !.pc = "reconcile", !.call = "rebuild"] \in Job
        BY <1>0 DEF Job, Idle, Pcs, CallNames, Outcomes, Expiries, Never, NoId
      <3> QED BY <1>0, <3>1 DEF JobOK, Idle, NoId, Storing
    <2> QED BY <1>0, <1>8, <2>1, MoveOK DEF Rebuild, IInv
  <1>9. CASE Compress(t)
    <2> DEFINE j == IF Candidates = {}
                    THEN [Idle EXCEPT !.call = "compress", !.res = "ok"]
                    ELSE [Idle EXCEPT !.pc = "fetch", !.call = "compress",
                                      !.batch = Candidates]
    <2>1. Candidates \subseteq 1..issued /\ Candidates \subseteq Ids
      BY <1>a DEF Candidates
    <2>2. JobOK(j, issued)
      <3>1. j \in Job
        BY <1>0, <2>1 DEF Job, Idle, Pcs, CallNames, Outcomes, Expiries, Never, NoId
      <3> QED BY <1>0, <2>1, <3>1 DEF JobOK, Idle, NoId, Storing
    <2>3. Proceed(t, j)
      BY <1>9 DEF Compress
    <2> HIDE DEF j
    <2> QED BY <1>0, <1>9, <2>2, <2>3, MoveOK DEF Compress, IInv
  <1>10. CASE CompressFails(t)
    <2>1. JobOK([Idle EXCEPT !.call = "compress", !.res = "err"], issued)
      <3>1. [Idle EXCEPT !.call = "compress", !.res = "err"] \in Job
        BY <1>0 DEF Job, Idle, Pcs, CallNames, Outcomes, Expiries, Never, NoId
      <3> QED BY <1>0, <3>1 DEF JobOK, Idle, NoId, Storing
    <2> QED BY <1>0, <1>10, <2>1, MoveOK DEF CompressFails, IInv
  <1> QED BY <1>1, <1>2, <1>3, <1>4, <1>5, <1>6, <1>7, <1>8, <1>9, <1>10 DEF Start

\* Steps of a call under way.
LEMMA ContinueKeepsIInv ==
  ASSUME IInv, NEW t \in Tasks, Continue(t)
  PROVE  IInv'
  <1> USE BoundAssumption, ExpiryAssumption, CompressAssumption
  <1>0. /\ issued \in Nat /\ now \in Nat /\ issued \in 0..MaxMemories
        /\ Rows \subseteq 1..issued /\ 1..issued \subseteq Ids
        /\ JobOK(job[t], issued) /\ job[t] \in Job /\ embeddings = Rows
    BY DEF IInv, DbOK, JobOK, Ids
  <1>1. CASE CommitRow(t)
    <2>1. JobOK([job[t] EXCEPT !.pc = "insert"], issued)
      BY <1>0, <1>1 DEF CommitRow, JobOK, Job, Pcs, Storing
    <2>2. job' \in [Tasks -> Job] /\ \A u \in Tasks : JobOK(job'[u], issued')
      BY <1>0, <1>1, <2>1, JobsOK DEF CommitRow, IInv
    <2> QED BY <1>1, <2>2, InsertOK DEF CommitRow, IInv
  <1>2. CASE CommitFails(t)
    BY <1>0, <1>2, ReturnKeepsIInv DEF CommitFails, Outcomes, IInv
  <1>3. CASE InsertVector(t)
    <2>1. index' \subseteq Ids
      BY <1>0, <1>3 DEF InsertVector, IInv, JobOK, Storing
    <2>2. CASE job[t].call = "store"
      BY <1>3, <2>1, <2>2, ReturnKeepsIInv DEF InsertVector, Outcomes
    <2>3. CASE job[t].call # "store"
      <3>1. JobOK([job[t] EXCEPT !.pc = "mark"], issued)
        BY <1>0, <1>3 DEF InsertVector, JobOK, Job, Pcs, Storing
      <3> QED BY <1>0, <1>3, <2>1, <2>3, <3>1, MoveOK DEF InsertVector
    <2> QED BY <2>2, <2>3
  <1>4. CASE InsertVectorFails(t)
    <2>1. JobOK([job[t] EXCEPT !.pc = "undo_insert"], issued)
      BY <1>0, <1>4 DEF InsertVectorFails, JobOK, Job, Pcs, Storing
    <2> QED BY <1>0, <1>4, <2>1, MoveOK DEF InsertVectorFails, IInv
  <1>5. CASE UndoInsert(t)
    <2>1. job' \in [Tasks -> Job] /\ \A u \in Tasks : JobOK(job'[u], issued')
      BY <1>5, ReturnOK DEF UndoInsert, Outcomes
    <2>2. DbOK'
      BY <1>5, DeleteOK DEF UndoInsert
    <2> QED BY <1>5, <2>1, <2>2 DEF UndoInsert, IInv
  <1>6. CASE UndoInsertFails(t)
    BY <1>0, <1>6, ReturnKeepsIInv DEF UndoInsertFails, Outcomes, IInv
  <1>7. CASE UpdateDraft(t)
    <2>1. JobOK([job[t] EXCEPT !.pc = "commit", !.created_at = now], issued)
      BY <1>0, <1>7 DEF UpdateDraft, JobOK, Job, Pcs, Storing
    <2> QED BY <1>0, <1>7, <2>1, MoveOK DEF UpdateDraft, IInv
  <1>8. CASE MarkSuperseded(t)
    <2>1. job' \in [Tasks -> Job] /\ \A u \in Tasks : JobOK(job'[u], issued')
      BY <1>8, ReturnOK DEF MarkSuperseded, Outcomes
    <2>2. job[t].target < job[t].fresh /\ job[t].fresh \in Rows
      BY <1>0, <1>8 DEF MarkSuperseded, Markable, JobOK, Storing
    <2>3. DbOK'
      BY <1>8, <2>2, SupersedeOK DEF MarkSuperseded
    <2> QED BY <1>8, <2>1, <2>3 DEF MarkSuperseded, IInv
  <1>9. CASE MarkSupersededFails(t)
    <2>1. JobOK([job[t] EXCEPT !.pc = "undo_row"], issued)
      BY <1>0, <1>9 DEF MarkSupersededFails, JobOK, Job, Pcs, Storing
    <2> QED BY <1>0, <1>9, <2>1, MoveOK DEF MarkSupersededFails, IInv
  <1>10. CASE UndoRow(t)
    <2>1. JobOK([job[t] EXCEPT !.pc = "undo_index", !.res = "err"], issued)
      BY <1>0, <1>10 DEF UndoRow, JobOK, Job, Pcs, Outcomes, Storing
    <2>2. job' \in [Tasks -> Job] /\ \A u \in Tasks : JobOK(job'[u], issued')
      BY <1>0, <1>10, <2>1, JobsOK DEF UndoRow, IInv
    <2>3. DbOK'
      BY <1>10, DeleteOK DEF UndoRow
    <2> QED BY <1>10, <2>2, <2>3 DEF UndoRow, IInv
  <1>11. CASE UndoRowFails(t)
    <2>1. CompensationFailure(job[t]) \in Outcomes
      BY DEF CompensationFailure, Outcomes
    <2>2. JobOK([job[t] EXCEPT !.pc = "undo_index",
                               !.res = CompensationFailure(job[t])], issued)
      BY <1>0, <1>11, <2>1 DEF UndoRowFails, JobOK, Job, Pcs, Storing
    <2> QED BY <1>0, <1>11, <2>2, MoveOK DEF UndoRowFails, IInv
  <1>12. CASE UndoIndex(t)
    <2>1. job[t].res \in Outcomes
      BY <1>0 DEF Job
    <2> QED BY <1>12, <2>1, ReturnKeepsIInv DEF UndoIndex, IInv
  <1>13. CASE UndoIndexFails(t)
    <2>1. CompensationFailure(job[t]) \in Outcomes
      BY DEF CompensationFailure, Outcomes
    <2> QED BY <1>13, <2>1, ReturnKeepsIInv DEF UndoIndexFails, IInv
  <1>14. CASE ForgetVector(t)
    BY <1>0, <1>14, ReturnKeepsIInv DEF ForgetVector, Outcomes, IInv
  <1>15. CASE ForgetVectorFails(t)
    <2>1. JobOK([job[t] EXCEPT !.pc = "reconcile"], issued)
      BY <1>0, <1>15 DEF ForgetVectorFails, JobOK, Job, Pcs, Storing
    <2> QED BY <1>0, <1>15, <2>1, MoveOK DEF ForgetVectorFails, IInv
  <1>16. CASE PurgeVector(t)
    <2>1. PICK i \in job[t].batch, res \in {job[t].res, "err"} :
            Proceed(t, [job[t] EXCEPT !.batch = @ \ {i}, !.res = res])
      <3>1. job[t].res \in Outcomes /\ job[t] = [job[t] EXCEPT !.res = job[t].res]
        BY <1>0 DEF Job
      <3>2. ASSUME NEW i \in job[t].batch
            PROVE  [job[t] EXCEPT !.batch = @ \ {i}]
                     = [job[t] EXCEPT !.batch = @ \ {i}, !.res = job[t].res]
        BY <1>0 DEF Job
      <3> QED BY <1>16, <3>2 DEF PurgeVector
    <2>2. JobOK([job[t] EXCEPT !.batch = @ \ {i}, !.res = res], issued)
      BY <1>0, <1>16 DEF PurgeVector, JobOK, Job, Outcomes, Storing
    <2>3. index' \subseteq Ids
      BY <1>16 DEF PurgeVector, IInv
    <2> QED BY <1>0, <1>16, <2>1, <2>2, <2>3, MoveOK DEF PurgeVector
  <1>17. CASE PurgeEnd(t)
    <2>1. CASE job[t].res = "err"
      <3>1. JobOK([job[t] EXCEPT !.pc = "reconcile"], issued)
        BY <1>0, <1>17 DEF PurgeEnd, JobOK, Job, Pcs, Storing
      <3> QED BY <1>0, <1>17, <2>1, <3>1, MoveOK DEF PurgeEnd, IInv
    <2>2. CASE job[t].res # "err"
      BY <1>17, <2>2, ReturnKeepsIInv DEF PurgeEnd, Outcomes, IInv
    <2> QED BY <2>1, <2>2
  <1>18. CASE Reconcile(t)
    <2>1. Active \subseteq 1..issued /\ Active \subseteq Ids
      BY <1>0 DEF Active
    <2>2. JobOK([job[t] EXCEPT !.pc = "replace", !.batch = Active], issued)
      BY <1>0, <1>18, <2>1 DEF Reconcile, JobOK, Job, Pcs, Storing
    <2> QED BY <1>0, <1>18, <2>2, MoveOK DEF Reconcile, IInv
  <1>19. CASE ReconcileFails(t)
    BY <1>0, <1>19, ReturnKeepsIInv DEF ReconcileFails, Outcomes, IInv, NotReconciled
  <1>20. CASE ReplaceAll(t)
    <2>1. index' \subseteq Ids
      BY <1>0, <1>20 DEF ReplaceAll, Job
    <2> QED BY <1>20, <2>1, ReturnKeepsIInv DEF ReplaceAll, Reconciled, Outcomes
  <1>21. CASE ReplaceAllFails(t)
    BY <1>0, <1>21, ReturnKeepsIInv DEF ReplaceAllFails, Outcomes, IInv, NotReconciled
  <1>22. CASE FetchEmbedding(t)
    <2>1. PICK i \in job[t].batch :
            Proceed(t, IF job[t].batch = {i}
                       THEN [job[t] EXCEPT !.pc = "cluster",
                               !.batch = job[t].group \cup {i}, !.group = {}]
                       ELSE [job[t] EXCEPT !.batch = @ \ {i},
                               !.group = job[t].group \cup {i}])
      BY <1>22 DEF FetchEmbedding
    <2>2. i \in 1..issued /\ i \in Ids
      BY <1>0, <2>1 DEF JobOK
    <2>3. JobOK([job[t] EXCEPT !.pc = "cluster",
                   !.batch = job[t].group \cup {i}, !.group = {}], issued)
      BY <1>0, <2>2 DEF JobOK, Job, Pcs, Storing
    <2>4. JobOK([job[t] EXCEPT !.batch = @ \ {i},
                   !.group = job[t].group \cup {i}], issued)
      BY <1>0, <1>22, <2>2 DEF FetchEmbedding, JobOK, Job, Storing
    <2> QED BY <1>0, <1>22, <2>1, <2>3, <2>4, MoveOK DEF FetchEmbedding, IInv
  <1>23. CASE FetchMissing(t) \/ FetchFails(t)
    BY <1>0, <1>23, ReturnKeepsIInv DEF FetchMissing, FetchFails, Outcomes, IInv
  <1>24. CASE Summarise(t)
    <2>1. PICK cluster \in SUBSET job[t].batch :
            Proceed(t, [job[t] EXCEPT !.pc = "commit", !.fresh = issued + 1,
                          !.ttl = SummaryTtl, !.clutter = FALSE, !.created_at = now,
                          !.group = cluster, !.batch = @ \ cluster])
      BY <1>24 DEF Summarise
    <2>2. issued' = issued + 1 /\ issued' \in 0..MaxMemories /\ issued + 1 \in Ids
      BY <1>0, <1>24 DEF Summarise, Ids
    <2>3. cluster \subseteq 1..issued /\ cluster \subseteq Ids
      BY <1>0 DEF JobOK
    <2>4. [job[t] EXCEPT !.pc = "commit", !.fresh = issued + 1,
             !.ttl = SummaryTtl, !.clutter = FALSE, !.created_at = now,
             !.group = cluster, !.batch = @ \ cluster] \in Job
      BY <1>0, <2>2, <2>3 DEF Job, Pcs
    <2>5. job[t].target < issued + 1
      BY <1>0 DEF JobOK, Job
    <2>6. JobOK([job[t] EXCEPT !.pc = "commit", !.fresh = issued + 1,
                   !.ttl = SummaryTtl, !.clutter = FALSE, !.created_at = now,
                   !.group = cluster, !.batch = @ \ cluster], issued')
      BY <1>0, <2>2, <2>3, <2>4, <2>5 DEF JobOK, Job
    <2> QED BY <1>0, <1>24, <2>1, <2>2, <2>6, MoveOK DEF Summarise, IInv
  <1>25. CASE CompressEnd(t)
    BY <1>0, <1>25, ReturnKeepsIInv DEF CompressEnd, Outcomes, IInv
  <1>26. CASE MarkAllSuperseded(t)
    <2>1. JobOK([job[t] EXCEPT !.pc = "cluster", !.group = {}], issued)
      BY <1>0, <1>26 DEF MarkAllSuperseded, JobOK, Job, Pcs, Storing
    <2>2. job' \in [Tasks -> Job] /\ \A u \in Tasks : JobOK(job'[u], issued')
      BY <1>0, <1>26, <2>1, JobsOK DEF MarkAllSuperseded, IInv
    <2>3. \A i \in job[t].group : i < job[t].fresh
      BY <1>0, <1>26 DEF MarkAllSuperseded, JobOK, Storing
    <2>4. DbOK'
      BY <1>26, <2>3, SupersedeOK DEF MarkAllSuperseded, AllMarkable
    <2> QED BY <1>26, <2>2, <2>4 DEF MarkAllSuperseded, IInv
  <1>27. CASE MarkAllSupersededFails(t)
    <2>1. JobOK([job[t] EXCEPT !.pc = "undo_row"], issued)
      BY <1>0, <1>27 DEF MarkAllSupersededFails, JobOK, Job, Pcs, Storing
    <2> QED BY <1>0, <1>27, <2>1, MoveOK DEF MarkAllSupersededFails, IInv
  <1> QED
    BY <1>1, <1>2, <1>3, <1>4, <1>5, <1>6, <1>7, <1>8, <1>9, <1>10, <1>11, <1>12, <1>13,
       <1>14, <1>15, <1>16, <1>17, <1>18, <1>19, <1>20, <1>21, <1>22, <1>23, <1>24, <1>25, <1>26, <1>27 DEF Continue

\* The steps of the environment.
LEMMA LifecycleKeepsIInv ==
  ASSUME IInv, Tick \/ Crash \/ Open
  PROVE  IInv'
  <1> USE BoundAssumption
  <1>1. CASE Tick
    <2>1. DbOK'
      BY <1>1, DbUnchanged DEF Tick, IInv
    <2> QED BY <1>1, <2>1 DEF Tick, IInv
  <1>2. CASE Crash
    <2>1. DbOK'
      BY <1>2, DbUnchanged DEF Crash, IInv
    <2>2. job' \in [Tasks -> Job] /\ \A t \in Tasks : JobOK(job'[t], issued')
      <3>1. JobOK(Idle, issued')
        BY <1>2, IdleOK DEF Crash, IInv
      <3> QED BY <1>2, <3>1 DEF Crash, JobOK
    <2> QED BY <1>2, <2>1, <2>2 DEF Crash, IInv
  <1>3. CASE Open
    <2>1. DbOK'
      BY <1>3, DbUnchanged DEF Open, IInv
    <2>2. Rows \subseteq Ids
      BY DEF IInv, DbOK, Ids
    <2>3. Active \subseteq Ids
      BY <2>2 DEF Active
    <2> QED BY <1>3, <2>1, <2>3 DEF Open, IInv
  <1> QED BY <1>1, <1>2, <1>3

\* The invariant holds initially.
LEMMA IInvInit == Init => IInv
  <1> SUFFICES ASSUME Init PROVE IInv
    OBVIOUS
  <1>1. DbOK
    BY DEF Init, DbOK, Rows, ForeignKeyCheck, ChainOrder
  <1>2. job \in [Tasks -> Job] /\ \A t \in Tasks : JobOK(job[t], issued)
    <2>1. JobOK(Idle, 0)
      BY IdleOK
    <2> QED BY <2>1 DEF Init, JobOK
  <1> QED BY <1>1, <1>2, BoundAssumption DEF Init, IInv

\* Every step of every task and of the environment keeps it.
LEMMA IInvNext == IInv /\ [Next]_vars => IInv'
  <1> SUFFICES ASSUME IInv, [Next]_vars PROVE IInv'
    OBVIOUS
  <1>1. CASE Tick \/ Crash \/ Open
    BY <1>1, LifecycleKeepsIInv
  <1>2. ASSUME NEW t \in Tasks, Start(t) PROVE IInv'
    BY <1>2, StartKeepsIInv
  <1>3. ASSUME NEW t \in Tasks, Continue(t) PROVE IInv'
    BY <1>3, ContinueKeepsIInv
  <1>4. CASE UNCHANGED vars
    <2>1. DbOK'
      BY <1>4, DbUnchanged DEF vars, db, IInv
    <2> QED BY <1>4, <2>1 DEF vars, db, IInv
  <1> QED BY <1>1, <1>2, <1>3, <1>4 DEF Next

\* The inductive invariant holds in every reachable state.
THEOREM Invariance == Spec => []IInv
  BY IInvInit, IInvNext, PTL DEF Spec

-----------------------------------------------------------------------------
(* Theorems *)

\* Type correctness: every row, job and id stays in its domain.
THEOREM TypeCorrect == Spec => []TypeOK
  <1>1. IInv => TypeOK
    BY BoundAssumption DEF IInv, DbOK, TypeOK, Rows, Ids
  <1> QED BY <1>1, Invariance, PTL

\* After any step, of any number of calls, with any failures, the database
\* passes the checks of the next open (migrations.rs and
\* reconcile_vector_index).
THEOREM AlwaysReopens == Spec => []DatabaseReopens
  <1>1. IInv => DatabaseReopens
    BY DEF IInv, DbOK, DatabaseReopens
  <1> QED BY <1>1, Invariance, PTL

\* The greatest element of a non-empty set of numbers up to n.
LEMMA Greatest ==
  ASSUME NEW n \in Nat, NEW S \in SUBSET (1..n), S # {}
  PROVE  \E i \in S : \A k \in S : k <= i
  <1> DEFINE below == OpToRel(<, Nat)
             T == {n - i : i \in S}
  <1>1. T \subseteq Nat /\ T # {}
    OBVIOUS
  <1>2. PICK x \in T : \A y \in T : <<y, x>> \notin below
    <2> HIDE DEF T
    <2> QED BY <1>1, WFMin, NatLessThanWellFounded
  <1>3. PICK i \in S : x = n - i
    OBVIOUS
  <1>4. ASSUME NEW k \in S PROVE k <= i
    <2>1. <<n - k, x>> \notin below
      BY <1>2
    <2> QED BY <1>1, <1>3, <2>1 DEF OpToRel
  <1> QED BY <1>4

\* No execution of the engine closes a cycle of superseded_by, with any number
\* of concurrent updates and compressions: find_superseded_chain terminates.
THEOREM NoCycles == Spec => []ChainsAcyclic
  <1>1. IInv => ChainsAcyclic
    <2> SUFFICES ASSUME IInv, NEW S \in SUBSET Rows, S # {}
                 PROVE  \E i \in S : memories[i].superseded_by \notin S
      BY DEF ChainsAcyclic
    <2>1. issued \in Nat /\ S \subseteq 1..issued
      BY DEF IInv, DbOK
    <2>2. PICK i \in S : \A k \in S : k <= i
      BY <2>1, Greatest
    <2>3. memories[i].superseded_by = NoId \/ i < memories[i].superseded_by
      BY DEF IInv, DbOK, ChainOrder
    <2>4. NoId \notin S
      BY <2>1 DEF NoId
    <2>5. ASSUME memories[i].superseded_by \in S PROVE FALSE
      <3>1. PICK k \in S : k = memories[i].superseded_by
        BY <2>5
      <3>2. i \in Nat /\ k \in Nat
        BY <2>1
      <3>3. k <= i
        BY <2>2
      <3>4. i < k
        BY <2>3, <2>4, <3>1
      <3> QED BY <3>2, <3>3, <3>4
    <2> QED BY <2>5
  <1> QED BY <1>1, Invariance, PTL
=============================================================================
