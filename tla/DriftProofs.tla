----------------------------- MODULE DriftProofs -----------------------------
(***************************************************************************)
(* The index of a single caller: whatever fails, in whichever combination, *)
(* table and index agree between calls or the caller has been told.  For   *)
(* every value of the other constants.                                     *)
(***************************************************************************)
EXTENDS SettledProofs, MemoryEngineDrift

\* What the call in state j may still owe the index: the vector of the row it
\* has written, and the deletion of vectors whose rows are gone.
Missing(j) == {i \in {j.fresh} : j.pc \in {"insert", "undo_insert"}}

Stray(j) == {i \in {j.fresh} : j.pc = "undo_index"}
              \cup {i \in {j.target} : j.pc = "forget_index"}
              \cup {i \in j.batch : j.pc = "purge_index"}

\* A deletion has failed, and the call is going to replace the whole index or
\* to admit that it could not.
Repairing(j) ==
  \/ j.pc = "purge_index" /\ j.res = "err"
  \/ j.pc \in {"reconcile", "replace"} /\ j.call # "rebuild"

\* The call in state j, over the rows R of which A are active, and the index X:
\* what was taken back or deleted is gone, what replace_all is about to write is
\* good, and without damage done (d) or being repaired the index differs from
\* the table by what the call owes it.
Accounted(j, R, A, X, d) ==
  /\ j.pc \in {"insert", "undo_insert"} => j.fresh \in R \ X
  /\ j.pc \in {"undo_row", "undo_index"} => j.call \in {"update", "compress"}
  /\ j.pc = "undo_index" /\ j.fresh \in R => j.call = "compress" \/ j.res = "comp_failed"
  /\ j.pc = "forget_index" => j.call = "forget" /\ j.target \notin R
  /\ j.pc = "purge_index" => j.call = "purge" /\ j.batch \cap R = {}
  /\ j.pc \in {"reconcile", "replace"} => j.call \in {"forget", "purge", "rebuild"}
  /\ j.pc = "replace" => A \subseteq j.batch /\ j.batch \subseteq R
  /\ ~d /\ ~Repairing(j) => A \ Missing(j) \subseteq X /\ X \subseteq R \cup Stray(j)

DriftInv ==
  /\ up => \A t \in Tasks : Accounted(job[t], Rows, Active, index, degraded)
  /\ up \/ \A t \in Tasks : job[t].pc = "idle"

-----------------------------------------------------------------------------
(* The active rows *)

LEMMA ActiveKept ==
  ASSUME UNCHANGED <<memories, now>>
  PROVE  Rows' = Rows /\ Active' = Active
  BY DEF Rows, Active, Expired

LEMMA ActiveDeleted ==
  ASSUME NEW S, DeleteRows(S), UNCHANGED now
  PROVE  Rows' = Rows \ S /\ Active' = Active \ S
  BY DEF DeleteRows, Rows, Active, Expired

\* A superseded row is no longer active.
LEMMA ActiveSuperseded ==
  ASSUME Sound, NEW S, NEW new, new # NoId, Supersede(S, new), UNCHANGED now
  PROVE  Rows' = Rows /\ Active' \subseteq Active
  <1>1. Rows' = Rows
    BY DEF Supersede, Rows
  <1>2. ASSUME NEW i \in Active' PROVE i \in Active
    <2>1. i \in Rows /\ memories[i] \in Row
      BY <1>1 DEF Active, Sound, IInv, DbOK
    <2>2. i \notin S
      BY <2>1 DEF Supersede, Active, Row
    <2> QED BY <1>1, <2>1, <2>2 DEF Supersede, Active, Expired
  <1> QED BY <1>1, <1>2

\* Time only makes rows inactive.
LEMMA ActiveAges ==
  ASSUME Sound, UNCHANGED memories, now' = now + 1
  PROVE  Rows' = Rows /\ Active' \subseteq Active
  <1>1. now \in Nat /\ \A i \in Rows : memories[i].expires_at \in Int
    <2>1. ASSUME NEW i \in Rows PROVE memories[i].expires_at \in Int
      BY DEF Sound, IInv, DbOK, Row, Expiries, Never
    <2> QED BY <2>1 DEF Sound, IInv
  <1> QED BY <1>1 DEF Rows, Active, Expired

-----------------------------------------------------------------------------
(* Every step of the caller accounts for the index *)

\* What the history variable says after a step of the single caller.
LEMMA Degrades ==
  ASSUME NEW t, Tasks = {t}, DriftNext
  PROVE  /\ ~degraded' /\ job[t].pc # "replace" /\ up => ~degraded
         /\ ~degraded' /\ job[t].pc # "idle" /\ job'[t].pc = "idle" => ~AdmitsDrift(t)
  BY DEF DriftNext, Returned, IndexReplaced

\* A step that touches neither table nor index, and the call owes nothing
\* before and after it.
LEMMA NothingOwed ==
  ASSUME NEW t, Tasks = {t}, Sound, DriftInv, DriftNext, up,
         UNCHANGED <<memories, now, index>>,
         job[t].pc \in {"idle", "draft", "commit", "fetch", "cluster", "mark"},
         \/ job'[t].pc \in {"idle", "draft", "commit", "fetch", "cluster", "mark"}
         \/ job'[t].pc = "reconcile" /\ job'[t].call = "rebuild"
  PROVE  Accounted(job'[t], Rows', Active', index', degraded')
  <1>1. Rows' = Rows /\ Active' = Active
    BY ActiveKept
  <1>2. ~degraded' => ~degraded
    BY Degrades
  <1>3. Accounted(job[t], Rows, Active, index, degraded)
    BY DEF DriftInv
  <1>4. Missing(job[t]) = {} /\ Stray(job[t]) = {} /\ ~Repairing(job[t])
    BY DEF Missing, Stray, Repairing
  <1>5. Missing(job'[t]) = {} /\ Stray(job'[t]) = {} /\ ~Repairing(job'[t])
    BY DEF Missing, Stray, Repairing
  <1> QED BY <1>1, <1>2, <1>3, <1>4, <1>5 DEF Accounted

\* The state of the caller, in short.
LEMMA CallerFacts ==
  ASSUME NEW t, Tasks = {t}, Sound, DriftInv
  PROVE  /\ \A j : Proceed(t, j) => job'[t] = j
         /\ \A r : Return(t, r) => job'[t] = Ended(job[t], r)
         /\ job[t] \in Job
         /\ job[t].pc \in Writing => job[t].fresh \notin Rows \cup index
         /\ up => Accounted(job[t], Rows, Active, index, degraded)
         /\ Active \subseteq Rows
  BY DEF Sound, Settled, IInv, Drafts, Proceed, Return, DriftInv, Active

\* A call that starts owes what it has just deleted.
LEMMA StartAccounted ==
  ASSUME NEW t, Tasks = {t}, Sound, DriftInv, DriftNext, Canonical, Start(t)
  PROVE  Accounted(job'[t], Rows', Active', index', degraded')
  <1>0. /\ \A j : Proceed(t, j) => job'[t] = j
        /\ \A r : Return(t, r) => job'[t] = Ended(job[t], r)
        /\ up => Accounted(job[t], Rows, Active, index, degraded)
        /\ Active \subseteq Rows
    BY CallerFacts
  <1>1. up /\ job[t].pc = "idle"
    BY DEF Start, Store, UpdateRefused, UpdateRead, Forget, ForgetFails, Purge, PurgeFails,
           Rebuild, Compress, CompressFails, Ready
  <1>2. ~degraded' => Active \subseteq index /\ index \subseteq Rows
    BY <1>0, <1>1, Degrades DEF Accounted, Missing, Stray, Repairing
  <1>3. CASE Forget(t)
    <2>1. PICK i \in KnownIds, spelling \in Spellings :
            /\ DeleteRows(Matching(i, spelling))
            /\ Proceed(t, [Idle EXCEPT !.pc = "forget_index", !.call = "forget", !.target = i])
      BY <1>3 DEF Forget
    <2>2. /\ job'[t].pc = "forget_index" /\ job'[t].call = "forget" /\ job'[t].target = i
      BY <1>0, <2>1 DEF Idle
    <2>3. spelling = "canonical"
      BY CallAssumption DEF Canonical
    <2>4. Rows' = Rows \ {i} /\ Active' = Active \ {i} /\ index' = index
      BY <1>0, <1>3, <2>1, <2>3, ActiveDeleted DEF Matching, Forget
    <2> QED BY <1>2, <2>2, <2>4 DEF Accounted, Missing, Stray, Repairing
  <1>4. CASE Purge(t)
    <2>1. \/ job'[t].pc = "idle" /\ ExpiredRows = {}
          \/ /\ job'[t].pc = "purge_index" /\ job'[t].batch = ExpiredRows
             /\ job'[t].call = "purge"
      <3>1. CASE ExpiredRows = {}
        BY <1>0, <1>4, <3>1 DEF Purge, Idle
      <3>2. CASE ExpiredRows # {}
        BY <1>0, <1>4, <3>2 DEF Purge, Idle
      <3> QED BY <3>1, <3>2
    <2>2. /\ Rows' = Rows \ ExpiredRows /\ Active' = Active \ ExpiredRows /\ index' = index
      BY <1>4, ActiveDeleted DEF Purge
    <2> QED BY <1>2, <2>1, <2>2 DEF Accounted, Missing, Stray, Repairing
  <1>5. CASE Rebuild(t)
    <2>1. job'[t].pc = "reconcile" /\ job'[t].call = "rebuild"
      BY <1>0, <1>5 DEF Rebuild, Idle
    <2> QED BY <1>1, <1>5, <2>1, NothingOwed DEF Rebuild, db
  <1>6. CASE Store(t)
    <2>1. job'[t].pc = "commit"
      BY <1>0, <1>6 DEF Store, Idle
    <2> QED BY <1>1, <1>6, <2>1, NothingOwed DEF Store, db
  <1>7. CASE UpdateRefused(t)
    <2>1. job'[t].pc = "idle"
      BY <1>0, <1>7 DEF UpdateRefused, Idle
    <2> QED BY <1>1, <1>7, <2>1, NothingOwed DEF UpdateRefused, db
  <1>8. CASE UpdateRead(t)
    <2>1. job'[t].pc = "draft"
      <3>1. PICK i, ttl, clutter :
              Proceed(t, [Idle EXCEPT !.pc = "draft", !.call = "update", !.target = i,
                            !.fresh = issued + 1, !.ttl = ttl, !.clutter = clutter])
        BY <1>8 DEF UpdateRead
      <3>2. job'[t] = [Idle EXCEPT !.pc = "draft", !.call = "update", !.target = i,
                         !.fresh = issued + 1, !.ttl = ttl, !.clutter = clutter]
        BY <1>0, <3>1
      <3> QED BY <3>2 DEF Idle
    <2> QED BY <1>1, <1>8, <2>1, NothingOwed DEF UpdateRead, db
  <1>9. CASE ForgetFails(t)
    <2>1. job'[t].pc = "idle"
      BY <1>0, <1>9 DEF ForgetFails, Idle
    <2> QED BY <1>1, <1>9, <2>1, NothingOwed DEF ForgetFails, db
  <1>10. CASE PurgeFails(t)
    <2>1. job'[t].pc = "idle"
      BY <1>0, <1>10 DEF PurgeFails, Idle
    <2> QED BY <1>1, <1>10, <2>1, NothingOwed DEF PurgeFails, db
  <1>11. CASE Compress(t)
    <2>1. job'[t].pc \in {"idle", "fetch"}
      <3>1. CASE Candidates = {}
        BY <1>0, <1>11, <3>1 DEF Compress, Idle
      <3>2. CASE Candidates # {}
        BY <1>0, <1>11, <3>2 DEF Compress, Idle
      <3> QED BY <3>1, <3>2
    <2> QED BY <1>1, <1>11, <2>1, NothingOwed DEF Compress, db
  <1>12. CASE CompressFails(t)
    <2>1. job'[t].pc = "idle"
      BY <1>0, <1>12 DEF CompressFails, Idle
    <2> QED BY <1>1, <1>12, <2>1, NothingOwed DEF CompressFails, db
  <1> QED BY <1>3, <1>4, <1>5, <1>6, <1>7, <1>8, <1>9, <1>10, <1>11, <1>12 DEF Start

\* A call that goes on pays, passes on or admits what it owes.
LEMMA ContinueAccounted ==
  ASSUME NEW t, Tasks = {t}, Sound, DriftInv, DriftNext, up, Continue(t)
  PROVE  Accounted(job'[t], Rows', Active', index', degraded')
  <1>0. /\ \A j : Proceed(t, j) => job'[t] = j
        /\ \A r : Return(t, r) => job'[t] = Ended(job[t], r)
        /\ job[t] \in Job
        /\ job[t].pc \in Writing => job[t].fresh \notin Rows \cup index
        /\ Accounted(job[t], Rows, Active, index, degraded)
        /\ Active \subseteq Rows
    BY CallerFacts
  <1>1. /\ ~degraded' /\ job[t].pc # "replace" => ~degraded
        /\ ~degraded' /\ job[t].pc # "idle" /\ job'[t].pc = "idle" => ~AdmitsDrift(t)
    BY Degrades
  <1>2. CASE CommitRow(t)
    <2>1. job'[t].pc = "insert" /\ job'[t].fresh = job[t].fresh
      BY <1>0, <1>2 DEF CommitRow, Job
    <2>2. /\ Rows' = Rows \cup {job[t].fresh} /\ index' = index
          /\ Active' \subseteq Active \cup {job[t].fresh}
      BY <1>2 DEF CommitRow, Rows, Active, Expired
    <2>3. job[t].pc = "commit" /\ job[t].fresh \notin index
      BY <1>0, <1>2 DEF CommitRow, Writing
    <2> QED BY <1>0, <1>1, <2>1, <2>2, <2>3 DEF Accounted, Missing, Stray, Repairing
  <1>3. CASE CommitFails(t)
    <2>1. job'[t].pc = "idle"
      BY <1>0, <1>3, EndedFields DEF CommitFails
    <2> QED BY <1>3, <2>1, NothingOwed DEF CommitFails, db
  <1>4. CASE InsertVector(t)
    <2>1. job'[t].pc \in {"idle", "mark"}
      BY <1>0, <1>4, EndedFields DEF InsertVector, Job
    <2>2. job[t].pc = "insert" /\ index' = index \cup {job[t].fresh}
      BY <1>4 DEF InsertVector
    <2>3. Rows' = Rows /\ Active' = Active
      BY <1>4, ActiveKept DEF InsertVector, db
    <2> QED BY <1>0, <1>1, <2>1, <2>2, <2>3 DEF Accounted, Missing, Stray, Repairing
  <1>5. CASE InsertVectorFails(t)
    <2>1. job'[t].pc = "undo_insert" /\ job'[t].fresh = job[t].fresh
      BY <1>0, <1>5 DEF InsertVectorFails, Job
    <2>2. job[t].pc = "insert" /\ index' = index
      BY <1>5 DEF InsertVectorFails
    <2>3. Rows' = Rows /\ Active' = Active
      BY <1>5, ActiveKept DEF InsertVectorFails, db
    <2> QED BY <1>0, <1>1, <2>1, <2>2, <2>3 DEF Accounted, Missing, Stray, Repairing
  <1>6. CASE UndoInsert(t)
    <2>1. job'[t].pc = "idle"
      BY <1>0, <1>6, EndedFields DEF UndoInsert
    <2>2. job[t].pc = "undo_insert" /\ index' = index
      BY <1>6 DEF UndoInsert
    <2>3. Rows' = Rows \ {job[t].fresh} /\ Active' = Active \ {job[t].fresh}
      BY <1>6, ActiveDeleted DEF UndoInsert
    <2> QED BY <1>0, <1>1, <2>1, <2>2, <2>3 DEF Accounted, Missing, Stray, Repairing
  <1>7. CASE UndoInsertFails(t)
    <2>1. job'[t].pc = "idle" /\ job'[t].res = "comp_failed" /\ job[t].pc = "undo_insert"
      BY <1>0, <1>7, EndedFields DEF UndoInsertFails
    <2> QED BY <1>1, <2>1 DEF Accounted, AdmitsDrift
  <1>8. CASE UpdateDraft(t)
    <2>1. job'[t].pc = "commit"
      BY <1>0, <1>8 DEF UpdateDraft, Job
    <2> QED BY <1>8, <2>1, NothingOwed DEF UpdateDraft, db
  <1>9. ASSUME job[t].pc = "mark", NEW S, Supersede(S, job[t].fresh), index' = index, now' = now,
               job'[t].pc \in {"idle", "cluster"}
        PROVE  Accounted(job'[t], Rows', Active', index', degraded')
    <2>1. job[t].fresh # NoId
      BY <1>9 DEF Sound, IInv, JobOK, Storing, NoId
    <2>2. Rows' = Rows /\ Active' \subseteq Active
      BY <1>9, <2>1, ActiveSuperseded
    <2> QED BY <1>0, <1>1, <1>9, <2>2 DEF Accounted, Missing, Stray, Repairing
  <1>10. CASE MarkSuperseded(t)
    <2>1. job'[t].pc = "idle"
      BY <1>0, <1>10, EndedFields DEF MarkSuperseded
    <2> QED BY <1>9, <1>10, <2>1 DEF MarkSuperseded
  <1>11. CASE MarkAllSuperseded(t)
    <2>1. job'[t].pc = "cluster"
      BY <1>0, <1>11 DEF MarkAllSuperseded, Job
    <2> QED BY <1>9, <1>11, <2>1 DEF MarkAllSuperseded
  <1>12. CASE MarkSupersededFails(t) \/ MarkAllSupersededFails(t)
    <2>1. /\ job[t].pc = "mark" /\ job[t].call \in {"update", "compress"}
          /\ UNCHANGED <<memories, index, now>>
          /\ Proceed(t, [job[t] EXCEPT !.pc = "undo_row"])
      BY <1>12 DEF MarkSupersededFails, MarkAllSupersededFails, db
    <2>2. job'[t].pc = "undo_row" /\ job'[t].call = job[t].call
      BY <1>0, <2>1 DEF Job
    <2>3. Rows' = Rows /\ Active' = Active
      BY <2>1, ActiveKept
    <2> QED BY <1>0, <1>1, <2>1, <2>2, <2>3 DEF Accounted, Missing, Stray, Repairing
  <1>13. CASE UndoRow(t)
    <2>1. /\ job'[t].pc = "undo_index" /\ job'[t].fresh = job[t].fresh
          /\ job'[t].call = job[t].call
      BY <1>0, <1>13 DEF UndoRow, Job
    <2>2. job[t].pc = "undo_row" /\ index' = index
      BY <1>13 DEF UndoRow
    <2>3. Rows' = Rows \ {job[t].fresh} /\ Active' = Active \ {job[t].fresh}
      BY <1>13, ActiveDeleted DEF UndoRow
    <2> QED BY <1>0, <1>1, <2>1, <2>2, <2>3 DEF Accounted, Missing, Stray, Repairing
  <1>14. CASE UndoRowFails(t)
    <2>1. /\ job'[t].pc = "undo_index" /\ job'[t].call = job[t].call
          /\ job'[t].res = CompensationFailure(job[t])
      BY <1>0, <1>14 DEF UndoRowFails, Job
    <2>2. job[t].pc = "undo_row"
      BY <1>14 DEF UndoRowFails
    <2>3. job[t].call \in {"update", "compress"}
      BY <1>0, <2>2 DEF Accounted
    <2>4. job'[t].call = "compress" \/ job'[t].res = "comp_failed"
      BY <2>1, <2>3 DEF CompensationFailure
    <2>5. Rows' = Rows /\ Active' = Active /\ index' = index
      BY <1>14, ActiveKept DEF UndoRowFails, db
    <2> QED BY <1>0, <1>1, <2>1, <2>2, <2>3, <2>4, <2>5
            DEF Accounted, Missing, Stray, Repairing
  <1>15. CASE UndoIndex(t)
    <2>1. /\ job'[t].pc = "idle" /\ job'[t].call = job[t].call /\ job'[t].res = job[t].res
      BY <1>0, <1>15, EndedFields DEF UndoIndex
    <2>2. job[t].pc = "undo_index" /\ index' = index \ {job[t].fresh}
      BY <1>15 DEF UndoIndex
    <2>3. Rows' = Rows /\ Active' = Active
      BY <1>15, ActiveKept DEF UndoIndex, db
    <2>4. ~degraded' => job[t].fresh \notin Rows
      BY <1>0, <1>1, <2>1, <2>2 DEF Accounted, AdmitsDrift, CleanUpFailed
    <2> QED BY <1>0, <1>1, <2>1, <2>2, <2>3, <2>4 DEF Accounted, Missing, Stray, Repairing
  <1>16. CASE UndoIndexFails(t)
    <2>1. /\ job'[t].pc = "idle" /\ job'[t].call = job[t].call
          /\ job'[t].res = CompensationFailure(job[t])
      BY <1>0, <1>16, EndedFields DEF UndoIndexFails
    <2>2. job[t].pc = "undo_index"
      BY <1>16 DEF UndoIndexFails
    <2>3. Rows' = Rows /\ Active' = Active /\ index' = index
      BY <1>16, ActiveKept DEF UndoIndexFails, db
    <2>4. ~degraded' => job[t].fresh \notin Rows \cup index
      <3>1. CASE job[t].call = "update"
        BY <1>1, <2>1, <2>2, <3>1 DEF AdmitsDrift, CompensationFailure
      <3>2. CASE job[t].call = "compress"
        BY <1>1, <2>1, <2>2, <2>3, <3>2 DEF AdmitsDrift, CleanUpFailed
      <3> QED BY <1>0, <2>2, <3>1, <3>2 DEF Accounted
    <2> QED BY <1>0, <1>1, <2>1, <2>2, <2>3, <2>4 DEF Accounted, Missing, Stray, Repairing
  <1>17. CASE ForgetVector(t)
    <2>1. job'[t].pc = "idle"
      BY <1>0, <1>17, EndedFields DEF ForgetVector
    <2>2. job[t].pc = "forget_index" /\ index' = index \ {job[t].target}
      BY <1>17 DEF ForgetVector
    <2>3. Rows' = Rows /\ Active' = Active
      BY <1>17, ActiveKept DEF ForgetVector, db
    <2> QED BY <1>0, <1>1, <2>1, <2>2, <2>3 DEF Accounted, Missing, Stray, Repairing
  <1>18. CASE ForgetVectorFails(t)
    <2>1. job'[t].pc = "reconcile" /\ job'[t].call = job[t].call
      BY <1>0, <1>18 DEF ForgetVectorFails, Job
    <2>2. job[t].pc = "forget_index"
      BY <1>18 DEF ForgetVectorFails
    <2> QED BY <1>0, <2>1, <2>2 DEF Accounted, Repairing
  <1>19. CASE PurgeVector(t)
    <2>1. PICK i \in job[t].batch :
            \/ /\ index' = index \ {i}
               /\ Proceed(t, [job[t] EXCEPT !.batch = @ \ {i}])
            \/ Proceed(t, [job[t] EXCEPT !.batch = @ \ {i}, !.res = "err"])
      BY <1>19 DEF PurgeVector
    <2>2. /\ job'[t].pc = "purge_index" /\ job'[t].call = job[t].call
          /\ job'[t].batch = job[t].batch \ {i}
          /\ \/ job'[t].res = "err"
             \/ index' = index \ {i} /\ job'[t].res = job[t].res
      <3>1. \/ /\ index' = index \ {i}
               /\ job'[t] = [job[t] EXCEPT !.batch = @ \ {i}]
            \/ job'[t] = [job[t] EXCEPT !.batch = @ \ {i}, !.res = "err"]
        BY <1>0, <2>1
      <3>2. job[t].pc = "purge_index" /\ job[t] \in Job
        BY <1>0, <1>19 DEF PurgeVector
      <3> QED BY <3>1, <3>2 DEF Job
    <2>3. job[t].pc = "purge_index"
      BY <1>19 DEF PurgeVector
    <2>4. Rows' = Rows /\ Active' = Active
      BY <1>19, ActiveKept DEF PurgeVector, db
    <2> QED BY <1>0, <1>1, <2>2, <2>3, <2>4 DEF Accounted, Missing, Stray, Repairing
  <1>20. CASE PurgeEnd(t)
    <2>1. /\ job[t].pc = "purge_index" /\ job[t].batch = {} /\ index' = index
      BY <1>20 DEF PurgeEnd
    <2>2. \/ job[t].res = "err" /\ job'[t].pc = "reconcile" /\ job'[t].call = job[t].call
          \/ job[t].res # "err" /\ job'[t].pc = "idle"
      BY <1>0, <1>20, EndedFields DEF PurgeEnd, Job
    <2>3. Rows' = Rows /\ Active' = Active
      BY <1>20, ActiveKept DEF PurgeEnd, db
    <2> QED BY <1>0, <1>1, <2>1, <2>2, <2>3 DEF Accounted, Missing, Stray, Repairing
  <1>21. CASE Reconcile(t)
    <2>1. job'[t].pc = "replace" /\ job'[t].call = job[t].call /\ job'[t].batch = Active
      BY <1>0, <1>21 DEF Reconcile, Job
    <2>2. job[t].pc = "reconcile" /\ index' = index
      BY <1>21 DEF Reconcile
    <2>3. Rows' = Rows /\ Active' = Active
      BY <1>21, ActiveKept DEF Reconcile, db
    <2> QED BY <1>0, <1>1, <2>1, <2>2, <2>3 DEF Accounted, Missing, Stray, Repairing
  <1>22. CASE ReplaceAll(t)
    <2>1. job'[t].pc = "idle"
      BY <1>0, <1>22, EndedFields DEF ReplaceAll
    <2>2. job[t].pc = "replace" /\ index' = job[t].batch
      BY <1>22 DEF ReplaceAll
    <2>3. Rows' = Rows /\ Active' = Active
      BY <1>22, ActiveKept DEF ReplaceAll, db
    <2> QED BY <1>0, <2>1, <2>2, <2>3 DEF Accounted
  <1>23. CASE ReconcileFails(t) \/ ReplaceAllFails(t)
    <2>1. /\ job'[t].pc = "idle" /\ job'[t].res = NotReconciled(job[t])
      <3>1. Return(t, NotReconciled(job[t]))
        BY <1>23 DEF ReconcileFails, ReplaceAllFails
      <3>2. job'[t] = Ended(job[t], NotReconciled(job[t]))
        BY <1>0, <3>1
      <3> QED BY <3>2, EndedFields
    <2>2. job[t].pc \in {"reconcile", "replace"} /\ UNCHANGED <<memories, index, now>>
      BY <1>23 DEF ReconcileFails, ReplaceAllFails, db
    <2>3. Rows' = Rows /\ Active' = Active
      BY <2>2, ActiveKept
    <2>4. CASE job[t].call # "rebuild"
      BY <1>1, <2>1, <2>2, <2>4 DEF Accounted, AdmitsDrift, NotReconciled
    <2>5. CASE job[t].call = "rebuild"
      <3>1. ~degraded' => ~degraded \/ (index = job[t].batch /\ job[t].pc = "replace")
        BY <2>2 DEF DriftNext, IndexReplaced
      <3> QED BY <1>0, <2>1, <2>2, <2>3, <2>5, <3>1 DEF Accounted, Missing, Stray, Repairing
    <2> QED BY <2>4, <2>5
  <1>24. CASE FetchEmbedding(t)
    <2>1. job'[t].pc \in {"fetch", "cluster"}
      <3>1. PICK i \in job[t].batch :
              Proceed(t, IF job[t].batch = {i}
                         THEN [job[t] EXCEPT !.pc = "cluster",
                                 !.batch = job[t].group \cup {i}, !.group = {}]
                         ELSE [job[t] EXCEPT !.batch = @ \ {i},
                                 !.group = job[t].group \cup {i}])
        BY <1>24 DEF FetchEmbedding
      <3>2. CASE job[t].batch = {i}
        BY <1>0, <3>1, <3>2 DEF Job
      <3>3. CASE job[t].batch # {i}
        <4>1. Proceed(t, [job[t] EXCEPT !.batch = @ \ {i}, !.group = job[t].group \cup {i}])
          BY <3>1, <3>3
        <4>2. job[t].pc = "fetch" /\ job[t] \in Job
          BY <1>0, <1>24 DEF FetchEmbedding
        <4>3. job'[t] = [job[t] EXCEPT !.batch = @ \ {i}, !.group = job[t].group \cup {i}]
          BY <1>0, <4>1
        <4> QED BY <4>2, <4>3 DEF Job
      <3> QED BY <3>2, <3>3
    <2> QED BY <1>24, <2>1, NothingOwed DEF FetchEmbedding, db
  <1>25. CASE FetchMissing(t)
    <2>1. job'[t].pc = "idle"
      BY <1>0, <1>25, EndedFields DEF FetchMissing
    <2> QED BY <1>25, <2>1, NothingOwed DEF FetchMissing, db
  <1>26. CASE Summarise(t)
    <2>1. job'[t].pc = "commit"
      <3>1. PICK cluster \in SUBSET job[t].batch :
              Proceed(t, [job[t] EXCEPT !.pc = "commit", !.fresh = issued + 1,
                            !.ttl = SummaryTtl, !.clutter = FALSE, !.created_at = now,
                            !.group = cluster, !.batch = @ \ cluster])
        BY <1>26 DEF Summarise
      <3> QED BY <1>0, <3>1 DEF Job
    <2> QED BY <1>26, <2>1, NothingOwed DEF Summarise, db
  <1>27. CASE CompressEnd(t)
    <2>1. job'[t].pc = "idle"
      BY <1>0, <1>27, EndedFields DEF CompressEnd
    <2> QED BY <1>27, <2>1, NothingOwed DEF CompressEnd, db
  <1>28. CASE FetchFails(t)
    <2>1. job'[t].pc = "idle"
      BY <1>0, <1>28, EndedFields DEF FetchFails
    <2> QED BY <1>28, <2>1, NothingOwed DEF FetchFails, db
  <1> QED
    BY <1>2, <1>3, <1>4, <1>5, <1>6, <1>7, <1>8, <1>10, <1>11, <1>12, <1>13, <1>14, <1>15,
       <1>16, <1>17, <1>18, <1>19, <1>20, <1>21, <1>22, <1>23, <1>24, <1>25, <1>26, <1>27,
       <1>28
    DEF Continue

-----------------------------------------------------------------------------
(* The invariant *)

LEMMA DriftInvInit == DriftInit => DriftInv
  <1> SUFFICES ASSUME DriftInit PROVE DriftInv
    OBVIOUS
  <1>1. \A t \in Tasks : job[t].pc = "idle"
    BY DEF DriftInit, Init, Idle
  <1>2. Active = {} /\ index = {} /\ Rows = {}
    BY DEF DriftInit, Init, Active, Rows
  <1> QED BY <1>1, <1>2 DEF DriftInv, Accounted, Missing, Stray, Repairing

LEMMA DriftInvNext ==
  ASSUME NEW t, Tasks = {t}, Canonical
  PROVE  Sound /\ DriftInv /\ [DriftNext]_<<vars, degraded>> => DriftInv'
  <1> SUFFICES ASSUME Sound, DriftInv, [DriftNext]_<<vars, degraded>> PROVE DriftInv'
    OBVIOUS
  <1>0. job \in [Tasks -> Job]
    BY DEF Sound, IInv
  <1>1. CASE UNCHANGED <<vars, degraded>>
    <2>1. Rows' = Rows /\ Active' = Active
      BY <1>1, ActiveKept DEF vars
    <2> QED BY <1>1, <2>1 DEF vars, DriftInv
  <1>2. CASE DriftNext /\ Tick
    <2>1. Rows' = Rows /\ Active' \subseteq Active /\ UNCHANGED <<job, index, up>>
      BY <1>2, ActiveAges DEF Tick, db
    <2>2. ~degraded' => ~degraded \/ (index = job[t].batch /\ job[t].pc = "replace")
      BY <1>2 DEF Tick, DriftNext, IndexReplaced, Returned
    <2>3. ASSUME up, Accounted(job[t], Rows, Active, index, degraded)
          PROVE  Accounted(job[t], Rows', Active', index, degraded')
      BY <2>1, <2>2, <2>3 DEF Accounted, Missing, Stray, Repairing
    <2> QED BY <2>1, <2>3 DEF DriftInv
  <1>3. CASE DriftNext /\ Crash
    <2>1. ~up' /\ \A u \in Tasks : job'[u].pc = "idle"
      BY <1>3 DEF Crash, Idle
    <2> QED BY <2>1 DEF DriftInv
  <1>4. CASE DriftNext /\ Open
    <2>1. /\ index' = Active /\ Active' = Active /\ Rows' = Rows /\ Active \subseteq Rows
          /\ job' = job
      BY <1>4, ActiveKept DEF Open, db, Active
    <2>2. job[t].pc = "idle"
      BY <1>4 DEF Open, DriftInv
    <2>3. Accounted(job'[t], Rows', Active', index', degraded')
      BY <2>1, <2>2 DEF Accounted, Missing, Stray, Repairing
    <2>4. up'
      BY <1>4 DEF Open
    <2> QED BY <2>3, <2>4 DEF DriftInv
  <1>5. CASE DriftNext /\ (Start(t) \/ Continue(t))
    <2>1. up
      <3>1. CASE Start(t)
        BY <3>1 DEF Start, Store, UpdateRefused, UpdateRead, Forget, ForgetFails, Purge,
                    PurgeFails, Rebuild, Compress, CompressFails, Ready
      <3>2. CASE Continue(t)
        <4>1. job[t].pc # "idle"
          BY <3>2 DEF Continue, CommitRow, CommitFails, InsertVector, InsertVectorFails,
               UndoInsert, UndoInsertFails, UpdateDraft, MarkSuperseded, MarkSupersededFails,
               UndoRow, UndoRowFails, UndoIndex, UndoIndexFails, ForgetVector,
               ForgetVectorFails, PurgeVector, PurgeEnd, Reconcile, ReconcileFails, ReplaceAll,
               ReplaceAllFails, FetchEmbedding, FetchMissing, FetchFails, Summarise, CompressEnd,
               MarkAllSuperseded, MarkAllSupersededFails
        <4> QED BY <4>1 DEF DriftInv
      <3> QED BY <1>5, <3>1, <3>2
    <2>2. up' = up
      BY <1>5, StepMoves DEF Moves
    <2>3. Accounted(job'[t], Rows', Active', index', degraded')
      BY <1>5, <2>1, StartAccounted, ContinueAccounted
    <2> QED BY <2>1, <2>2, <2>3 DEF DriftInv
  <1> QED BY <1>1, <1>2, <1>3, <1>4, <1>5 DEF DriftNext, Next

\* Whatever fails, and whenever the process dies: between the calls of a single
\* caller, who writes ids as they are stored, every active memory has its vector
\* and every vector its row, unless CompensationFailed has told the caller to
\* rebuild the index, or a failed compression could not take its summary back.
THEOREM SingleCallersDriftIsReported ==
  ASSUME NEW t, Tasks = {t}, Canonical
  PROVE  DriftSpec => []DriftIsReported
  <1>1. DriftInit => Init
    BY DEF DriftInit
  <1>2. [DriftNext]_<<vars, degraded>> => [Next]_vars
    BY DEF DriftNext
  <1>3. DriftInv => DriftIsReported
    <2> SUFFICES ASSUME DriftInv, Quiet, ~degraded
                 PROVE  Active \subseteq index /\ index \subseteq Rows
      BY DEF DriftIsReported
    <2> QED BY DEF Quiet, DriftInv, Accounted, Missing, Stray, Repairing
  <1> QED BY <1>1, <1>2, <1>3, SoundInit, SoundNext, DriftInvInit, DriftInvNext, PTL
          DEF DriftSpec
=============================================================================
