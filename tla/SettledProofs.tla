---------------------------- MODULE SettledProofs ----------------------------
(***************************************************************************)
(* Ids in MemoryEngine: an id whose row is still to be written is known to *)
(* nobody but the call that writes it, so a row that is gone stays gone.   *)
(* And what calls leave behind in table and index, when they fail, forget  *)
(* or return.  For every value of the constants.                           *)
(***************************************************************************)
EXTENDS MemoryEngineProofs

\* Where a call has an id but has not written its row.
Writing == {"draft", "commit"}

Drafts == {job[t].fresh : t \in {u \in Tasks : job[u].pc \in Writing}}

\* The ids a call holds on to, besides the one it has generated.
Held(j) == j.batch \cup j.group \cup {j.target}

\* The invariant: drafts are in no table, index or call, no two calls store the
\* same id, and nothing was created in the future.
Settled ==
  /\ index \subseteq 1..issued
  /\ (Rows \cup index) \cap Drafts = {}
  /\ \A t \in Tasks : Held(job[t]) \cap Drafts = {} /\ job[t].created_at <= now
  /\ \A t, u \in Tasks : t # u /\ job[t].pc \in Storing /\ job[u].pc \in Storing
                           => job[t].fresh # job[u].fresh
  /\ \A i \in Rows : memories[i].created_at <= now

\* A row that is there before and after a step is the same but for a successor,
\* which it never loses.
RowKept(i) ==
  /\ memories'[i].created_at = memories[i].created_at
  /\ memories'[i].expires_at = memories[i].expires_at
  /\ memories'[i].clutter = memories[i].clutter
  /\ memories[i].superseded_by # NoId => memories'[i].superseded_by # NoId

\* What the step of a call, which leaves the call in state j, does to ids: it
\* draws a new one, writes the row of the one it has, or neither.
Draws(t, j) ==
  /\ j.pc \in Writing /\ j.fresh = issued + 1 /\ issued' = issued + 1
  /\ UNCHANGED <<memories, index>>

Writes(t, j) ==
  /\ job[t].pc = "commit" /\ j.pc = "insert" /\ j.fresh = job[t].fresh
  /\ DOMAIN memories' = Rows \cup {j.fresh}
  /\ \A i \in Rows \ {j.fresh} : memories'[i] = memories[i]
  /\ memories'[j.fresh].created_at = job[t].created_at
  /\ UNCHANGED <<index, issued>>

MovesOn(t, j) ==
  /\ j.pc \in Storing => /\ job[t].pc \in Storing /\ j.fresh = job[t].fresh
                         /\ j.pc \in Writing <=> job[t].pc \in Writing
  /\ DOMAIN memories' \subseteq Rows
  /\ \A i \in DOMAIN memories' : RowKept(i)
  /\ index' \subseteq index \cup Rows \cup job[t].batch
                    \cup {i \in {job[t].fresh} : job[t].pc \in Storing \ Writing}
  /\ issued' = issued

Moves(t, j) ==
  /\ Proceed(t, j)
  /\ now' = now /\ up' = up
  /\ j.call = job[t].call \/ j.call \in Calls[t]
  /\ j.created_at <= now
  /\ Held(j) \subseteq Held(job[t]) \cup Rows \cup KnownIds \cup {NoId}
  /\ Draws(t, j) \/ Writes(t, j) \/ MovesOn(t, j)

-----------------------------------------------------------------------------
(* Every step of a call moves ids like that *)

\* The start of a call.
LEMMA StartMoves ==
  ASSUME IInv, NEW t \in Tasks, Start(t)
  PROVE  \E j : Moves(t, j)
  <1>0. now \in Nat /\ issued \in Nat
    BY DEF IInv
  <1>1. CASE Store(t)
    <2>1. PICK ttl \in Ttls, clutter \in Clutters :
            Proceed(t, [Idle EXCEPT !.pc = "commit", !.call = "store",
                          !.fresh = issued + 1, !.ttl = ttl,
                          !.clutter = clutter, !.created_at = now])
      BY <1>1 DEF Store
    <2> DEFINE j == [Idle EXCEPT !.pc = "commit", !.call = "store",
                          !.fresh = issued + 1, !.ttl = ttl,
                          !.clutter = clutter, !.created_at = now]
    <2>2. /\ j.pc = "commit" /\ j.fresh = issued + 1 /\ j.created_at = now /\ Held(j) = {NoId}
          /\ j.call = "store"
      BY DEF Idle, Held
    <2>3. Moves(t, j)
      <3> HIDE DEF j
      <3>1. Proceed(t, j)
        BY <2>1 DEF j
      <3> QED BY <1>0, <1>1, <2>2, <3>1 DEF Store, Ready, db, Moves, Draws, Writing
    <2> QED BY <2>3
  <1>2. CASE UpdateRefused(t)
    <2>1. PICK i \in KnownIds :
            Proceed(t, [Idle EXCEPT !.call = "update", !.target = i, !.res = "err"])
      BY <1>2 DEF UpdateRefused
    <2> DEFINE j == [Idle EXCEPT !.call = "update", !.target = i, !.res = "err"]
    <2>2. j.pc = "idle" /\ j.created_at = 0 /\ Held(j) = {i} /\ j.call = "update"
      BY DEF Idle, Held
    <2>3. Moves(t, j)
      <3> HIDE DEF j
      <3>1. Proceed(t, j)
        BY <2>1 DEF j
      <3> QED BY <1>0, <1>2, <2>2, <3>1
              DEF UpdateRefused, Ready, db, Moves, MovesOn, Storing, Writing, Rows, RowKept
    <2> QED BY <2>3
  <1>3. CASE UpdateRead(t)
    <2>0. PICK i \in KnownIds : \E ttl, clutter :
            Proceed(t, [Idle EXCEPT !.pc = "draft", !.call = "update",
                          !.target = i, !.fresh = issued + 1, !.ttl = ttl, !.clutter = clutter])
      BY <1>3 DEF UpdateRead
    <2>1. PICK ttl, clutter :
            Proceed(t, [Idle EXCEPT !.pc = "draft", !.call = "update",
                          !.target = i, !.fresh = issued + 1, !.ttl = ttl, !.clutter = clutter])
      BY <2>0
    <2> DEFINE j == [Idle EXCEPT !.pc = "draft", !.call = "update",
                          !.target = i, !.fresh = issued + 1, !.ttl = ttl, !.clutter = clutter]
    <2>2. /\ j.pc = "draft" /\ j.fresh = issued + 1 /\ j.created_at = 0 /\ Held(j) = {i}
          /\ j.call = "update"
      BY DEF Idle, Held
    <2>3. Moves(t, j)
      <3> HIDE DEF j
      <3>1. Proceed(t, j)
        BY <2>1 DEF j
      <3> QED BY <1>0, <1>3, <2>2, <3>1 DEF UpdateRead, Ready, db, Moves, Draws, Writing
    <2> QED BY <2>3
  <1>4. CASE Forget(t)
    <2>1. PICK i \in KnownIds, spelling \in Spellings :
            /\ DeleteRows(Matching(i, spelling))
            /\ Proceed(t, [Idle EXCEPT !.pc = "forget_index", !.call = "forget", !.target = i])
      BY <1>4 DEF Forget
    <2> DEFINE j == [Idle EXCEPT !.pc = "forget_index", !.call = "forget", !.target = i]
    <2>2. j.pc = "forget_index" /\ j.created_at = 0 /\ Held(j) = {i} /\ j.call = "forget"
      BY DEF Idle, Held
    <2>3. Moves(t, j)
      <3> HIDE DEF j
      <3>1. Proceed(t, j)
        BY <2>1 DEF j
      <3>2. DOMAIN memories' \subseteq Rows /\ \A k \in DOMAIN memories' : RowKept(k)
        BY <2>1 DEF DeleteRows, RowKept
      <3> QED BY <1>0, <1>4, <2>2, <3>1, <3>2
              DEF Forget, Ready, Moves, MovesOn, Storing, Writing
    <2> QED BY <2>3
  <1>5. CASE ForgetFails(t)
    <2>1. PICK i \in KnownIds :
            Proceed(t, [Idle EXCEPT !.call = "forget", !.target = i, !.res = "err"])
      BY <1>5 DEF ForgetFails
    <2> DEFINE j == [Idle EXCEPT !.call = "forget", !.target = i, !.res = "err"]
    <2>2. j.pc = "idle" /\ j.created_at = 0 /\ Held(j) = {i} /\ j.call = "forget"
      BY DEF Idle, Held
    <2>3. Moves(t, j)
      <3> HIDE DEF j
      <3>1. Proceed(t, j)
        BY <2>1 DEF j
      <3> QED BY <1>0, <1>5, <2>2, <3>1
              DEF ForgetFails, Ready, db, Moves, MovesOn, Storing, Writing, Rows, RowKept
    <2> QED BY <2>3
  <1>6. CASE Purge(t)
    <2> DEFINE j == IF ExpiredRows = {}
                    THEN [Idle EXCEPT !.call = "purge", !.res = "ok"]
                    ELSE [Idle EXCEPT !.pc = "purge_index", !.call = "purge",
                                      !.batch = ExpiredRows]
    <2>2. /\ j.pc \in {"idle", "purge_index"} /\ j.created_at = 0 /\ j.call = "purge"
          /\ Held(j) \subseteq Rows \cup {NoId}
      BY DEF Idle, Held, ExpiredRows
    <2>3. Moves(t, j)
      <3>1. Proceed(t, j)
        BY <1>6 DEF Purge
      <3> HIDE DEF j
      <3>2. DOMAIN memories' \subseteq Rows /\ \A k \in DOMAIN memories' : RowKept(k)
        BY <1>6 DEF Purge, DeleteRows, RowKept
      <3> QED BY <1>0, <1>6, <2>2, <3>1, <3>2
              DEF Purge, Ready, Moves, MovesOn, Storing, Writing
    <2> QED BY <2>3
  <1>7. CASE PurgeFails(t)
    <2> DEFINE j == [Idle EXCEPT !.call = "purge", !.res = "err"]
    <2>2. j.pc = "idle" /\ j.created_at = 0 /\ Held(j) = {NoId} /\ j.call = "purge"
      BY DEF Idle, Held
    <2>3. Moves(t, j)
      <3>1. Proceed(t, j)
        BY <1>7 DEF PurgeFails
      <3> HIDE DEF j
      <3> QED BY <1>0, <1>7, <2>2, <3>1
              DEF PurgeFails, Ready, db, Moves, MovesOn, Storing, Writing, Rows, RowKept
    <2> QED BY <2>3
  <1>8. CASE Rebuild(t)
    <2> DEFINE j == [Idle EXCEPT !.pc = "reconcile", !.call = "rebuild"]
    <2>2. j.pc = "reconcile" /\ j.created_at = 0 /\ Held(j) = {NoId} /\ j.call = "rebuild"
      BY DEF Idle, Held
    <2>3. Moves(t, j)
      <3>1. Proceed(t, j)
        BY <1>8 DEF Rebuild
      <3> HIDE DEF j
      <3> QED BY <1>0, <1>8, <2>2, <3>1
              DEF Rebuild, Ready, db, Moves, MovesOn, Storing, Writing, Rows, RowKept
    <2> QED BY <2>3
  <1>9. CASE Compress(t)
    <2> DEFINE j == IF Candidates = {}
                    THEN [Idle EXCEPT !.call = "compress", !.res = "ok"]
                    ELSE [Idle EXCEPT !.pc = "fetch", !.call = "compress",
                                      !.batch = Candidates]
    <2>2. /\ j.pc \in {"idle", "fetch"} /\ j.created_at = 0 /\ j.call = "compress"
          /\ Held(j) \subseteq Rows \cup {NoId}
      BY DEF Idle, Held, Candidates
    <2>3. Moves(t, j)
      <3>1. Proceed(t, j)
        BY <1>9 DEF Compress
      <3> HIDE DEF j
      <3> QED BY <1>0, <1>9, <2>2, <3>1
              DEF Compress, Ready, db, Moves, MovesOn, Storing, Writing, Rows, RowKept
    <2> QED BY <2>3
  <1>10. CASE CompressFails(t)
    <2> DEFINE j == [Idle EXCEPT !.call = "compress", !.res = "err"]
    <2>2. j.pc = "idle" /\ j.created_at = 0 /\ Held(j) = {NoId} /\ j.call = "compress"
      BY DEF Idle, Held
    <2>3. Moves(t, j)
      <3>1. Proceed(t, j)
        BY <1>10 DEF CompressFails
      <3> HIDE DEF j
      <3> QED BY <1>0, <1>10, <2>2, <3>1
              DEF CompressFails, Ready, db, Moves, MovesOn, Storing, Writing, Rows, RowKept
    <2> QED BY <2>3
  <1> QED BY <1>1, <1>2, <1>3, <1>4, <1>5, <1>6, <1>7, <1>8, <1>9, <1>10 DEF Start

\* A step that leaves the tables alone keeps every row.
LEMMA TablesKept ==
  ASSUME UNCHANGED memories
  PROVE  DOMAIN memories' \subseteq Rows /\ \A i \in DOMAIN memories' : RowKept(i)
  BY DEF Rows, RowKept

\* A call that returns draws no id and holds on to none but its target.
LEMMA ReturnMoves ==
  ASSUME IInv, NEW t \in Tasks, NEW r, Return(t, r),
         DOMAIN memories' \subseteq Rows, \A i \in DOMAIN memories' : RowKept(i),
         index' \subseteq index \cup Rows \cup job[t].batch
                     \cup {i \in {job[t].fresh} : job[t].pc \in Storing \ Writing},
         UNCHANGED <<now, up, issued>>
  PROVE  \E j : Moves(t, j)
  <1> DEFINE j == Ended(job[t], r)
  <1>1. /\ j.pc = "idle" /\ j.created_at = 0 /\ j.call = job[t].call
        /\ Held(j) \subseteq Held(job[t])
    BY DEF Ended, Idle, Held
  <1>2. now \in Nat
    BY DEF IInv
  <1>3. Moves(t, j)
    <2>1. Proceed(t, j)
      BY DEF Return
    <2> HIDE DEF j
    <2> QED BY <1>1, <1>2, <2>1 DEF Moves, MovesOn, Storing, Writing
  <1> QED BY <1>3

\* The next step of a call.
LEMMA ContinueMoves ==
  ASSUME IInv, Settled, NEW t \in Tasks, Continue(t)
  PROVE  \E j : Moves(t, j)
  <1>0. now \in Nat /\ issued \in Nat /\ job[t] \in Job /\ job[t].created_at <= now
    BY DEF IInv, Settled
  <1>1. CASE CommitRow(t)
    <2> DEFINE j == [job[t] EXCEPT !.pc = "insert"]
    <2>1. /\ j.pc = "insert" /\ j.fresh = job[t].fresh /\ j.created_at = job[t].created_at
          /\ j.call = job[t].call /\ Held(j) = Held(job[t])
      BY <1>0 DEF Job, Held
    <2>2. Moves(t, j)
      <3>1. Proceed(t, j)
        BY <1>1 DEF CommitRow
      <3>2. /\ DOMAIN memories' = Rows \cup {job[t].fresh}
            /\ \A i \in Rows \ {job[t].fresh} : memories'[i] = memories[i]
            /\ memories'[job[t].fresh].created_at = job[t].created_at
        BY <1>1 DEF CommitRow, NewRow
      <3> HIDE DEF j
      <3> QED BY <1>0, <1>1, <2>1, <3>1, <3>2 DEF CommitRow, Moves, Writes
    <2> QED BY <2>2
  <1>2. CASE CommitFails(t)
    BY <1>2, TablesKept, ReturnMoves DEF CommitFails, db
  <1>3. CASE InsertVector(t)
    <2>1. CASE job[t].call = "store"
      BY <1>3, <2>1, TablesKept, ReturnMoves DEF InsertVector, db, Storing, Writing
    <2>2. CASE job[t].call # "store"
      <3> DEFINE j == [job[t] EXCEPT !.pc = "mark"]
      <3>1. /\ j.pc = "mark" /\ j.fresh = job[t].fresh /\ j.created_at = job[t].created_at
            /\ j.call = job[t].call /\ Held(j) = Held(job[t])
        BY <1>0 DEF Job, Held
      <3>2. Proceed(t, j)
        BY <1>3, <2>2 DEF InsertVector
      <3> HIDE DEF j
      <3>3. Moves(t, j)
        BY <1>0, <1>3, <3>1, <3>2, TablesKept
           DEF InsertVector, db, Moves, MovesOn, Storing, Writing
      <3> QED BY <3>3
    <2> QED BY <2>1, <2>2
  <1>4. CASE InsertVectorFails(t)
    <2> DEFINE j == [job[t] EXCEPT !.pc = "undo_insert"]
    <2>1. /\ j.pc = "undo_insert" /\ j.fresh = job[t].fresh /\ j.created_at = job[t].created_at
          /\ j.call = job[t].call /\ Held(j) = Held(job[t])
      BY <1>0 DEF Job, Held
    <2>2. Proceed(t, j)
      BY <1>4 DEF InsertVectorFails
    <2> HIDE DEF j
    <2>3. Moves(t, j)
      BY <1>0, <1>4, <2>1, <2>2, TablesKept
         DEF InsertVectorFails, db, Moves, MovesOn, Storing, Writing
    <2> QED BY <2>3
  <1>5. CASE UndoInsert(t)
    <2>1. DOMAIN memories' \subseteq Rows /\ \A k \in DOMAIN memories' : RowKept(k)
      BY <1>5 DEF UndoInsert, DeleteRows, RowKept
    <2> QED BY <1>5, <2>1, ReturnMoves DEF UndoInsert
  <1>6. CASE UndoInsertFails(t)
    BY <1>6, TablesKept, ReturnMoves DEF UndoInsertFails, db
  <1>7. CASE UpdateDraft(t)
    <2> DEFINE j == [job[t] EXCEPT !.pc = "commit", !.created_at = now]
    <2>1. /\ j.pc = "commit" /\ j.fresh = job[t].fresh /\ j.created_at = now
          /\ j.call = job[t].call /\ Held(j) = Held(job[t])
      BY <1>0 DEF Job, Held
    <2>2. Proceed(t, j)
      BY <1>7 DEF UpdateDraft
    <2> HIDE DEF j
    <2>3. Moves(t, j)
      BY <1>0, <1>7, <2>1, <2>2, TablesKept
         DEF UpdateDraft, db, Moves, MovesOn, Storing, Writing
    <2> QED BY <2>3
  <1>8. CASE MarkSuperseded(t)
    <2>1. DOMAIN memories' \subseteq Rows /\ \A k \in DOMAIN memories' : RowKept(k)
      <3>1. job[t].fresh # NoId
        BY <1>8 DEF IInv, JobOK, MarkSuperseded, Storing, NoId
      <3>2. ASSUME NEW k \in Rows PROVE memories[k] \in Row
        BY DEF IInv, DbOK
      <3> QED BY <1>8, <3>1, <3>2 DEF MarkSuperseded, Supersede, RowKept, Row
    <2> QED BY <1>8, <2>1, ReturnMoves DEF MarkSuperseded
  <1>9. CASE MarkSupersededFails(t)
    <2> DEFINE j == [job[t] EXCEPT !.pc = "undo_row"]
    <2>1. /\ j.pc = "undo_row" /\ j.fresh = job[t].fresh /\ j.created_at = job[t].created_at
          /\ j.call = job[t].call /\ Held(j) = Held(job[t])
      BY <1>0 DEF Job, Held
    <2>2. Proceed(t, j)
      BY <1>9 DEF MarkSupersededFails
    <2> HIDE DEF j
    <2>3. Moves(t, j)
      BY <1>0, <1>9, <2>1, <2>2, TablesKept
         DEF MarkSupersededFails, db, Moves, MovesOn, Storing, Writing
    <2> QED BY <2>3
  <1>10. CASE UndoRow(t)
    <2> DEFINE j == [job[t] EXCEPT !.pc = "undo_index", !.res = "err"]
    <2>1. /\ j.pc = "undo_index" /\ j.fresh = job[t].fresh /\ j.created_at = job[t].created_at
          /\ j.call = job[t].call /\ Held(j) = Held(job[t])
      BY <1>0 DEF Job, Held
    <2>2. Proceed(t, j)
      BY <1>10 DEF UndoRow
    <2>3. DOMAIN memories' \subseteq Rows /\ \A k \in DOMAIN memories' : RowKept(k)
      BY <1>10 DEF UndoRow, DeleteRows, RowKept
    <2> HIDE DEF j
    <2>4. Moves(t, j)
      BY <1>0, <1>10, <2>1, <2>2, <2>3 DEF UndoRow, Moves, MovesOn, Storing, Writing
    <2> QED BY <2>4
  <1>11. CASE UndoRowFails(t)
    <2> DEFINE j == [job[t] EXCEPT !.pc = "undo_index", !.res = CompensationFailure(job[t])]
    <2>1. /\ j.pc = "undo_index" /\ j.fresh = job[t].fresh /\ j.created_at = job[t].created_at
          /\ j.call = job[t].call /\ Held(j) = Held(job[t])
      BY <1>0 DEF Job, Held
    <2>2. Proceed(t, j)
      BY <1>11 DEF UndoRowFails
    <2> HIDE DEF j
    <2>3. Moves(t, j)
      BY <1>0, <1>11, <2>1, <2>2, TablesKept
         DEF UndoRowFails, db, Moves, MovesOn, Storing, Writing
    <2> QED BY <2>3
  <1>12. CASE UndoIndex(t)
    BY <1>12, TablesKept, ReturnMoves DEF UndoIndex, db
  <1>13. CASE UndoIndexFails(t)
    BY <1>13, TablesKept, ReturnMoves DEF UndoIndexFails, db
  <1>14. CASE ForgetVector(t)
    BY <1>14, TablesKept, ReturnMoves DEF ForgetVector, db
  <1>15. CASE ForgetVectorFails(t)
    <2> DEFINE j == [job[t] EXCEPT !.pc = "reconcile"]
    <2>1. /\ j.pc = "reconcile" /\ j.created_at = job[t].created_at
          /\ j.call = job[t].call /\ Held(j) = Held(job[t])
      BY <1>0 DEF Job, Held
    <2>2. Proceed(t, j)
      BY <1>15 DEF ForgetVectorFails
    <2> HIDE DEF j
    <2>3. Moves(t, j)
      BY <1>0, <1>15, <2>1, <2>2, TablesKept
         DEF ForgetVectorFails, db, Moves, MovesOn, Storing, Writing
    <2> QED BY <2>3
  <1>16. CASE PurgeVector(t)
    <2>1. PICK i \in job[t].batch, res \in {job[t].res, "err"} :
            Proceed(t, [job[t] EXCEPT !.batch = @ \ {i}, !.res = res])
      <3>1. job[t].res \in Outcomes /\ job[t] = [job[t] EXCEPT !.res = job[t].res]
        BY <1>0 DEF Job
      <3>2. ASSUME NEW i \in job[t].batch
            PROVE  [job[t] EXCEPT !.batch = @ \ {i}]
                     = [job[t] EXCEPT !.batch = @ \ {i}, !.res = job[t].res]
        BY <1>0 DEF Job
      <3> QED BY <1>16, <3>2 DEF PurgeVector
    <2> DEFINE j == [job[t] EXCEPT !.batch = @ \ {i}, !.res = res]
    <2>2. /\ j.pc = "purge_index" /\ j.created_at = job[t].created_at
          /\ j.call = job[t].call /\ Held(j) \subseteq Held(job[t])
      BY <1>0, <1>16 DEF PurgeVector, Job, Held
    <2>3. Proceed(t, j)
      BY <2>1
    <2> HIDE DEF j
    <2>4. Moves(t, j)
      BY <1>0, <1>16, <2>2, <2>3, TablesKept
         DEF PurgeVector, db, Moves, MovesOn, Storing, Writing
    <2> QED BY <2>4
  <1>17. CASE PurgeEnd(t)
    <2>1. CASE job[t].res = "err"
      <3> DEFINE j == [job[t] EXCEPT !.pc = "reconcile"]
      <3>1. /\ j.pc = "reconcile" /\ j.created_at = job[t].created_at
            /\ j.call = job[t].call /\ Held(j) = Held(job[t])
        BY <1>0 DEF Job, Held
      <3>2. Proceed(t, j)
        BY <1>17, <2>1 DEF PurgeEnd
      <3> HIDE DEF j
      <3>3. Moves(t, j)
        BY <1>0, <1>17, <3>1, <3>2, TablesKept
           DEF PurgeEnd, db, Moves, MovesOn, Storing, Writing
      <3> QED BY <3>3
    <2>2. CASE job[t].res # "err"
      BY <1>17, <2>2, TablesKept, ReturnMoves DEF PurgeEnd, db
    <2> QED BY <2>1, <2>2
  <1>18. CASE Reconcile(t)
    <2> DEFINE j == [job[t] EXCEPT !.pc = "replace", !.batch = Active]
    <2>1. /\ j.pc = "replace" /\ j.created_at = job[t].created_at
          /\ j.call = job[t].call /\ Held(j) \subseteq Held(job[t]) \cup Rows
      BY <1>0 DEF Job, Held, Active
    <2>2. Proceed(t, j)
      BY <1>18 DEF Reconcile
    <2> HIDE DEF j
    <2>3. Moves(t, j)
      BY <1>0, <1>18, <2>1, <2>2, TablesKept
         DEF Reconcile, db, Moves, MovesOn, Storing, Writing
    <2> QED BY <2>3
  <1>19. CASE ReconcileFails(t)
    BY <1>19, TablesKept, ReturnMoves DEF ReconcileFails, db
  <1>20. CASE ReplaceAll(t)
    BY <1>20, TablesKept, ReturnMoves DEF ReplaceAll, db
  <1>21. CASE ReplaceAllFails(t)
    BY <1>21, TablesKept, ReturnMoves DEF ReplaceAllFails, db
  <1>22. CASE FetchEmbedding(t)
    <2>1. PICK i \in job[t].batch :
            Proceed(t, IF job[t].batch = {i}
                       THEN [job[t] EXCEPT !.pc = "cluster",
                               !.batch = job[t].group \cup {i}, !.group = {}]
                       ELSE [job[t] EXCEPT !.batch = @ \ {i},
                               !.group = job[t].group \cup {i}])
      BY <1>22 DEF FetchEmbedding
    <2> DEFINE j == IF job[t].batch = {i}
                    THEN [job[t] EXCEPT !.pc = "cluster",
                               !.batch = job[t].group \cup {i}, !.group = {}]
                    ELSE [job[t] EXCEPT !.batch = @ \ {i},
                               !.group = job[t].group \cup {i}]
    <2>2. /\ j.pc \in {"fetch", "cluster"} /\ j.created_at = job[t].created_at
          /\ j.call = job[t].call /\ Held(j) \subseteq Held(job[t])
      BY <1>0, <1>22 DEF FetchEmbedding, Job, Held
    <2>3. Proceed(t, j)
      BY <2>1
    <2> HIDE DEF j
    <2>4. Moves(t, j)
      BY <1>0, <1>22, <2>2, <2>3, TablesKept
         DEF FetchEmbedding, db, Moves, MovesOn, Storing, Writing
    <2> QED BY <2>4
  <1>23. CASE FetchMissing(t) \/ FetchFails(t)
    BY <1>23, TablesKept, ReturnMoves DEF FetchMissing, FetchFails, db
  <1>24. CASE Summarise(t)
    <2>1. PICK cluster \in SUBSET job[t].batch :
            Proceed(t, [job[t] EXCEPT !.pc = "commit", !.fresh = issued + 1,
                          !.ttl = SummaryTtl, !.clutter = FALSE, !.created_at = now,
                          !.group = cluster, !.batch = @ \ cluster])
      BY <1>24 DEF Summarise
    <2> DEFINE j == [job[t] EXCEPT !.pc = "commit", !.fresh = issued + 1,
                          !.ttl = SummaryTtl, !.clutter = FALSE, !.created_at = now,
                          !.group = cluster, !.batch = @ \ cluster]
    <2>2. /\ j.pc = "commit" /\ j.fresh = issued + 1 /\ j.created_at = now
          /\ j.call = job[t].call /\ Held(j) \subseteq Held(job[t])
      BY <1>0 DEF Job, Held
    <2>3. Proceed(t, j)
      BY <2>1
    <2> HIDE DEF j
    <2>4. Moves(t, j)
      BY <1>0, <1>24, <2>2, <2>3 DEF Summarise, db, Moves, Draws, Writing
    <2> QED BY <2>4
  <1>25. CASE CompressEnd(t)
    BY <1>25, TablesKept, ReturnMoves DEF CompressEnd, db
  <1>26. CASE MarkAllSuperseded(t)
    <2> DEFINE j == [job[t] EXCEPT !.pc = "cluster", !.group = {}]
    <2>1. /\ j.pc = "cluster" /\ j.created_at = job[t].created_at
          /\ j.call = job[t].call /\ Held(j) \subseteq Held(job[t])
      BY <1>0 DEF Job, Held
    <2>2. Proceed(t, j)
      BY <1>26 DEF MarkAllSuperseded
    <2>3. DOMAIN memories' \subseteq Rows /\ \A k \in DOMAIN memories' : RowKept(k)
      <3>1. job[t].fresh # NoId
        BY <1>26 DEF IInv, JobOK, MarkAllSuperseded, Storing, NoId
      <3>2. ASSUME NEW k \in Rows PROVE memories[k] \in Row
        BY DEF IInv, DbOK
      <3> QED BY <1>26, <3>1, <3>2 DEF MarkAllSuperseded, Supersede, RowKept, Row
    <2> HIDE DEF j
    <2>4. Moves(t, j)
      BY <1>0, <1>26, <2>1, <2>2, <2>3
         DEF MarkAllSuperseded, Moves, MovesOn, Storing, Writing
    <2> QED BY <2>4
  <1>27. CASE MarkAllSupersededFails(t)
    <2> DEFINE j == [job[t] EXCEPT !.pc = "undo_row"]
    <2>1. /\ j.pc = "undo_row" /\ j.fresh = job[t].fresh /\ j.created_at = job[t].created_at
          /\ j.call = job[t].call /\ Held(j) = Held(job[t])
      BY <1>0 DEF Job, Held
    <2>2. Proceed(t, j)
      BY <1>27 DEF MarkAllSupersededFails
    <2> HIDE DEF j
    <2>3. Moves(t, j)
      BY <1>0, <1>27, <2>1, <2>2, TablesKept
         DEF MarkAllSupersededFails, db, Moves, MovesOn, Storing, Writing
    <2> QED BY <2>3
  <1> QED
    BY <1>1, <1>2, <1>3, <1>4, <1>5, <1>6, <1>7, <1>8, <1>9, <1>10, <1>11, <1>12, <1>13,
       <1>14, <1>15, <1>16, <1>17, <1>18, <1>19, <1>20, <1>21, <1>22, <1>23, <1>24, <1>25, <1>26, <1>27 DEF Continue

-----------------------------------------------------------------------------
(* Ids stay settled *)

\* Callers know no id that is still a draft, and no draft is the null id.
LEMMA DraftsUnknown ==
  ASSUME IInv
  PROVE  /\ KnownIds \cap Drafts = {} /\ NoId \notin Drafts
         /\ Drafts \subseteq 1..issued /\ KnownIds \subseteq 1..issued
  <1>1. \A t \in Tasks : job[t].pc \in Writing => job[t].fresh \in 1..issued
    BY DEF IInv, JobOK, Storing, Writing
  <1>2. \A i \in Drafts : \E t \in Tasks : job[t].pc \in Writing /\ job[t].fresh = i
    BY DEF Drafts
  <1>3. KnownIds \cap Drafts = {}
    BY <1>2 DEF KnownIds, Writing
  <1> QED BY <1>1, <1>2, <1>3 DEF KnownIds, NoId, IInv

\* Only the call that moves can turn to or from drafting.
LEMMA DraftsMove ==
  ASSUME IInv, NEW t \in Tasks, NEW j, Proceed(t, j)
  PROVE  /\ job'[t] = j
         /\ \A u \in Tasks : u # t => job'[u] = job[u]
         /\ \A i \in Drafts' : \/ j.pc \in Writing /\ i = j.fresh
                               \/ \E u \in Tasks : u # t /\ job[u].pc \in Writing /\ i = job[u].fresh
         /\ \A u \in Tasks : job[u].pc \in Writing => job[u].fresh \in Drafts
  <1>1. job'[t] = j /\ \A u \in Tasks : u # t => job'[u] = job[u]
    BY DEF Proceed, IInv
  <1>2. \A i \in Drafts' : \E u \in Tasks : job'[u].pc \in Writing /\ i = job'[u].fresh
    BY DEF Drafts
  <1>3. \A u \in Tasks : job[u].pc \in Writing => job[u].fresh \in Drafts
    BY DEF Drafts
  <1>4. \A i \in Drafts' : \/ j.pc \in Writing /\ i = j.fresh
                           \/ \E u \in Tasks : u # t /\ job[u].pc \in Writing /\ i = job[u].fresh
    BY <1>1, <1>2
  <1> QED BY <1>1, <1>3, <1>4

\* A call that moves leaves all ids settled.
LEMMA MovesSettled ==
  ASSUME IInv, Settled, NEW t \in Tasks, NEW j, Moves(t, j)
  PROVE  Settled'
  <1>0. /\ issued \in Nat /\ now \in Nat /\ Rows \subseteq 1..issued /\ index \subseteq 1..issued
        /\ job[t].batch \subseteq 1..issued
        /\ \A u \in Tasks : Held(job[u]) \subseteq 0..issued
        /\ \A u \in Tasks : job[u].pc \in Storing => job[u].fresh \in 1..issued
    BY DEF IInv, DbOK, JobOK, Settled, Held
  <1>1. Proceed(t, j) /\ now' = now /\ j.created_at <= now
        /\ Held(j) \subseteq Held(job[t]) \cup Rows \cup KnownIds \cup {NoId}
    BY DEF Moves
  <1>2. /\ job'[t] = j
        /\ \A u \in Tasks : u # t => job'[u] = job[u]
        /\ \A i \in Drafts' : \/ j.pc \in Writing /\ i = j.fresh
                              \/ \E u \in Tasks : u # t /\ job[u].pc \in Writing /\ i = job[u].fresh
        /\ \A u \in Tasks : job[u].pc \in Writing => job[u].fresh \in Drafts
    BY <1>1, DraftsMove
  <1>3. \A u \in Tasks : job'[u].created_at <= now'
    BY <1>1, <1>2 DEF Settled
  <1>4. Held(j) \cap Drafts = {} /\ Held(j) \subseteq 0..issued
    <2>1. KnownIds \cap Drafts = {} /\ NoId \notin Drafts /\ KnownIds \subseteq 1..issued
      BY DraftsUnknown
    <2>2. Held(job[t]) \cap Drafts = {} /\ Rows \cap Drafts = {}
      BY DEF Settled
    <2>3. /\ Held(job[t]) \subseteq 0..issued /\ Rows \subseteq 0..issued
          /\ KnownIds \subseteq 0..issued /\ NoId \in 0..issued
      BY <1>0, <2>1 DEF NoId
    <2>4. Held(j) \subseteq Held(job[t]) \cup Rows \cup KnownIds \cup {NoId}
      BY <1>1
    <2>5. Held(j) \cap Drafts = {}
      BY <2>1, <2>2, <2>4
    <2>6. Held(j) \subseteq 0..issued
      BY <2>3, <2>4
    <2> QED BY <2>5, <2>6
  <1>5. \A u \in Tasks : Held(job'[u]) \cap Drafts = {} /\ Held(job'[u]) \subseteq 0..issued
    BY <1>0, <1>2, <1>4 DEF Settled
  <1>6. CASE Draws(t, j)
    <2>1. /\ issued' = issued + 1 /\ Rows' = Rows /\ index' = index /\ memories' = memories
          /\ j.fresh = issued + 1 /\ j.pc \in Writing
      BY <1>6 DEF Draws, Rows
    <2>2. Drafts' \subseteq Drafts \cup {issued + 1}
      BY <1>2, <2>1
    <2>3. issued + 1 \notin 0..issued /\ 1..issued \subseteq 0..issued /\ 1..issued \subseteq 1..issued'
      BY <1>0, <2>1
    <2>4. index' \subseteq 1..issued' /\ (Rows' \cup index') \cap Drafts' = {}
      BY <1>0, <2>1, <2>2, <2>3 DEF Settled
    <2>5. \A u \in Tasks : Held(job'[u]) \cap Drafts' = {}
      BY <1>5, <2>2, <2>3
    <2>6. \A u, v \in Tasks : u # v /\ job'[u].pc \in Storing /\ job'[v].pc \in Storing
                                => job'[u].fresh # job'[v].fresh
      BY <1>0, <1>2, <2>1, <2>3 DEF Settled
    <2>7. \A i \in Rows' : memories'[i].created_at <= now'
      BY <1>1, <2>1 DEF Settled
    <2> QED BY <1>3, <2>4, <2>5, <2>6, <2>7 DEF Settled
  <1>7. CASE Writes(t, j)
    <2>1. /\ job[t].pc \in Writing /\ j.pc = "insert" /\ j.fresh = job[t].fresh
          /\ Rows' = Rows \cup {j.fresh} /\ index' = index /\ issued' = issued
      BY <1>7 DEF Writes, Writing, Rows
    <2>2. job[t].pc \in Storing /\ j.pc \notin Writing /\ Writing \subseteq Storing
      BY <2>1 DEF Writing, Storing
    <2>3. Drafts' \subseteq Drafts /\ j.fresh \notin Drafts'
      BY <1>2, <2>1, <2>2 DEF Settled
    <2>4. \A u \in Tasks : Held(job'[u]) \cap Drafts' = {}
      BY <1>5, <2>3
    <2>5. index' \subseteq 1..issued' /\ (Rows' \cup index') \cap Drafts' = {}
      BY <1>0, <2>1, <2>3 DEF Settled
    <2>6. \A u, v \in Tasks : u # v /\ job'[u].pc \in Storing /\ job'[v].pc \in Storing
                                => job'[u].fresh # job'[v].fresh
      BY <1>2, <2>1, <2>2 DEF Settled
    <2>7. \A i \in Rows' : memories'[i].created_at <= now'
      BY <1>1, <1>7, <2>1 DEF Settled, Writes
    <2> QED BY <1>3, <2>4, <2>5, <2>6, <2>7 DEF Settled
  <1>8. CASE MovesOn(t, j)
    <2>1. /\ issued' = issued /\ Rows' \subseteq Rows
          /\ \A i \in Rows' : memories'[i].created_at = memories[i].created_at
          /\ j.pc \in Storing => job[t].pc \in Storing /\ j.fresh = job[t].fresh
          /\ j.pc \in Storing /\ j.pc \in Writing => job[t].pc \in Writing
      BY <1>8 DEF MovesOn, RowKept, Rows
    <2>2. Writing \subseteq Storing
      BY DEF Writing, Storing
    <2>3. Drafts' \subseteq Drafts
      BY <1>2, <2>1, <2>2
    <2>4. \A u \in Tasks : Held(job'[u]) \cap Drafts' = {}
      BY <1>5, <2>3
    <2>5. \A u, v \in Tasks : u # v /\ job'[u].pc \in Storing /\ job'[v].pc \in Storing
                                => job'[u].fresh # job'[v].fresh
      BY <1>2, <2>1 DEF Settled
    <2>6. ASSUME NEW i \in index' PROVE i \in 1..issued /\ i \notin Drafts
      <3>1. CASE i \in index \cup Rows
        BY <1>0, <3>1 DEF Settled
      <3>2. CASE i \in job[t].batch
        BY <1>0, <3>2 DEF Settled, Held
      <3>3. CASE i = job[t].fresh /\ job[t].pc \in Storing \ Writing
        <4>1. ASSUME i \in Drafts PROVE FALSE
          <5>1. PICK u \in Tasks : job[u].pc \in Writing /\ job[u].fresh = i
            BY <4>1 DEF Drafts
          <5> QED BY <2>2, <3>3, <5>1 DEF Settled
        <4> QED BY <1>0, <3>3, <4>1
      <3> QED BY <1>8, <3>1, <3>2, <3>3 DEF MovesOn
    <2>7. index' \subseteq 1..issued' /\ (Rows' \cup index') \cap Drafts' = {}
      BY <2>1, <2>3, <2>6 DEF Settled
    <2>8. \A i \in Rows' : memories'[i].created_at <= now'
      BY <1>1, <2>1 DEF Settled
    <2> QED BY <1>3, <2>4, <2>5, <2>7, <2>8 DEF Settled
  <1> QED BY <1>6, <1>7, <1>8 DEF Moves

\* So does the environment.
LEMMA LifecycleSettled ==
  ASSUME IInv, Settled, Tick \/ Crash \/ Open
  PROVE  Settled'
  <1>0. issued \in Nat /\ now \in Nat /\ Rows \subseteq 1..issued
    BY DEF IInv, DbOK
  <1>1. CASE Tick
    <2>1. /\ now' = now + 1 /\ Rows' = Rows /\ Drafts' = Drafts
          /\ UNCHANGED <<memories, index, issued, job>>
      BY <1>1 DEF Tick, db, Rows, Drafts
    <2>2. \A i \in Rows' : memories'[i].created_at <= now'
      <3>1. ASSUME NEW i \in Rows PROVE memories[i].created_at \in Nat
        BY DEF IInv, DbOK, Row
      <3> QED BY <1>0, <2>1, <3>1 DEF Settled
    <2>3. \A t \in Tasks : job'[t].created_at <= now'
      <3>1. ASSUME NEW t \in Tasks PROVE job[t].created_at \in Nat
        BY DEF IInv, Job
      <3> QED BY <1>0, <2>1, <3>1 DEF Settled
    <2> QED BY <2>1, <2>2, <2>3 DEF Settled
  <1>2. CASE Crash
    <2>1. /\ job' = [t \in Tasks |-> Idle] /\ index' = {} /\ Rows' = Rows
          /\ UNCHANGED <<memories, now, issued>>
      BY <1>2 DEF Crash, db, Rows
    <2>2. \A t \in Tasks : /\ job'[t].pc = "idle" /\ Held(job'[t]) = {NoId}
                           /\ job'[t].created_at = 0
      BY <2>1 DEF Idle, Held
    <2>3. Drafts' = {}
      BY <2>2 DEF Drafts, Writing
    <2> QED BY <1>0, <2>1, <2>2, <2>3 DEF Settled, Storing
  <1>3. CASE Open
    <2>1. /\ index' \subseteq Rows /\ Rows' = Rows /\ Drafts' = Drafts
          /\ UNCHANGED <<memories, now, issued, job>>
      BY <1>3 DEF Open, Active, db, Rows, Drafts
    <2> QED BY <1>0, <2>1 DEF Settled
  <1> QED BY <1>1, <1>2, <1>3

\* Initially no id is issued.
LEMMA SettledInit == Init => Settled
  <1> SUFFICES ASSUME Init PROVE Settled
    OBVIOUS
  <1>1. \A t \in Tasks : /\ job[t].pc = "idle" /\ Held(job[t]) = {NoId}
                         /\ job[t].created_at = 0
    BY DEF Init, Idle, Held
  <1>2. Drafts = {}
    BY <1>1 DEF Drafts, Writing
  <1>3. index = {} /\ Rows = {} /\ now = 0 /\ issued = 0
    BY DEF Init, Rows
  <1> QED BY <1>1, <1>2, <1>3 DEF Settled, Storing

LEMMA SettledNext == IInv /\ Settled /\ [Next]_vars => Settled'
  <1> SUFFICES ASSUME IInv, Settled, [Next]_vars PROVE Settled'
    OBVIOUS
  <1>1. CASE Tick \/ Crash \/ Open
    BY <1>1, LifecycleSettled
  <1>2. ASSUME NEW t \in Tasks, Start(t) PROVE Settled'
    BY <1>2, StartMoves, MovesSettled
  <1>3. ASSUME NEW t \in Tasks, Continue(t) PROVE Settled'
    BY <1>3, ContinueMoves, MovesSettled
  <1>4. CASE UNCHANGED vars
    BY <1>4 DEF vars, Settled, Rows, Drafts
  <1> QED BY <1>1, <1>2, <1>3, <1>4 DEF Next

\* Both invariants together.
Sound == IInv /\ Settled

LEMMA SoundInit == Init => Sound
  BY IInvInit, SettledInit DEF Sound

LEMMA SoundNext == Sound /\ [Next]_vars => Sound'
  BY IInvNext, SettledNext DEF Sound

\* Ids of unwritten memories are nowhere, in every behaviour: callers, index,
\* batches and clusters only ever hold committed ids.
THEOREM AlwaysSettled == Spec => []Sound
  BY SoundInit, SoundNext, PTL DEF Spec

-----------------------------------------------------------------------------
(* What a step does to rows and ids *)

\* A row is the same row, or the one a draft was waiting for; ids only ever
\* become drafts when they are new.
LEMMA RowHistory ==
  ASSUME Sound, [Next]_vars
  PROVE  /\ now' >= now /\ issued' >= issued
         /\ \A i \in Rows' : \/ i \in Rows /\ RowKept(i)
                             \/ i \in Drafts \ Rows /\ memories'[i].created_at <= now
         /\ \A i \in 1..issued : i \in Drafts' => i \in Drafts
  <1>0. now \in Nat /\ issued \in Nat
    BY DEF Sound, IInv
  <1>1. CASE Tick \/ Crash \/ Open \/ UNCHANGED vars
    <2>1. now' >= now /\ issued' = issued /\ Rows' = Rows /\ memories' = memories
      BY <1>0, <1>1 DEF Tick, Crash, Open, vars, db, Rows
    <2>2. Drafts' \subseteq Drafts
      <3>1. \A t \in Tasks : job'[t] = job[t] \/ job'[t] = Idle
        BY <1>1 DEF Tick, Crash, Open, vars
      <3> QED BY <3>1 DEF Drafts, Idle, Writing
    <2> QED BY <1>0, <2>1, <2>2 DEF RowKept
  <1>2. ASSUME NEW t \in Tasks, NEW j, Moves(t, j)
        PROVE  /\ now' = now /\ issued' >= issued
               /\ \A i \in Rows' : \/ i \in Rows /\ RowKept(i)
                                   \/ i \in Drafts \ Rows /\ memories'[i].created_at <= now
               /\ \A i \in 1..issued : i \in Drafts' => i \in Drafts
    <2>1. /\ \A i \in Drafts' : \/ j.pc \in Writing /\ i = j.fresh
                                \/ \E u \in Tasks : u # t /\ job[u].pc \in Writing /\ i = job[u].fresh
          /\ \A u \in Tasks : job[u].pc \in Writing => job[u].fresh \in Drafts
      BY <1>2, DraftsMove DEF Moves, Sound
    <2>2. CASE Draws(t, j)
      <3>1. \A i \in 1..issued : i \in Drafts' => i \in Drafts
        BY <1>0, <2>1, <2>2 DEF Draws
      <3> QED BY <1>0, <1>2, <2>2, <3>1 DEF Moves, Draws, Rows, RowKept
    <2>3. CASE Writes(t, j)
      <3>1. job[t].pc \in Writing /\ j.fresh = job[t].fresh /\ j.fresh \in Drafts
            /\ job[t].created_at <= now /\ j.pc \notin Writing
        BY <2>1, <2>3 DEF Writes, Writing, Sound, Settled
      <3>2. j.fresh \notin Rows
        BY <3>1 DEF Sound, Settled
      <3>3. \A i \in Rows' : \/ i \in Rows /\ RowKept(i)
                             \/ i \in Drafts \ Rows /\ memories'[i].created_at <= now
        BY <2>3, <3>1, <3>2 DEF Writes, Rows, RowKept
      <3> QED BY <1>0, <1>2, <2>1, <2>3, <3>1, <3>3 DEF Moves, Writes
    <2>4. CASE MovesOn(t, j)
      <3>1. j.pc \in Writing => job[t].pc \in Writing /\ j.fresh = job[t].fresh
        BY <2>4 DEF MovesOn, Writing, Storing
      <3>2. \A i \in 1..issued : i \in Drafts' => i \in Drafts
        BY <2>1, <3>1
      <3> QED BY <1>0, <1>2, <2>4, <3>2 DEF Moves, MovesOn, Rows
    <2> QED BY <1>2, <2>2, <2>3, <2>4 DEF Moves
  <1>3. ASSUME NEW t \in Tasks, Start(t) \/ Continue(t) PROVE \E j : Moves(t, j)
    BY <1>3, StartMoves, ContinueMoves DEF Sound
  <1>4. ASSUME NEW t \in Tasks, Start(t) \/ Continue(t)
        PROVE  /\ now' >= now /\ issued' >= issued
               /\ \A i \in Rows' : \/ i \in Rows /\ RowKept(i)
                                   \/ i \in Drafts \ Rows /\ memories'[i].created_at <= now
               /\ \A i \in 1..issued : i \in Drafts' => i \in Drafts
    BY <1>0, <1>2, <1>3, <1>4
  <1> QED BY <1>1, <1>4 DEF Next

-----------------------------------------------------------------------------
(* What calls leave behind *)

\* Nobody replaces the whole index beside other calls: no caller rebuilds it,
\* and the vector store deletes what it is asked to delete.
NoReconciliation == "delete" \notin Faults /\ \A t \in Tasks : "rebuild" \notin Calls[t]

\* Forget compares ids as they are stored.
Canonical == "other" \notin Spellings

\* Ids that some call may still write or insert.
Claimed == {job[t].fresh : t \in {u \in Tasks : job[u].pc \in Storing}}

\* Where the row may be there without its vector.
Unindexed == {"insert", "undo_insert", "undo_index"}

\* A store or update that has failed, its compensation has not.
PlainError(j) == j.call \in {"store", "update"} /\ j.res = "err"

\* The ids a call has removed, or taken back, are not among the rows R, the
\* vectors X and the claims C; and no reconciliation is under way.
Traceless(j, R, X, C) ==
  /\ j.pc \notin {"reconcile", "replace"}
  /\ j.pc = "purge_index" => j.res # "err" /\ j.batch \cap R = {}
  /\ j.call = "forget" => j.pc \in {"idle", "forget_index"}
  /\ j.pc = "forget_index" => /\ j.call = "forget"
                              /\ Canonical => j.target \notin R
                              /\ ~EarlyReads => j.target \notin C
  /\ j.pc = "idle" /\ j.call = "forget" /\ j.res = "ok" /\ Canonical /\ ~EarlyReads
       => j.target \notin R \cup X \cup C
  /\ j.pc \in {"insert", "undo_insert"} => j.fresh \notin X
  /\ j.pc = "undo_index" /\ j.fresh \in R => SqlFails /\ ~PlainError(j)
  /\ j.pc = "idle" /\ PlainError(j) => j.fresh \notin R \cup X \cup C
  /\ j.pc \in {"mark", "undo_row"} => j.call # "store"
  /\ j.pc \in {"fetch", "cluster"} => j.call = "compress"

\* The inductive invariant: besides that, no row points at an id that may be
\* taken back, so that it can be, and what is active is indexed.
Tidy ==
  /\ \A t \in Tasks : Traceless(job[t], Rows, index, Claimed)
  /\ \A t \in Tasks : job[t].pc \in Storing =>
       \A i \in Rows : memories[i].superseded_by # job[t].fresh
  /\ \A t \in Tasks : job[t].fresh \in 0..issued
  /\ up \/ \A t \in Tasks : job[t].pc = "idle"
  /\ Canonical /\ ~SqlFails => ActiveIsSearchable

\* What a step of a call does to index and successors.
Changes(t) ==
  /\ up
  /\ job'[t].fresh \in 0..issued'
  /\ index' \subseteq index \cup {i \in {job[t].fresh} : job[t].pc = "insert"}
  /\ \A i \in Rows' \cap Rows :
       \/ memories'[i].superseded_by = memories[i].superseded_by
       \/ /\ job[t].pc = "mark" /\ job'[t].pc \notin Storing
          /\ memories'[i].superseded_by = job[t].fresh
  /\ \A i \in Rows' \ Rows :
       /\ i = job[t].fresh /\ job[t].pc = "commit" /\ job'[t].pc = "insert"
       /\ memories'[i].superseded_by = NoId
  /\ Canonical /\ ~SqlFails =>
       /\ \A i \in index \ index' : i \notin Rows'
       /\ job[t].pc \in Unindexed /\ job[t].fresh \in Rows' =>
            \/ job[t].fresh \in index'
            \/ job'[t].pc \in Unindexed /\ job'[t].fresh = job[t].fresh

\* Which ids are claimed after the step of a call.
LEMMA ClaimedMove ==
  ASSUME Sound, NEW t \in Tasks, Moves(t, job'[t])
  PROVE  /\ \A u \in Tasks : u # t => job'[u] = job[u]
         /\ \A u \in Tasks : job[u].pc \in Storing => job[u].fresh \in Claimed /\ job[u].fresh \in 1..issued
         /\ Claimed' \subseteq Claimed \cup {issued + 1}
         /\ job[t].pc \in Storing /\ job'[t].pc \notin Storing => job[t].fresh \notin Claimed'
         /\ \A i \in 0..issued : i \in Claimed' => i \in Claimed
  <1>1. /\ issued \in Nat
        /\ \A u \in Tasks : job[u].pc \in Storing => job[u].fresh \in 1..issued
    BY DEF Sound, IInv, JobOK
  <1>2. \A u \in Tasks : u # t => job'[u] = job[u]
    BY DEF Moves, Proceed, Sound, IInv
  <1>3. \A u \in Tasks : job[u].pc \in Storing => job[u].fresh \in Claimed
    BY DEF Claimed
  <1>4. ASSUME NEW i \in Claimed'
        PROVE  \/ job'[t].pc \in Storing /\ i = job'[t].fresh
               \/ \E u \in Tasks : u # t /\ job[u].pc \in Storing /\ i = job[u].fresh
    <2>1. PICK u \in Tasks : job'[u].pc \in Storing /\ i = job'[u].fresh
      BY DEF Claimed
    <2> QED BY <1>2, <2>1
  <1>5. job'[t].pc \in Storing => \/ job[t].pc \in Storing /\ job'[t].fresh = job[t].fresh
                                  \/ job'[t].fresh = issued + 1
    BY DEF Moves, Draws, Writes, MovesOn, Storing
  <1>6. Claimed' \subseteq Claimed \cup {issued + 1}
    BY <1>3, <1>4, <1>5
  <1>7. job[t].pc \in Storing /\ job'[t].pc \notin Storing => job[t].fresh \notin Claimed'
    BY <1>4 DEF Sound, Settled
  <1> QED BY <1>1, <1>2, <1>3, <1>6, <1>7

\* A step that keeps the invariant of its own call keeps that of the others.
LEMMA TidyMoves ==
  ASSUME Sound, Tidy, [Next]_vars, NEW t \in Tasks, Moves(t, job'[t]), Changes(t),
         Traceless(job'[t], Rows', index', Claimed')
  PROVE  Tidy'
  <1>0. /\ issued \in Nat /\ Rows \subseteq 1..issued /\ index \subseteq 1..issued
        /\ \A u \in Tasks : Held(job[u]) \cap Drafts = {} /\ job[u].target \in 0..issued
        /\ (Rows \cup index) \cap Drafts = {}
        /\ \A i \in Rows : memories[i].superseded_by \in Rows \cup {NoId}
    BY DEF Sound, Settled, IInv, DbOK, JobOK, ForeignKeyCheck
  <1>1. /\ \A u \in Tasks : u # t => job'[u] = job[u]
        /\ \A u \in Tasks : job[u].pc \in Storing => job[u].fresh \in Claimed /\ job[u].fresh \in 1..issued
        /\ Claimed' \subseteq Claimed \cup {issued + 1}
        /\ \A i \in 0..issued : i \in Claimed' => i \in Claimed
    BY ClaimedMove
  <1>2. \A u \in Tasks : u # t /\ job[u].pc \in Storing /\ job[t].pc \in Storing
                           => job[u].fresh # job[t].fresh
    BY DEF Sound, Settled
  <1>3. /\ \A i \in Rows' \ Rows : i = job[t].fresh /\ job[t].pc = "commit"
        /\ \A i \in index' \ index : i = job[t].fresh /\ job[t].pc = "insert"
    BY DEF Changes
  <1>4. job[t].pc \in {"commit", "insert"} => job[t].pc \in Storing
    BY DEF Storing
  <1>5. job[t].pc = "commit" => job[t].fresh \in Drafts
    BY DEF Drafts, Writing
  <1>6. ASSUME NEW u \in Tasks, u # t
        PROVE  Traceless(job'[u], Rows', index', Claimed')
    <2>1. job'[u] = job[u] /\ Traceless(job[u], Rows, index, Claimed)
      BY <1>1, <1>6 DEF Tidy
    <2>2. \A i \in Held(job[u]) : i \in Rows' => i \in Rows
      BY <1>0, <1>3, <1>5
    <2>3. ASSUME NEW i \in 0..issued, i \notin Rows \cup index \cup Claimed
          PROVE  i \notin Rows' \cup index' \cup Claimed'
      BY <1>1, <1>3, <1>4, <2>3
    <2>4. job[u].pc \in Storing => /\ job[u].fresh \in Rows' => job[u].fresh \in Rows
                                   /\ job[u].fresh \in index' => job[u].fresh \in index
      BY <1>2, <1>3, <1>4, <1>6
    <2>5. job[u].batch \subseteq Held(job[u]) /\ job[u].target \in Held(job[u])
          /\ job[u].target \in 0..issued
      BY <1>0 DEF Held
    <2>6. job[u].fresh \in 0..issued
      BY DEF Tidy
    <2> QED BY <1>1, <2>1, <2>2, <2>3, <2>4, <2>5, <2>6 DEF Traceless, Storing
  <1>7. \A u \in Tasks : Traceless(job'[u], Rows', index', Claimed')
    BY <1>6
  <1>8. ASSUME NEW u \in Tasks, job'[u].pc \in Storing, NEW i \in Rows'
        PROVE  memories'[i].superseded_by # job'[u].fresh
    <2>1. CASE job[u].pc \in Storing /\ job'[u].fresh = job[u].fresh
      <3>1. job[u].fresh # NoId
        BY <1>1, <2>1 DEF NoId
      <3>2. u = t => job'[t].pc \in Storing
        BY <1>8
      <3>3. CASE i \notin Rows
        BY <2>1, <3>1, <3>3 DEF Changes
      <3>4. CASE i \in Rows /\ memories'[i].superseded_by = memories[i].superseded_by
        BY <2>1, <3>4 DEF Tidy
      <3>5. CASE /\ job[t].pc = "mark" /\ job'[t].pc \notin Storing
                 /\ memories'[i].superseded_by = job[t].fresh
        BY <1>2, <1>8, <2>1, <3>2, <3>5 DEF Storing
      <3> QED BY <3>3, <3>4, <3>5 DEF Changes
    <2>2. CASE u = t /\ job'[t].fresh = issued + 1 /\ memories' = memories
      <3>1. memories[i].superseded_by \in 0..issued
        BY <1>0, <2>2 DEF NoId, Rows
      <3> QED BY <1>0, <2>2, <3>1
    <2> QED BY <1>1, <1>8, <2>1, <2>2 DEF Moves, Draws, Writes, MovesOn, Storing
  <1>9. up'
    BY DEF Changes, Moves
  <1>10. \A u \in Tasks : job'[u].fresh \in 0..issued'
    <2>1. issued' >= issued
      BY RowHistory
    <2>2. issued' \in Nat
      BY <1>0, SoundNext DEF Sound, IInv
    <2> QED BY <1>0, <1>1, <2>1, <2>2 DEF Changes, Tidy
  <1>11. ASSUME Canonical, ~SqlFails PROVE ActiveIsSearchable'
    <2> SUFFICES ASSUME NEW i \in Active', i \notin index'
                 PROVE  \E u \in Tasks : job'[u].fresh = i /\ job'[u].pc \in Unindexed
      BY DEF ActiveIsSearchable, Unindexed
    <2>1. i \in Rows'
      BY DEF Active
    <2>2. CASE i \notin Rows
      <3>1. i = job[t].fresh /\ job'[t].pc = "insert"
        BY <2>1, <2>2 DEF Changes
      <3>2. job'[t].fresh = job[t].fresh
        BY <3>1 DEF Moves, Draws, Writes, MovesOn, Storing, Writing
      <3> QED BY <3>1, <3>2 DEF Unindexed
    <2>3. CASE i \in Rows
      <3>1. i \in Active
        <4>1. RowKept(i)
          BY <2>1, <2>3, RowHistory
        <4>2. now' = now
          BY DEF Moves
        <4> QED BY <2>3, <4>1, <4>2 DEF Active, Expired, RowKept
      <3>2. i \notin index
        BY <1>11, <2>1 DEF Changes
      <3>3. PICK u \in Tasks : job[u].fresh = i /\ job[u].pc \in Unindexed
        BY <1>11, <3>1, <3>2 DEF Tidy, ActiveIsSearchable, Unindexed, Changes
      <3>4. CASE u = t
        BY <1>11, <2>1, <3>3, <3>4 DEF Changes
      <3>5. CASE u # t
        BY <1>1, <3>3, <3>5
      <3> QED BY <3>4, <3>5
    <2> QED BY <2>2, <2>3
  <1> QED BY <1>7, <1>8, <1>9, <1>10, <1>11 DEF Tidy

\* The step of a call that leaves rows and index alone, the last one that may
\* see a row without its vector aside.
LEMMA QuietStep ==
  ASSUME up, UNCHANGED <<memories, index>>, NEW t \in Tasks,
         job'[t].fresh \in 0..issued',
         \/ SqlFails \/ job[t].pc \notin Unindexed
         \/ job[t].fresh \notin Rows
         \/ job'[t].pc \in Unindexed /\ job'[t].fresh = job[t].fresh
  PROVE  Changes(t)
  BY DEF Changes, Rows

\* Most states of a call promise nothing.
LEMMA PlainState ==
  ASSUME NEW j, NEW R, NEW X, NEW C, j.call # "forget",
         \/ j.pc \in {"draft", "commit"}
         \/ j.pc \in {"fetch", "cluster"} /\ j.call = "compress"
         \/ j.pc \in {"mark", "undo_row"} /\ j.call # "store"
         \/ j.pc = "idle" /\ ~PlainError(j)
  PROVE  Traceless(j, R, X, C)
  BY DEF Traceless

\* The step of a call changes its own state and no other's.
LEMMA StepMoves ==
  ASSUME Sound, NEW t \in Tasks, Start(t) \/ Continue(t)
  PROVE  Moves(t, job'[t])
  <1>1. PICK j : Moves(t, j)
    BY StartMoves, ContinueMoves DEF Sound
  <1>2. job'[t] = j
    BY <1>1 DEF Moves, Proceed, Sound, IInv
  <1> QED BY <1>1, <1>2

\* Calls start without a trace of what was removed.
LEMMA StartTidy ==
  ASSUME Sound, Tidy, NoReconciliation, NEW t \in Tasks, Moves(t, job'[t]), Start(t)
  PROVE  Changes(t) /\ Traceless(job'[t], Rows', index', Claimed')
  <1>0. /\ issued \in Nat /\ Rows \subseteq 1..issued /\ index \subseteq 1..issued
        /\ \A j : Proceed(t, j) => job'[t] = j
    BY DEF Sound, Settled, IInv, DbOK, Proceed
  <1>1. /\ \A u \in Tasks : job[u].pc \in Storing => job[u].fresh \in Claimed /\ job[u].fresh \in 1..issued
        /\ \A i \in 0..issued : i \in Claimed' => i \in Claimed
    BY ClaimedMove
  <1>2. Claimed \subseteq 1..issued
    BY <1>1 DEF Claimed
  <1>3. "idle" \notin Unindexed
    BY DEF Unindexed
  <1>4. CASE Store(t)
    <2>1. job'[t].pc = "commit" /\ job'[t].call = "store" /\ job'[t].fresh = issued + 1
      <3>1. PICK ttl \in Ttls, clutter \in Clutters :
              Proceed(t, [Idle EXCEPT !.pc = "commit", !.call = "store",
                            !.fresh = issued + 1, !.ttl = ttl,
                            !.clutter = clutter, !.created_at = now])
        BY <1>4 DEF Store
      <3>2. job'[t] = [Idle EXCEPT !.pc = "commit", !.call = "store",
                         !.fresh = issued + 1, !.ttl = ttl,
                         !.clutter = clutter, !.created_at = now]
        BY <1>0, <3>1
      <3> QED BY <3>2 DEF Idle
    <2>2. Changes(t)
      BY <1>0, <1>3, <1>4, <2>1, QuietStep DEF Store, Ready, db
    <2>3. Traceless(job'[t], Rows', index', Claimed')
      BY <2>1, PlainState
    <2> QED BY <2>2, <2>3
  <1>5. CASE UpdateRefused(t)
    <2>1. job'[t].pc = "idle" /\ job'[t].call = "update" /\ job'[t].fresh = NoId
      <3>1. PICK i \in KnownIds :
              Proceed(t, [Idle EXCEPT !.call = "update", !.target = i, !.res = "err"])
        BY <1>5 DEF UpdateRefused
      <3> QED BY <1>0, <3>1 DEF Idle
    <2>2. Changes(t)
      BY <1>0, <1>3, <1>5, <2>1, QuietStep DEF UpdateRefused, Ready, db, NoId
    <2>3. NoId \notin Rows' \cup index' \cup Claimed'
      BY <1>0, <1>1, <1>2, <1>5 DEF UpdateRefused, db, Rows, NoId
    <2>4. Traceless(job'[t], Rows', index', Claimed')
      BY <2>1, <2>3 DEF Traceless
    <2> QED BY <2>2, <2>4
  <1>6. CASE UpdateRead(t)
    <2>1. job'[t].pc = "draft" /\ job'[t].call = "update" /\ job'[t].fresh = issued + 1
      <3>1. PICK i \in KnownIds : \E ttl, clutter :
              Proceed(t, [Idle EXCEPT !.pc = "draft", !.call = "update",
                            !.target = i, !.fresh = issued + 1, !.ttl = ttl, !.clutter = clutter])
        BY <1>6 DEF UpdateRead
      <3>2. PICK ttl, clutter :
              Proceed(t, [Idle EXCEPT !.pc = "draft", !.call = "update",
                            !.target = i, !.fresh = issued + 1, !.ttl = ttl, !.clutter = clutter])
        BY <3>1
      <3>3. job'[t] = [Idle EXCEPT !.pc = "draft", !.call = "update",
                         !.target = i, !.fresh = issued + 1, !.ttl = ttl, !.clutter = clutter]
        BY <1>0, <3>2
      <3> QED BY <3>3 DEF Idle
    <2>2. Changes(t)
      BY <1>0, <1>3, <1>6, <2>1, QuietStep DEF UpdateRead, Ready, db
    <2>3. Traceless(job'[t], Rows', index', Claimed')
      BY <2>1, PlainState
    <2> QED BY <2>2, <2>3
  <1>7. CASE Forget(t)
    <2>1. PICK i \in KnownIds, spelling \in Spellings :
            /\ DeleteRows(Matching(i, spelling))
            /\ Proceed(t, [Idle EXCEPT !.pc = "forget_index", !.call = "forget", !.target = i])
      BY <1>7 DEF Forget
    <2>2. /\ job'[t].pc = "forget_index" /\ job'[t].call = "forget" /\ job'[t].target = i
          /\ job'[t].fresh = NoId
      BY <1>0, <2>1 DEF Idle
    <2>3. Changes(t)
      BY <1>0, <1>3, <1>7, <2>1, <2>2 DEF Changes, Forget, Ready, DeleteRows, Rows, NoId, Moves
    <2>4. Canonical => i \notin Rows'
      <3>1. Canonical => spelling = "canonical"
        BY CallAssumption DEF Canonical
      <3> QED BY <2>1, <3>1 DEF DeleteRows, Matching, Rows
    <2>5. ~EarlyReads => i \notin Claimed'
      <3>1. i \in 1..issued
        BY DEF KnownIds
      <3>2. ASSUME ~EarlyReads, NEW u \in Tasks, job[u].pc \in Storing
            PROVE  job[u].fresh # i
        BY <3>2 DEF KnownIds, Storing
      <3>3. ~EarlyReads => i \notin Claimed
        BY <3>2 DEF Claimed
      <3> QED BY <1>0, <1>1, <3>1, <3>3
    <2>6. Traceless(job'[t], Rows', index', Claimed')
      BY <2>2, <2>4, <2>5 DEF Traceless
    <2> QED BY <2>3, <2>6
  <1>8. CASE ForgetFails(t)
    <2>1. /\ job'[t].pc = "idle" /\ job'[t].call = "forget" /\ job'[t].res = "err"
          /\ job'[t].fresh = NoId
      <3>1. PICK i \in KnownIds :
              Proceed(t, [Idle EXCEPT !.call = "forget", !.target = i, !.res = "err"])
        BY <1>8 DEF ForgetFails
      <3> QED BY <1>0, <3>1 DEF Idle
    <2>2. Changes(t)
      BY <1>0, <1>3, <1>8, <2>1, QuietStep DEF ForgetFails, Ready, db, NoId
    <2>3. Traceless(job'[t], Rows', index', Claimed')
      BY <2>1 DEF Traceless, PlainError
    <2> QED BY <2>2, <2>3
  <1>9. CASE Purge(t)
    <2>1. /\ job'[t].call = "purge" /\ job'[t].fresh = NoId /\ job'[t].res # "err"
          /\ \/ job'[t].pc = "idle"
             \/ job'[t].pc = "purge_index" /\ job'[t].batch = ExpiredRows
      <3>1. CASE ExpiredRows = {}
        BY <1>0, <1>9, <3>1 DEF Purge, Idle
      <3>2. CASE ExpiredRows # {}
        BY <1>0, <1>9, <3>2 DEF Purge, Idle
      <3> QED BY <3>1, <3>2
    <2>2. Changes(t)
      BY <1>0, <1>3, <1>9, <2>1 DEF Changes, Purge, Ready, DeleteRows, Rows, NoId, Moves
    <2>3. ExpiredRows \cap Rows' = {}
      BY <1>9 DEF Purge, DeleteRows, Rows
    <2>4. Traceless(job'[t], Rows', index', Claimed')
      BY <2>1, <2>3 DEF Traceless, PlainError
    <2> QED BY <2>2, <2>4
  <1>10. CASE PurgeFails(t)
    <2>1. job'[t].pc = "idle" /\ job'[t].call = "purge" /\ job'[t].fresh = NoId
      BY <1>0, <1>10 DEF PurgeFails, Idle
    <2>2. Changes(t)
      BY <1>0, <1>3, <1>10, <2>1, QuietStep DEF PurgeFails, Ready, db, NoId
    <2>3. Traceless(job'[t], Rows', index', Claimed')
      BY <2>1, PlainState DEF PlainError
    <2> QED BY <2>2, <2>3
  <1>11. CASE Rebuild(t)
    BY <1>11 DEF Rebuild, Ready, NoReconciliation
  <1>12. CASE Compress(t)
    <2>1. /\ job'[t].call = "compress" /\ job'[t].fresh = NoId
          /\ job'[t].pc \in {"idle", "fetch"}
      <3>1. CASE Candidates = {}
        BY <1>0, <1>12, <3>1 DEF Compress, Idle
      <3>2. CASE Candidates # {}
        BY <1>0, <1>12, <3>2 DEF Compress, Idle
      <3> QED BY <3>1, <3>2
    <2>2. Changes(t)
      BY <1>0, <1>3, <1>12, <2>1, QuietStep DEF Compress, Ready, db, NoId
    <2>3. Traceless(job'[t], Rows', index', Claimed')
      BY <2>1, PlainState DEF PlainError
    <2> QED BY <2>2, <2>3
  <1>13. CASE CompressFails(t)
    <2>1. job'[t].pc = "idle" /\ job'[t].call = "compress" /\ job'[t].fresh = NoId
      BY <1>0, <1>13 DEF CompressFails, Idle
    <2>2. Changes(t)
      BY <1>0, <1>3, <1>13, <2>1, QuietStep DEF CompressFails, Ready, db, NoId
    <2>3. Traceless(job'[t], Rows', index', Claimed')
      BY <2>1, PlainState DEF PlainError
    <2> QED BY <2>2, <2>3
  <1> QED BY <1>4, <1>5, <1>6, <1>7, <1>8, <1>9, <1>10, <1>11, <1>12, <1>13 DEF Start

\* A successor that may be taken back is not yet pointed at: only the database
\* can keep its row from being deleted.
LEMMA TakenBack ==
  ASSUME Tidy, NEW t \in Tasks, job[t].pc \in Storing,
         SqlFails \/ ~Deletable({job[t].fresh})
  PROVE  SqlFails
  BY DEF Deletable, Tidy

\* What the caller keeps of a call that ends.
LEMMA EndedFields ==
  ASSUME NEW j, NEW r
  PROVE  /\ Ended(j, r).pc = "idle" /\ Ended(j, r).call = j.call /\ Ended(j, r).res = r
         /\ Ended(j, r).target = j.target /\ Ended(j, r).fresh = j.fresh
  BY DEF Ended, Idle

\* Calls go on without a trace of what was removed.
LEMMA ContinueTidy ==
  ASSUME Sound, Tidy, NoReconciliation, NEW t \in Tasks, Moves(t, job'[t]), Continue(t)
  PROVE  Changes(t) /\ Traceless(job'[t], Rows', index', Claimed')
  <1>0. /\ issued \in Nat /\ issued' \in Nat /\ issued' >= issued
        /\ (Rows \cup index) \cap Drafts = {}
        /\ \A j : Proceed(t, j) => job'[t] = j
        /\ \A r : Return(t, r) => job'[t] = Ended(job[t], r)
        /\ job[t] \in Job /\ job[t].fresh \in 0..issued /\ job[t].target \in 0..issued
    BY DEF Sound, Settled, IInv, JobOK, Proceed, Return, Moves, Draws, Writes, MovesOn, Tidy
  <1>1. /\ job[t].pc \in Storing /\ job'[t].pc \notin Storing => job[t].fresh \notin Claimed'
        /\ \A i \in 0..issued : i \in Claimed' => i \in Claimed
    BY ClaimedMove
  <1>2. Traceless(job[t], Rows, index, Claimed)
    BY DEF Tidy
  <1>3. job[t].pc # "idle" => up
    BY DEF Tidy
  <1>4. job[t].pc \in Writing => job[t].fresh \notin Rows \cup index
    BY <1>0 DEF Drafts
  <1>5. /\ job[t].pc \notin {"idle", "forget_index"} => job[t].call # "forget"
        /\ job[t].pc \in {"fetch", "cluster"} => job[t].call = "compress"
    BY <1>2 DEF Traceless
  <1>6. job'[t].fresh = job[t].fresh => job'[t].fresh \in 0..issued'
    BY <1>0
  <1>7. CASE CommitRow(t)
    <2>1. /\ job'[t].pc = "insert" /\ job'[t].fresh = job[t].fresh /\ job'[t].call = job[t].call
      BY <1>0, <1>7 DEF CommitRow, Job
    <2>2. /\ job[t].pc = "commit" /\ job[t].fresh \notin Rows \cup index /\ index' = index
          /\ Rows' = Rows \cup {job[t].fresh}
          /\ memories'[job[t].fresh].superseded_by = NoId
          /\ \A i \in Rows : memories'[i] = memories[i]
      BY <1>4, <1>7 DEF CommitRow, Writing, Rows, NewRow
    <2>3. Changes(t)
      BY <1>3, <1>6, <2>1, <2>2 DEF Changes, Unindexed
    <2>4. Traceless(job'[t], Rows', index', Claimed')
      BY <1>5, <2>1, <2>2 DEF Traceless
    <2> QED BY <2>3, <2>4
  <1>8. CASE CommitFails(t)
    <2>1. job'[t].pc = "idle" /\ job'[t].fresh = job[t].fresh /\ job'[t].call = job[t].call
      BY <1>0, <1>8, EndedFields DEF CommitFails
    <2>2. /\ job[t].pc = "commit" /\ job[t].fresh \notin Rows \cup index /\ UNCHANGED <<memories, index>>
      BY <1>4, <1>8 DEF CommitFails, Writing, db
    <2>3. job[t].fresh \notin Rows' \cup index' \cup Claimed'
      BY <1>1, <2>1, <2>2 DEF Rows, Storing
    <2>4. Changes(t)
      BY <1>3, <1>6, <2>1, <2>2, QuietStep
    <2>5. Traceless(job'[t], Rows', index', Claimed')
      BY <1>5, <2>1, <2>2, <2>3 DEF Traceless
    <2> QED BY <2>4, <2>5
  <1>9. CASE InsertVector(t)
    <2>1. /\ job'[t].fresh = job[t].fresh /\ job'[t].call = job[t].call
          /\ \/ job'[t].pc = "idle" /\ job'[t].res = "ok"
             \/ job'[t].pc = "mark" /\ job[t].call # "store"
      <3>1. CASE job[t].call = "store"
        BY <1>0, <1>9, <3>1, EndedFields DEF InsertVector
      <3>2. CASE job[t].call # "store"
        BY <1>0, <1>9, <3>2 DEF InsertVector, Job
      <3> QED BY <3>1, <3>2
    <2>2. /\ job[t].pc = "insert" /\ index' = index \cup {job[t].fresh} /\ memories' = memories
          /\ Rows' = Rows
      BY <1>9 DEF InsertVector, db, Rows
    <2>3. Changes(t)
      BY <1>3, <1>6, <2>1, <2>2 DEF Changes
    <2>4. Traceless(job'[t], Rows', index', Claimed')
      BY <1>5, <2>1, <2>2, PlainState DEF PlainError
    <2> QED BY <2>3, <2>4
  <1>10. CASE InsertVectorFails(t)
    <2>1. /\ job'[t].pc = "undo_insert" /\ job'[t].fresh = job[t].fresh /\ job'[t].call = job[t].call
      BY <1>0, <1>10 DEF InsertVectorFails, Job
    <2>2. job[t].pc = "insert" /\ UNCHANGED <<memories, index>>
      BY <1>10 DEF InsertVectorFails, db
    <2>3. Changes(t)
      BY <1>3, <1>6, <2>1, <2>2, QuietStep DEF Unindexed
    <2>4. Traceless(job'[t], Rows', index', Claimed')
      BY <1>2, <1>5, <2>1, <2>2 DEF Traceless
    <2> QED BY <2>3, <2>4
  <1>11. CASE UndoInsert(t)
    <2>1. job'[t].pc = "idle" /\ job'[t].fresh = job[t].fresh /\ job'[t].call = job[t].call
      BY <1>0, <1>11, EndedFields DEF UndoInsert
    <2>2. /\ job[t].pc = "undo_insert" /\ index' = index /\ Rows' = Rows \ {job[t].fresh}
          /\ \A i \in Rows' : memories'[i] = memories[i]
      BY <1>11 DEF UndoInsert, DeleteRows, Rows
    <2>3. job[t].fresh \notin Rows' \cup index' \cup Claimed'
      BY <1>1, <1>2, <2>1, <2>2 DEF Storing, Traceless
    <2>4. Changes(t)
      BY <1>3, <1>6, <2>1, <2>2 DEF Changes
    <2>5. Traceless(job'[t], Rows', index', Claimed')
      BY <1>5, <2>1, <2>2, <2>3 DEF Traceless
    <2> QED BY <2>4, <2>5
  <1>12. CASE UndoInsertFails(t)
    <2>1. /\ job'[t].pc = "idle" /\ job'[t].fresh = job[t].fresh /\ job'[t].call = job[t].call
          /\ job'[t].res = "comp_failed"
      BY <1>0, <1>12, EndedFields DEF UndoInsertFails
    <2>2. job[t].pc = "undo_insert" /\ UNCHANGED <<memories, index>> /\ SqlFails
      BY <1>12, TakenBack DEF UndoInsertFails, db, Storing
    <2>3. Changes(t)
      BY <1>3, <1>6, <2>1, <2>2, QuietStep
    <2>4. Traceless(job'[t], Rows', index', Claimed')
      BY <1>5, <2>1, <2>2, PlainState DEF PlainError
    <2> QED BY <2>3, <2>4
  <1>13. CASE UpdateDraft(t)
    <2>1. /\ job'[t].pc = "commit" /\ job'[t].fresh = job[t].fresh /\ job'[t].call = job[t].call
      BY <1>0, <1>13 DEF UpdateDraft, Job
    <2>2. job[t].pc = "draft" /\ UNCHANGED <<memories, index>>
      BY <1>13 DEF UpdateDraft, db
    <2>3. Changes(t)
      BY <1>3, <1>6, <2>1, <2>2, QuietStep DEF Unindexed
    <2>4. Traceless(job'[t], Rows', index', Claimed')
      BY <1>5, <2>1, <2>2, PlainState
    <2> QED BY <2>3, <2>4
  <1>14. CASE MarkSuperseded(t)
    <2>1. /\ job'[t].pc = "idle" /\ job'[t].fresh = job[t].fresh /\ job'[t].call = job[t].call
          /\ job'[t].res = "ok"
      BY <1>0, <1>14, EndedFields DEF MarkSuperseded
    <2>2. /\ job[t].pc = "mark" /\ index' = index /\ Rows' = Rows
          /\ \A i \in Rows : \/ memories'[i] = memories[i]
                             \/ memories'[i].superseded_by = job[t].fresh
      <3>1. ASSUME NEW i \in Rows PROVE memories[i] \in Row
        BY DEF Sound, IInv, DbOK
      <3> QED BY <1>14, <3>1 DEF MarkSuperseded, Supersede, Rows, Row
    <2>3. Changes(t)
      BY <1>3, <1>6, <2>1, <2>2 DEF Changes, Unindexed, Storing
    <2>4. Traceless(job'[t], Rows', index', Claimed')
      BY <1>5, <2>1, <2>2, PlainState DEF PlainError
    <2> QED BY <2>3, <2>4
  <1>15. CASE MarkSupersededFails(t)
    <2>1. /\ job'[t].pc = "undo_row" /\ job'[t].fresh = job[t].fresh /\ job'[t].call = job[t].call
      BY <1>0, <1>15 DEF MarkSupersededFails, Job
    <2>2. job[t].pc = "mark" /\ job[t].call = "update" /\ UNCHANGED <<memories, index>>
      BY <1>15 DEF MarkSupersededFails, db
    <2>3. Changes(t)
      BY <1>3, <1>6, <2>1, <2>2, QuietStep DEF Unindexed
    <2>4. Traceless(job'[t], Rows', index', Claimed')
      BY <2>1, <2>2, PlainState
    <2> QED BY <2>3, <2>4
  <1>16. CASE UndoRow(t)
    <2>1. /\ job'[t].pc = "undo_index" /\ job'[t].fresh = job[t].fresh /\ job'[t].call = job[t].call
      BY <1>0, <1>16 DEF UndoRow, Job
    <2>2. /\ job[t].pc = "undo_row" /\ index' = index /\ Rows' = Rows \ {job[t].fresh}
          /\ \A i \in Rows' : memories'[i] = memories[i]
      BY <1>16 DEF UndoRow, DeleteRows, Rows
    <2>3. Changes(t)
      BY <1>3, <1>6, <2>1, <2>2 DEF Changes
    <2>4. Traceless(job'[t], Rows', index', Claimed')
      BY <1>5, <2>1, <2>2 DEF Traceless
    <2> QED BY <2>3, <2>4
  <1>17. CASE UndoRowFails(t)
    <2>1. /\ job'[t].pc = "undo_index" /\ job'[t].fresh = job[t].fresh /\ job'[t].call = job[t].call
          /\ job'[t].res = CompensationFailure(job[t])
      BY <1>0, <1>17 DEF UndoRowFails, Job
    <2>2. job[t].pc = "undo_row" /\ UNCHANGED <<memories, index>> /\ SqlFails
      BY <1>17, TakenBack DEF UndoRowFails, db, Storing
    <2>3. ~PlainError(job'[t])
      BY <1>2, <2>1, <2>2 DEF PlainError, CompensationFailure, Traceless
    <2>4. Changes(t)
      BY <1>3, <1>6, <2>1, <2>2, QuietStep
    <2>5. Traceless(job'[t], Rows', index', Claimed')
      BY <1>5, <2>1, <2>2, <2>3 DEF Traceless
    <2> QED BY <2>4, <2>5
  <1>18. CASE UndoIndex(t)
    <2>1. /\ job'[t].pc = "idle" /\ job'[t].fresh = job[t].fresh /\ job'[t].call = job[t].call
          /\ job'[t].res = job[t].res
      BY <1>0, <1>18, EndedFields DEF UndoIndex
    <2>2. /\ job[t].pc = "undo_index" /\ index' = index \ {job[t].fresh} /\ memories' = memories
          /\ Rows' = Rows
      BY <1>18 DEF UndoIndex, db, Rows
    <2>3. job[t].fresh \in Rows => SqlFails /\ ~PlainError(job'[t])
      BY <1>2, <2>1, <2>2 DEF Traceless, PlainError
    <2>4. Changes(t)
      BY <1>3, <1>6, <2>1, <2>2, <2>3 DEF Changes
    <2>5. job[t].fresh \notin index' \cup Claimed'
      BY <1>1, <2>1, <2>2 DEF Storing
    <2>6. Traceless(job'[t], Rows', index', Claimed')
      BY <1>5, <2>1, <2>2, <2>3, <2>5 DEF Traceless
    <2> QED BY <2>4, <2>6
  <1>19. CASE ForgetVector(t)
    <2>1. /\ job'[t].pc = "idle" /\ job'[t].fresh = job[t].fresh /\ job'[t].call = job[t].call
          /\ job'[t].target = job[t].target
      BY <1>0, <1>19, EndedFields DEF ForgetVector
    <2>2. /\ job[t].pc = "forget_index" /\ index' = index \ {job[t].target} /\ memories' = memories
          /\ Rows' = Rows
      BY <1>19 DEF ForgetVector, db, Rows
    <2>3. /\ job[t].call = "forget"
          /\ Canonical => job[t].target \notin Rows
          /\ ~EarlyReads => job[t].target \notin Claimed
      BY <1>2, <2>2 DEF Traceless
    <2>4. Changes(t)
      BY <1>3, <1>6, <2>1, <2>2, <2>3 DEF Changes, Unindexed
    <2>5. ~EarlyReads => job[t].target \notin Claimed'
      BY <1>0, <1>1, <2>3
    <2>6. Traceless(job'[t], Rows', index', Claimed')
      BY <2>1, <2>2, <2>3, <2>5 DEF Traceless, PlainError
    <2> QED BY <2>4, <2>6
  <1>20. CASE PurgeVector(t)
    <2>1. PICK i \in job[t].batch :
            index' = index \ {i} /\ Proceed(t, [job[t] EXCEPT !.batch = @ \ {i}])
      BY <1>20 DEF PurgeVector, NoReconciliation
    <2>2. /\ job'[t].pc = "purge_index" /\ job'[t].fresh = job[t].fresh /\ job'[t].call = job[t].call
          /\ job'[t].res = job[t].res /\ job'[t].batch \subseteq job[t].batch
      BY <1>0, <1>20, <2>1 DEF PurgeVector, Job
    <2>3. job[t].pc = "purge_index" /\ memories' = memories /\ Rows' = Rows
      BY <1>20 DEF PurgeVector, db, Rows
    <2>4. job[t].res # "err" /\ job[t].batch \cap Rows = {}
      BY <1>2, <2>3 DEF Traceless
    <2>5. Changes(t)
      BY <1>3, <1>6, <2>1, <2>2, <2>3, <2>4 DEF Changes, Unindexed
    <2>6. Traceless(job'[t], Rows', index', Claimed')
      BY <1>5, <2>2, <2>3, <2>4 DEF Traceless
    <2> QED BY <2>5, <2>6
  <1>21. CASE PurgeEnd(t)
    <2>1. job[t].pc = "purge_index" /\ job[t].res # "err" /\ UNCHANGED <<memories, index>>
      BY <1>2, <1>21 DEF PurgeEnd, db, Traceless
    <2>2. /\ job'[t].pc = "idle" /\ job'[t].fresh = job[t].fresh /\ job'[t].call = job[t].call
          /\ job'[t].res = "ok"
      BY <1>0, <1>21, <2>1, EndedFields DEF PurgeEnd
    <2>3. Changes(t)
      BY <1>3, <1>6, <2>1, <2>2, QuietStep DEF Unindexed
    <2>4. Traceless(job'[t], Rows', index', Claimed')
      BY <1>5, <2>1, <2>2, PlainState DEF PlainError
    <2> QED BY <2>3, <2>4
  <1>22. CASE FetchEmbedding(t)
    <2>1. /\ job'[t].pc \in {"fetch", "cluster"} /\ job'[t].fresh = job[t].fresh
          /\ job'[t].call = job[t].call
      <3>1. PICK i \in job[t].batch :
              Proceed(t, IF job[t].batch = {i}
                         THEN [job[t] EXCEPT !.pc = "cluster",
                                 !.batch = job[t].group \cup {i}, !.group = {}]
                         ELSE [job[t] EXCEPT !.batch = @ \ {i},
                                 !.group = job[t].group \cup {i}])
        BY <1>22 DEF FetchEmbedding
      <3>2. CASE job[t].batch = {i}
        BY <1>0, <3>1, <3>2 DEF Job
      <3>3. CASE job[t].batch # {i}
        BY <1>0, <1>22, <3>1, <3>3 DEF Job, FetchEmbedding
      <3> QED BY <3>2, <3>3
    <2>2. job[t].pc = "fetch" /\ UNCHANGED <<memories, index>>
      BY <1>22 DEF FetchEmbedding, db
    <2>3. Changes(t)
      BY <1>3, <1>6, <2>1, <2>2, QuietStep DEF Unindexed
    <2>4. Traceless(job'[t], Rows', index', Claimed')
      BY <1>5, <2>1, <2>2, PlainState
    <2> QED BY <2>3, <2>4
  <1>23. CASE FetchMissing(t) \/ FetchFails(t)
    <2>1. job'[t].pc = "idle" /\ job'[t].fresh = job[t].fresh /\ job'[t].call = job[t].call
      BY <1>0, <1>23, EndedFields DEF FetchMissing, FetchFails
    <2>2. job[t].pc = "fetch" /\ UNCHANGED <<memories, index>>
      BY <1>23 DEF FetchMissing, FetchFails, db
    <2>3. Changes(t)
      BY <1>3, <1>6, <2>1, <2>2, QuietStep DEF Unindexed
    <2>4. Traceless(job'[t], Rows', index', Claimed')
      BY <1>5, <2>1, <2>2, PlainState DEF PlainError
    <2> QED BY <2>3, <2>4
  <1>24. CASE Summarise(t)
    <2>1. /\ job'[t].pc = "commit" /\ job'[t].fresh = issued + 1 /\ job'[t].call = job[t].call
      <3>1. PICK cluster \in SUBSET job[t].batch :
              Proceed(t, [job[t] EXCEPT !.pc = "commit", !.fresh = issued + 1,
                            !.ttl = SummaryTtl, !.clutter = FALSE, !.created_at = now,
                            !.group = cluster, !.batch = @ \ cluster])
        BY <1>24 DEF Summarise
      <3>2. job'[t] = [job[t] EXCEPT !.pc = "commit", !.fresh = issued + 1,
                         !.ttl = SummaryTtl, !.clutter = FALSE, !.created_at = now,
                         !.group = cluster, !.batch = @ \ cluster]
        BY <1>0, <3>1
      <3>3. job[t] \in Job
        BY <1>0
      <3> QED BY <3>2, <3>3 DEF Job
    <2>2. job[t].pc = "cluster" /\ UNCHANGED <<memories, index>> /\ issued' = issued + 1
      BY <1>24 DEF Summarise, db
    <2>3. Changes(t)
      BY <1>0, <1>3, <2>1, <2>2, QuietStep DEF Unindexed
    <2>4. Traceless(job'[t], Rows', index', Claimed')
      BY <1>5, <2>1, <2>2, PlainState
    <2> QED BY <2>3, <2>4
  <1>25. CASE CompressEnd(t)
    <2>1. /\ job'[t].pc = "idle" /\ job'[t].fresh = job[t].fresh /\ job'[t].call = job[t].call
          /\ job'[t].res = "ok"
      BY <1>0, <1>25, EndedFields DEF CompressEnd
    <2>2. job[t].pc = "cluster" /\ UNCHANGED <<memories, index>>
      BY <1>25 DEF CompressEnd, db
    <2>3. Changes(t)
      BY <1>3, <1>6, <2>1, <2>2, QuietStep DEF Unindexed
    <2>4. Traceless(job'[t], Rows', index', Claimed')
      BY <1>5, <2>1, <2>2, PlainState DEF PlainError
    <2> QED BY <2>3, <2>4
  <1>26. CASE MarkAllSuperseded(t)
    <2>1. /\ job'[t].pc = "cluster" /\ job'[t].fresh = job[t].fresh /\ job'[t].call = job[t].call
      BY <1>0, <1>26 DEF MarkAllSuperseded, Job
    <2>2. /\ job[t].pc = "mark" /\ index' = index /\ Rows' = Rows
          /\ job[t].call = "compress"
          /\ \A i \in Rows : \/ memories'[i] = memories[i]
                             \/ memories'[i].superseded_by = job[t].fresh
      <3>1. ASSUME NEW i \in Rows PROVE memories[i] \in Row
        BY DEF Sound, IInv, DbOK
      <3> QED BY <1>26, <3>1 DEF MarkAllSuperseded, Supersede, Rows, Row
    <2>3. Changes(t)
      BY <1>3, <1>6, <2>1, <2>2 DEF Changes, Unindexed, Storing
    <2>4. Traceless(job'[t], Rows', index', Claimed')
      BY <1>5, <2>1, <2>2, PlainState
    <2> QED BY <2>3, <2>4
  <1>27. CASE MarkAllSupersededFails(t)
    <2>1. /\ job'[t].pc = "undo_row" /\ job'[t].fresh = job[t].fresh /\ job'[t].call = job[t].call
      BY <1>0, <1>27 DEF MarkAllSupersededFails, Job
    <2>2. job[t].pc = "mark" /\ job[t].call = "compress" /\ UNCHANGED <<memories, index>>
      BY <1>27 DEF MarkAllSupersededFails, db
    <2>3. Changes(t)
      BY <1>3, <1>6, <2>1, <2>2, QuietStep DEF Unindexed
    <2>4. Traceless(job'[t], Rows', index', Claimed')
      BY <2>1, <2>2, PlainState
    <2> QED BY <2>3, <2>4
  <1>28. CASE \/ UndoIndexFails(t) \/ ForgetVectorFails(t)
              \/ Reconcile(t) \/ ReconcileFails(t) \/ ReplaceAll(t) \/ ReplaceAllFails(t)
    BY <1>2, <1>28 DEF UndoIndexFails, ForgetVectorFails, Reconcile, ReconcileFails,
                       ReplaceAll, ReplaceAllFails, NoReconciliation, Traceless
  <1> QED
    BY <1>7, <1>8, <1>9, <1>10, <1>11, <1>12, <1>13, <1>14, <1>15, <1>16, <1>17, <1>18, <1>19,
       <1>20, <1>21, <1>22, <1>23, <1>24, <1>25, <1>26, <1>27, <1>28 DEF Continue

\* The states of the calls that a crash leaves.
LEMMA IdleTraceless ==
  ASSUME NEW R, NEW X, NEW C
  PROVE  Traceless(Idle, R, X, C) /\ Idle.pc = "idle" /\ Idle.fresh = 0
  BY DEF Traceless, PlainError, Idle, NoId

\* Time, crashes and opens leave no trace either.
LEMMA LifecycleTidy ==
  ASSUME Sound, Tidy, Tick \/ Crash \/ Open
  PROVE  Tidy'
  <1>0. /\ issued \in Nat /\ now \in Nat
        /\ \A i \in Rows : memories[i].expires_at \in Int
    <2>1. ASSUME NEW i \in Rows PROVE memories[i].expires_at \in Int
      BY DEF Sound, IInv, DbOK, Row, Expiries, Never
    <2> QED BY <2>1 DEF Sound, IInv
  <1>1. CASE Tick
    <2>1. /\ now' = now + 1 /\ Rows' = Rows /\ Claimed' = Claimed
          /\ UNCHANGED <<memories, index, issued, up, job>>
      BY <1>1 DEF Tick, db, Rows, Claimed
    <2>2. Active' \subseteq Active
      BY <1>0, <2>1 DEF Active, Expired
    <2>3. ActiveIsSearchable => ActiveIsSearchable'
      BY <2>1, <2>2 DEF ActiveIsSearchable
    <2> QED BY <2>1, <2>3 DEF Tidy
  <1>2. CASE Crash
    <2>1. /\ \A t \in Tasks : job'[t] = Idle
          /\ ~up' /\ UNCHANGED <<memories, issued>>
      BY <1>2 DEF Crash, db
    <2>2. \A t \in Tasks : /\ Traceless(job'[t], Rows', index', Claimed')
                           /\ job'[t].pc = "idle" /\ job'[t].fresh = 0
      BY <2>1, IdleTraceless
    <2>3. ActiveIsSearchable'
      BY <2>1 DEF ActiveIsSearchable
    <2>4. \A t \in Tasks : job'[t].pc \notin Storing /\ job'[t].fresh \in 0..issued'
      BY <1>0, <2>1, <2>2 DEF Storing
    <2> QED BY <2>2, <2>3, <2>4 DEF Tidy
  <1>3. CASE Open
    <2>1. /\ index' = Active /\ Active' = Active /\ Active \subseteq Rows /\ Rows' = Rows
          /\ Claimed' = Claimed /\ UNCHANGED <<memories, issued, job>>
      BY <1>3 DEF Open, db, Active, Expired, Rows, Claimed
    <2>2. \A t \in Tasks : job[t].pc = "idle"
      BY <1>3 DEF Open, Tidy
    <2>3. ASSUME NEW t \in Tasks PROVE Traceless(job'[t], Rows', index', Claimed')
      <3>1. Traceless(job[t], Rows, index, Claimed)
        BY DEF Tidy
      <3> QED BY <2>1, <2>2, <3>1 DEF Traceless
    <2>4. ActiveIsSearchable'
      BY <2>1 DEF ActiveIsSearchable
    <2>5. \A t \in Tasks : job'[t].pc \notin Storing /\ job'[t].fresh \in 0..issued'
      BY <2>1, <2>2 DEF Tidy, Storing
    <2> QED BY <2>1, <2>2, <2>3, <2>4, <2>5 DEF Tidy
  <1> QED BY <1>1, <1>2, <1>3

LEMMA TidyInit == Init => Tidy
  <1> SUFFICES ASSUME Init PROVE Tidy
    OBVIOUS
  <1>1. \A t \in Tasks : job[t] = Idle
    BY DEF Init
  <1>2. \A t \in Tasks : /\ Traceless(job[t], Rows, index, Claimed)
                         /\ job[t].pc = "idle" /\ job[t].fresh = 0
    BY <1>1, IdleTraceless
  <1>3. ActiveIsSearchable
    BY DEF Init, Active, Rows, ActiveIsSearchable
  <1>4. \A t \in Tasks : job[t].pc \notin Storing /\ job[t].fresh \in 0..issued
    BY <1>2 DEF Init, Storing
  <1> QED BY <1>2, <1>3, <1>4 DEF Tidy

LEMMA TidyNext == NoReconciliation /\ Sound /\ Tidy /\ [Next]_vars => Tidy'
  <1> SUFFICES ASSUME NoReconciliation, Sound, Tidy, [Next]_vars PROVE Tidy'
    OBVIOUS
  <1>1. CASE Tick \/ Crash \/ Open
    BY <1>1, LifecycleTidy
  <1>2. ASSUME NEW t \in Tasks, Start(t) PROVE Tidy'
    BY <1>2, StepMoves, StartTidy, TidyMoves
  <1>3. ASSUME NEW t \in Tasks, Continue(t) PROVE Tidy'
    BY <1>3, StepMoves, ContinueTidy, TidyMoves
  <1>4. CASE UNCHANGED vars
    <2>1. Rows' = Rows /\ Claimed' = Claimed /\ Active' = Active
      BY <1>4 DEF vars, Rows, Claimed, Active, Expired
    <2>2. ActiveIsSearchable => ActiveIsSearchable'
      BY <1>4, <2>1 DEF vars, ActiveIsSearchable
    <2> QED BY <1>4, <2>1, <2>2 DEF vars, Tidy
  <1> QED BY <1>1, <1>2, <1>3, <1>4 DEF Next

LEMMA AlwaysTidy ==
  ASSUME NoReconciliation PROVE Spec => []Tidy
  <1>1. Init => Sound /\ Tidy
    BY SoundInit, TidyInit
  <1>2. Sound /\ Tidy /\ [Next]_vars => (Sound /\ Tidy)'
    BY SoundNext, TidyNext
  <1> QED BY <1>1, <1>2, PTL DEF Spec

\* Whatever the interleaving, and whether the embedder, the database, the
\* insert or the process fails: a store or update that reports a plain error
\* has left neither row nor vector, as long as nobody replaces the index.
THEOREM FailedWritesLeaveNothing ==
  ASSUME NoReconciliation PROVE Spec => []FailedWriteLeavesNothing
  <1>1. Tidy => FailedWriteLeavesNothing
    BY DEF Tidy, Traceless, PlainError, FailedWriteLeavesNothing
  <1> QED BY <1>1, AlwaysTidy, PTL

\* An id whose forget returned Ok never comes back, if callers write ids as they
\* are stored and learn them from the store call that returns them.
THEOREM ForgottenAreGone ==
  ASSUME NoReconciliation, Canonical, ~EarlyReads PROVE Spec => []ForgottenStaysGone
  <1>1. Tidy => ForgottenStaysGone
    BY DEF Tidy, Traceless, ForgottenStaysGone
  <1> QED BY <1>1, AlwaysTidy, PTL

\* Unless the database fails in the middle of a compensation, or somebody
\* replaces the index, recall can find every active memory.
THEOREM ActiveAreSearchable ==
  ASSUME NoReconciliation, Canonical, ~SqlFails PROVE Spec => []ActiveIsSearchable
  <1>1. Tidy => ActiveIsSearchable
    BY DEF Tidy
  <1> QED BY <1>1, AlwaysTidy, PTL
=============================================================================
