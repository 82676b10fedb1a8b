---------------------------- MODULE VersionProofs ----------------------------
(***************************************************************************)
(* Theorems about versions: who is told that an update succeeded, that a   *)
(* supersession is final, that MemoryEngine implements VersionHistory, and *)
(* that a successor expires no earlier than what it supersedes, where the  *)
(* last three hold for engines that are never asked to compress; and about *)
(* find_superseded_chain, for any number of walks under way at once beside *)
(* any number of calls, any failures and crashes, and any guard.           *)
(***************************************************************************)
EXTENDS SettledProofs, MemoryEngineHistory, ChainWalk

-----------------------------------------------------------------------------
(* Where a call is and what it has to say *)

\* A task is in a call it may make, an outcome that ends a call is not there
\* before the end, and an update does nothing but store and supersede.
CallOK(t) ==
  /\ job[t].call \in Calls[t] \cup {"none"}
  /\ job[t].pc # "idle" => job[t].res # "ok"
  /\ job[t].call = "update" => job[t].pc \in Storing \cup {"idle"}

\* What the step of a call may report.
Reports(t, j) ==
  /\ Proceed(t, j)
  /\ j.pc # "idle" => j.res # "ok"
  /\ j.call = "update" => j.pc \in Storing \cup {"idle"}
  /\ j.call = "update" /\ j.res = "ok" => MarkSuperseded(t)

\* A call that returns reports what it returns.
LEMMA ReturnReports ==
  ASSUME NEW t \in Tasks, NEW r, Return(t, r),
         job[t].call = "update" /\ r = "ok" => MarkSuperseded(t)
  PROVE  \E j : Reports(t, j)
  <1> DEFINE j == Ended(job[t], r)
  <1>1. j.pc = "idle" /\ j.call = job[t].call /\ j.res = r
    BY DEF Ended, Idle
  <1>2. Proceed(t, j)
    BY DEF Return
  <1> HIDE DEF j
  <1>3. Reports(t, j)
    BY <1>1, <1>2 DEF Reports
  <1> QED BY <1>3

\* The start of a call.
LEMMA StartReports ==
  ASSUME IInv, NEW t \in Tasks, Start(t)
  PROVE  \E j : Reports(t, j)
  <1>1. CASE Store(t)
    <2>1. PICK j : Proceed(t, j) /\ j.pc = "commit" /\ j.call = "store" /\ j.res = "none"
      <3>1. PICK ttl \in Ttls, clutter \in Clutters :
              Proceed(t, [Idle EXCEPT !.pc = "commit", !.call = "store",
                            !.fresh = issued + 1, !.ttl = ttl,
                            !.clutter = clutter, !.created_at = now])
        BY <1>1 DEF Store
      <3> DEFINE j == [Idle EXCEPT !.pc = "commit", !.call = "store",
                         !.fresh = issued + 1, !.ttl = ttl,
                         !.clutter = clutter, !.created_at = now]
      <3>2. j.pc = "commit" /\ j.call = "store" /\ j.res = "none"
        BY DEF Idle
      <3> QED BY <3>1, <3>2
    <2> QED BY <2>1 DEF Reports
  <1>2. CASE UpdateRefused(t)
    <2>1. PICK j : Proceed(t, j) /\ j.pc = "idle" /\ j.call = "update" /\ j.res = "err"
      <3>1. PICK i \in KnownIds :
              Proceed(t, [Idle EXCEPT !.call = "update", !.target = i, !.res = "err"])
        BY <1>2 DEF UpdateRefused
      <3> DEFINE j == [Idle EXCEPT !.call = "update", !.target = i, !.res = "err"]
      <3>2. j.pc = "idle" /\ j.call = "update" /\ j.res = "err"
        BY DEF Idle
      <3> QED BY <3>1, <3>2
    <2> QED BY <2>1 DEF Reports
  <1>3. CASE UpdateRead(t)
    <2>1. PICK j : Proceed(t, j) /\ j.pc = "draft" /\ j.call = "update" /\ j.res = "none"
      <3>1. PICK i \in KnownIds : \E ttl, clutter :
              Proceed(t, [Idle EXCEPT !.pc = "draft", !.call = "update",
                            !.target = i, !.fresh = issued + 1, !.ttl = ttl, !.clutter = clutter])
        BY <1>3 DEF UpdateRead
      <3>2. PICK ttl, clutter :
              Proceed(t, [Idle EXCEPT !.pc = "draft", !.call = "update",
                            !.target = i, !.fresh = issued + 1, !.ttl = ttl, !.clutter = clutter])
        BY <3>1
      <3> DEFINE j == [Idle EXCEPT !.pc = "draft", !.call = "update",
                         !.target = i, !.fresh = issued + 1, !.ttl = ttl, !.clutter = clutter]
      <3>3. j.pc = "draft" /\ j.call = "update" /\ j.res = "none"
        BY DEF Idle
      <3> QED BY <3>2, <3>3
    <2> QED BY <2>1 DEF Reports, Storing
  <1>4. CASE Forget(t) \/ ForgetFails(t)
    <2>1. PICK j : Proceed(t, j) /\ j.call = "forget" /\ j.res \in {"none", "err"}
      <3>1. PICK i \in KnownIds :
              \/ Proceed(t, [Idle EXCEPT !.pc = "forget_index", !.call = "forget", !.target = i])
              \/ Proceed(t, [Idle EXCEPT !.call = "forget", !.target = i, !.res = "err"])
        BY <1>4 DEF Forget, ForgetFails
      <3> DEFINE j1 == [Idle EXCEPT !.pc = "forget_index", !.call = "forget", !.target = i]
                 j2 == [Idle EXCEPT !.call = "forget", !.target = i, !.res = "err"]
      <3>2. j1.call = "forget" /\ j1.res = "none" /\ j2.call = "forget" /\ j2.res = "err"
        BY DEF Idle
      <3> QED BY <3>1, <3>2
    <2> QED BY <2>1 DEF Reports
  <1>5. CASE Purge(t) \/ PurgeFails(t)
    <2>1. PICK j : Proceed(t, j) /\ j.call = "purge"
                   /\ (j.pc = "idle" \/ j.res = "none")
      <3> DEFINE j1 == [Idle EXCEPT !.call = "purge", !.res = "ok"]
                 j2 == [Idle EXCEPT !.pc = "purge_index", !.call = "purge",
                                    !.batch = ExpiredRows]
                 j3 == [Idle EXCEPT !.call = "purge", !.res = "err"]
      <3>1. Proceed(t, j1) \/ Proceed(t, j2) \/ Proceed(t, j3)
        BY <1>5 DEF Purge, PurgeFails
      <3>2. /\ j1.call = "purge" /\ j1.pc = "idle" /\ j1.res = "ok"
            /\ j2.call = "purge" /\ j2.res = "none"
            /\ j3.call = "purge" /\ j3.pc = "idle" /\ j3.res = "err"
        BY DEF Idle
      <3> QED BY <3>1, <3>2
    <2> QED BY <2>1 DEF Reports
  <1>6. CASE Rebuild(t)
    <2>1. PICK j : Proceed(t, j) /\ j.call = "rebuild" /\ j.res = "none"
      <3> DEFINE j == [Idle EXCEPT !.pc = "reconcile", !.call = "rebuild"]
      <3>1. Proceed(t, j) /\ j.call = "rebuild" /\ j.res = "none"
        BY <1>6 DEF Rebuild, Idle
      <3> QED BY <3>1
    <2> QED BY <2>1 DEF Reports
  <1>7. CASE Compress(t) \/ CompressFails(t)
    <2>1. PICK j : Proceed(t, j) /\ j.call = "compress"
                   /\ (j.pc = "idle" \/ j.res = "none")
      <3> DEFINE j1 == [Idle EXCEPT !.call = "compress", !.res = "ok"]
                 j2 == [Idle EXCEPT !.pc = "fetch", !.call = "compress",
                                    !.batch = Candidates]
                 j3 == [Idle EXCEPT !.call = "compress", !.res = "err"]
      <3>1. Proceed(t, j1) \/ Proceed(t, j2) \/ Proceed(t, j3)
        BY <1>7 DEF Compress, CompressFails
      <3>2. /\ j1.call = "compress" /\ j1.pc = "idle" /\ j1.res = "ok"
            /\ j2.call = "compress" /\ j2.res = "none"
            /\ j3.call = "compress" /\ j3.pc = "idle" /\ j3.res = "err"
        BY DEF Idle
      <3> QED BY <3>1, <3>2
    <2> QED BY <2>1 DEF Reports
  <1> QED BY <1>1, <1>2, <1>3, <1>4, <1>5, <1>6, <1>7 DEF Start

\* The next step of a call: an update that says Ok has superseded its target.
LEMMA ContinueReports ==
  ASSUME IInv, NEW t \in Tasks, CallOK(t), Continue(t)
  PROVE  \E j : Reports(t, j)
  <1>0. job[t] \in Job
    BY DEF IInv
  <1>1. ASSUME NEW j, Proceed(t, j), job[t].pc # "idle", j.call = job[t].call,
               j.res # "ok", j.pc \in Storing \cup {"idle"} \/ job[t].pc \notin Storing
        PROVE  \E k : Reports(t, k)
    BY <1>1 DEF CallOK, Reports, Storing
  <1>2. CASE CommitRow(t)
    <2> DEFINE j == [job[t] EXCEPT !.pc = "insert"]
    <2>1. j.pc = "insert" /\ j.call = job[t].call /\ j.res = job[t].res
      BY <1>0 DEF Job
    <2>2. Proceed(t, j) /\ job[t].pc = "commit"
      BY <1>2 DEF CommitRow
    <2> HIDE DEF j
    <2> QED BY <1>1, <2>1, <2>2 DEF CallOK, Storing
  <1>3. CASE CommitFails(t) \/ UndoInsert(t) \/ UndoInsertFails(t) \/ ReconcileFails(t)
             \/ ReplaceAllFails(t) \/ UndoIndexFails(t)
    <2>1. Return(t, "err") \/ Return(t, "comp_failed")
      BY <1>3 DEF CommitFails, UndoInsert, UndoInsertFails, ReconcileFails, ReplaceAllFails,
                  UndoIndexFails, NotReconciled, CompensationFailure
    <2> QED BY <2>1, ReturnReports
  <1>4. CASE InsertVector(t)
    <2>1. CASE job[t].call = "store"
      BY <1>4, <2>1, ReturnReports DEF InsertVector
    <2>2. CASE job[t].call # "store"
      <3> DEFINE j == [job[t] EXCEPT !.pc = "mark"]
      <3>1. j.pc = "mark" /\ j.call = job[t].call /\ j.res = job[t].res
        BY <1>0 DEF Job
      <3>2. Proceed(t, j) /\ job[t].pc = "insert"
        BY <1>4, <2>2 DEF InsertVector
      <3> HIDE DEF j
      <3> QED BY <1>1, <3>1, <3>2 DEF CallOK, Storing
    <2> QED BY <2>1, <2>2
  <1>5. CASE InsertVectorFails(t)
    <2> DEFINE j == [job[t] EXCEPT !.pc = "undo_insert"]
    <2>1. j.pc = "undo_insert" /\ j.call = job[t].call /\ j.res = job[t].res
      BY <1>0 DEF Job
    <2>2. Proceed(t, j) /\ job[t].pc = "insert"
      BY <1>5 DEF InsertVectorFails
    <2> HIDE DEF j
    <2> QED BY <1>1, <2>1, <2>2 DEF CallOK, Storing
  <1>6. CASE UpdateDraft(t)
    <2> DEFINE j == [job[t] EXCEPT !.pc = "commit", !.created_at = now]
    <2>1. j.pc = "commit" /\ j.call = job[t].call /\ j.res = job[t].res
      BY <1>0 DEF Job
    <2>2. Proceed(t, j) /\ job[t].pc = "draft"
      BY <1>6 DEF UpdateDraft
    <2> HIDE DEF j
    <2> QED BY <1>1, <2>1, <2>2 DEF CallOK, Storing
  <1>7. CASE MarkSuperseded(t)
    BY <1>7, ReturnReports DEF MarkSuperseded
  <1>8. CASE MarkSupersededFails(t) \/ MarkAllSupersededFails(t)
    <2> DEFINE j == [job[t] EXCEPT !.pc = "undo_row"]
    <2>1. j.pc = "undo_row" /\ j.call = job[t].call /\ j.res = job[t].res
      BY <1>0 DEF Job
    <2>2. Proceed(t, j) /\ job[t].pc = "mark"
      BY <1>8 DEF MarkSupersededFails, MarkAllSupersededFails
    <2> HIDE DEF j
    <2> QED BY <1>1, <2>1, <2>2 DEF CallOK, Storing
  <1>9. CASE UndoRow(t) \/ UndoRowFails(t)
    <2>1. PICK res \in {"err", "comp_failed"} :
            Proceed(t, [job[t] EXCEPT !.pc = "undo_index", !.res = res])
      BY <1>9 DEF UndoRow, UndoRowFails, CompensationFailure
    <2> DEFINE j == [job[t] EXCEPT !.pc = "undo_index", !.res = res]
    <2>2. j.pc = "undo_index" /\ j.call = job[t].call /\ j.res = res
      BY <1>0 DEF Job
    <2>3. Proceed(t, j) /\ job[t].pc = "undo_row"
      BY <1>9, <2>1 DEF UndoRow, UndoRowFails
    <2> HIDE DEF j
    <2> QED BY <1>1, <2>2, <2>3 DEF Storing
  <1>10. CASE UndoIndex(t)
    BY <1>10, ReturnReports DEF UndoIndex, CallOK
  <1>11. CASE ForgetVector(t)
    BY <1>11, ReturnReports DEF ForgetVector, CallOK, Storing
  <1>12. CASE ForgetVectorFails(t)
    <2> DEFINE j == [job[t] EXCEPT !.pc = "reconcile"]
    <2>1. j.pc = "reconcile" /\ j.call = job[t].call /\ j.res = job[t].res
      BY <1>0 DEF Job
    <2>2. Proceed(t, j) /\ job[t].pc = "forget_index"
      BY <1>12 DEF ForgetVectorFails
    <2> HIDE DEF j
    <2> QED BY <1>1, <2>1, <2>2 DEF CallOK, Storing
  <1>13. CASE PurgeVector(t)
    <2>1. PICK i \in job[t].batch, res \in {job[t].res, "err"} :
            Proceed(t, [job[t] EXCEPT !.batch = @ \ {i}, !.res = res])
      <3>1. ASSUME NEW i \in job[t].batch
            PROVE  [job[t] EXCEPT !.batch = @ \ {i}]
                     = [job[t] EXCEPT !.batch = @ \ {i}, !.res = job[t].res]
        BY <1>0 DEF Job
      <3> QED BY <1>13, <3>1 DEF PurgeVector
    <2> DEFINE j == [job[t] EXCEPT !.batch = @ \ {i}, !.res = res]
    <2>2. j.pc = job[t].pc /\ j.call = job[t].call /\ j.res = res
      BY <1>0 DEF Job
    <2>3. Proceed(t, j) /\ job[t].pc = "purge_index"
      BY <1>13, <2>1 DEF PurgeVector
    <2> HIDE DEF j
    <2> QED BY <1>1, <2>1, <2>2, <2>3 DEF CallOK, Storing
  <1>14. CASE PurgeEnd(t)
    <2>1. CASE job[t].res = "err"
      <3> DEFINE j == [job[t] EXCEPT !.pc = "reconcile"]
      <3>1. j.pc = "reconcile" /\ j.call = job[t].call /\ j.res = job[t].res
        BY <1>0 DEF Job
      <3>2. Proceed(t, j) /\ job[t].pc = "purge_index"
        BY <1>14, <2>1 DEF PurgeEnd
      <3> HIDE DEF j
      <3> QED BY <1>1, <3>1, <3>2 DEF CallOK, Storing
    <2>2. CASE job[t].res # "err"
      BY <1>14, <2>2, ReturnReports DEF PurgeEnd, CallOK, Storing
    <2> QED BY <2>1, <2>2
  <1>15. CASE Reconcile(t)
    <2> DEFINE j == [job[t] EXCEPT !.pc = "replace", !.batch = Active]
    <2>1. j.pc = "replace" /\ j.call = job[t].call /\ j.res = job[t].res
      BY <1>0 DEF Job
    <2>2. Proceed(t, j) /\ job[t].pc = "reconcile"
      BY <1>15 DEF Reconcile
    <2> HIDE DEF j
    <2> QED BY <1>1, <2>1, <2>2 DEF CallOK, Storing
  <1>16. CASE ReplaceAll(t)
    <2>1. job[t].pc = "replace" /\ Return(t, Reconciled(job[t])) /\ job[t].call # "update"
      BY <1>16 DEF ReplaceAll, CallOK, Storing
    <2> QED BY <2>1, ReturnReports
  <1>17. CASE FetchEmbedding(t)
    <2>1. PICK i \in job[t].batch :
            Proceed(t, IF job[t].batch = {i}
                       THEN [job[t] EXCEPT !.pc = "cluster",
                               !.batch = job[t].group \cup {i}, !.group = {}]
                       ELSE [job[t] EXCEPT !.batch = @ \ {i},
                               !.group = job[t].group \cup {i}])
      BY <1>17 DEF FetchEmbedding
    <2> DEFINE j == IF job[t].batch = {i}
                    THEN [job[t] EXCEPT !.pc = "cluster",
                               !.batch = job[t].group \cup {i}, !.group = {}]
                    ELSE [job[t] EXCEPT !.batch = @ \ {i},
                               !.group = job[t].group \cup {i}]
    <2>2. j.call = job[t].call /\ j.res = job[t].res
      BY <1>0 DEF Job
    <2>3. Proceed(t, j) /\ job[t].pc = "fetch"
      BY <1>17, <2>1 DEF FetchEmbedding
    <2> HIDE DEF j
    <2> QED BY <1>1, <2>2, <2>3 DEF CallOK, Storing
  <1>18. CASE FetchMissing(t) \/ FetchFails(t)
    BY <1>18, ReturnReports DEF FetchMissing, FetchFails
  <1>19. CASE Summarise(t)
    <2>1. PICK cluster \in SUBSET job[t].batch :
            Proceed(t, [job[t] EXCEPT !.pc = "commit", !.fresh = issued + 1,
                          !.ttl = SummaryTtl, !.clutter = FALSE, !.created_at = now,
                          !.group = cluster, !.batch = @ \ cluster])
      BY <1>19 DEF Summarise
    <2> DEFINE j == [job[t] EXCEPT !.pc = "commit", !.fresh = issued + 1,
                          !.ttl = SummaryTtl, !.clutter = FALSE, !.created_at = now,
                          !.group = cluster, !.batch = @ \ cluster]
    <2>2. j.pc = "commit" /\ j.call = job[t].call /\ j.res = job[t].res
      BY <1>0 DEF Job
    <2>3. Proceed(t, j) /\ job[t].pc = "cluster"
      BY <1>19, <2>1 DEF Summarise
    <2> HIDE DEF j
    <2> QED BY <1>1, <2>2, <2>3 DEF CallOK, Storing
  <1>20. CASE CompressEnd(t)
    BY <1>20, ReturnReports DEF CompressEnd, CallOK, Storing
  <1>21. CASE MarkAllSuperseded(t)
    <2> DEFINE j == [job[t] EXCEPT !.pc = "cluster", !.group = {}]
    <2>1. j.pc = "cluster" /\ j.call = job[t].call /\ j.res = job[t].res
      BY <1>0 DEF Job
    <2>2. Proceed(t, j) /\ job[t].pc = "mark" /\ job[t].call = "compress"
      BY <1>21 DEF MarkAllSuperseded
    <2> HIDE DEF j
    <2> QED BY <2>1, <2>2 DEF CallOK, Reports
  <1> QED
    BY <1>2, <1>3, <1>4, <1>5, <1>6, <1>7, <1>8, <1>9, <1>10, <1>11, <1>12, <1>13, <1>14,
       <1>15, <1>16, <1>17, <1>18, <1>19, <1>20, <1>21 DEF Continue

-----------------------------------------------------------------------------
(* An update that succeeded has superseded its target *)

\* ... and as long as the target exists it stays superseded.
Won(t) ==
  /\ job[t].call = "update" /\ job[t].res = "ok"
  /\ job[t].target \in Rows
  => memories[job[t].target].superseded_by # NoId

VersionInv ==
  /\ Sound
  /\ \A t \in Tasks : CallOK(t)
  /\ \A t \in Tasks : Won(t)
  /\ OneWinnerPerVersion

LEMMA VersionInit == Init => VersionInv
  <1> SUFFICES ASSUME Init PROVE VersionInv
    OBVIOUS
  <1>1. \A t \in Tasks : job[t].call = "none" /\ job[t].pc = "idle" /\ job[t].res = "none"
    BY DEF Init, Idle
  <1> QED BY <1>1, SoundInit DEF VersionInv, CallOK, Won, OneWinnerPerVersion

\* What task t has, a step of others leaves: its outcome and what it won.
LEMMA WonKept ==
  ASSUME Sound, [Next]_vars, NEW t \in Tasks, Won(t), job'[t] = job[t]
  PROVE  Won(t)'
  <1> SUFFICES ASSUME job[t].call = "update", job[t].res = "ok", job[t].target \in Rows'
               PROVE  memories'[job[t].target].superseded_by # NoId
    BY DEF Won
  <1>1. job[t].target \notin Drafts
    BY DEF Sound, Settled, Held
  <1>2. job[t].target \in Rows /\ RowKept(job[t].target)
    BY <1>1, RowHistory
  <1> QED BY <1>2 DEF Won, RowKept

\* One call takes a step.
LEMMA ReportKeeps ==
  ASSUME VersionInv, [Next]_vars, NEW t \in Tasks, NEW j, Reports(t, j),
         \E k : Moves(t, k)
  PROVE  VersionInv'
  <1>1. job'[t] = j /\ \A u \in Tasks : u # t => job'[u] = job[u]
    BY DEF Reports, Proceed, VersionInv, Sound, IInv
  <1>2. Sound'
    BY SoundNext DEF VersionInv
  <1>3. \A u \in Tasks : CallOK(u)'
    <2>1. j.call = job[t].call \/ j.call \in Calls[t]
      BY <1>1 DEF Moves, Proceed, VersionInv, Sound, IInv
    <2> QED BY <1>1, <2>1 DEF CallOK, Reports, VersionInv
  <1>4. ASSUME MarkSuperseded(t)
        PROVE  /\ j.target = job[t].target /\ job[t].target \in Rows
               /\ memories[job[t].target].superseded_by = NoId
               /\ memories'[job[t].target].superseded_by # NoId
    <2>1. j = Ended(job[t], "ok")
      BY <1>1, <1>4 DEF MarkSuperseded, Return, Proceed, VersionInv, Sound, IInv
    <2>2. job[t].fresh # NoId
      BY <1>4 DEF MarkSuperseded, VersionInv, Sound, IInv, JobOK, Storing, NoId
    <2>3. memories[job[t].target] \in Row
      BY <1>4 DEF MarkSuperseded, Markable, VersionInv, Sound, IInv, DbOK
    <2> QED BY <1>4, <2>1, <2>2, <2>3
            DEF MarkSuperseded, Markable, Supersede, Ended, Idle, Row
  <1>5. ASSUME NEW u \in Tasks PROVE Won(u)'
    <2>1. CASE u # t
      BY <1>1, <2>1, WonKept DEF VersionInv
    <2>2. CASE u = t
      BY <1>1, <1>4, <2>2 DEF Won, Reports
    <2> QED BY <2>1, <2>2
  <1>6. OneWinnerPerVersion'
    <2> SUFFICES ASSUME NEW u \in Tasks, NEW v \in Tasks, u # v,
                        job'[u].call = "update", job'[u].res = "ok",
                        job'[v].call = "update", job'[v].res = "ok"
                 PROVE  job'[u].target # job'[v].target
      BY DEF OneWinnerPerVersion
    <2>1. ASSUME NEW w \in Tasks, w # t, job'[t].call = "update", job'[t].res = "ok",
                 job'[w].call = "update", job'[w].res = "ok"
          PROVE  job'[t].target # job'[w].target
      <3>1. MarkSuperseded(t)
        BY <1>1, <2>1 DEF Reports
      <3>2. Won(w) /\ job'[w] = job[w]
        BY <1>1, <2>1 DEF VersionInv
      <3> QED BY <1>1, <1>4, <2>1, <3>1, <3>2 DEF Won
    <2>2. CASE u = t
      BY <2>1, <2>2
    <2>3. CASE v = t
      BY <2>1, <2>3
    <2>4. CASE u # t /\ v # t
      BY <1>1, <2>4 DEF VersionInv, OneWinnerPerVersion
    <2> QED BY <2>2, <2>3, <2>4
  <1> QED BY <1>2, <1>3, <1>5, <1>6 DEF VersionInv

LEMMA VersionNext == VersionInv /\ [Next]_vars => VersionInv'
  <1> SUFFICES ASSUME VersionInv, [Next]_vars PROVE VersionInv'
    OBVIOUS
  <1>0. Sound'
    BY SoundNext DEF VersionInv
  <1>1. CASE Tick \/ Open \/ UNCHANGED vars
    <2>1. job' = job
      BY <1>1 DEF Tick, Open, vars
    <2>2. \A t \in Tasks : Won(t)'
      BY <2>1, WonKept DEF VersionInv
    <2> QED BY <1>0, <2>1, <2>2 DEF VersionInv, CallOK, OneWinnerPerVersion
  <1>2. CASE Crash
    <2>1. \A t \in Tasks : job'[t].call = "none" /\ job'[t].pc = "idle" /\ job'[t].res = "none"
      BY <1>2 DEF Crash, Idle
    <2> QED BY <1>0, <2>1 DEF VersionInv, CallOK, Won, OneWinnerPerVersion
  <1>3. ASSUME NEW t \in Tasks, Start(t) PROVE VersionInv'
    <2>1. (\E j : Reports(t, j)) /\ (\E k : Moves(t, k))
      BY <1>3, StartReports, StartMoves DEF VersionInv, Sound
    <2> QED BY <2>1, ReportKeeps
  <1>4. ASSUME NEW t \in Tasks, Continue(t) PROVE VersionInv'
    <2>1. (\E j : Reports(t, j)) /\ (\E k : Moves(t, k))
      BY <1>4, ContinueReports, ContinueMoves DEF VersionInv, Sound
    <2> QED BY <2>1, ReportKeeps
  <1> QED BY <1>1, <1>2, <1>3, <1>4 DEF Next

LEMMA AlwaysVersionInv == Spec => []VersionInv
  BY VersionInit, VersionNext, PTL DEF Spec

\* Of any number of updates racing for one version, with any failures and with
\* compressions in between, at most one is told Ok (engine.rs 569-597).
THEOREM OneWinner == Spec => []OneWinnerPerVersion
  <1>1. VersionInv => OneWinnerPerVersion
    BY DEF VersionInv
  <1> QED BY <1>1, AlwaysVersionInv, PTL

-----------------------------------------------------------------------------
(* Without compression *)

NoCompression == \A t \in Tasks : "compress" \notin Calls[t]

\* The ways a step can change the table: nothing, an INSERT, a DELETE the
\* foreign key admits, or one supersession of a memory that had none.
TableStep ==
  \/ UNCHANGED memories
  \/ \E t \in Tasks : CommitRow(t)
  \/ \E S : Deletable(S) /\ DeleteRows(S) /\ Drafts' = Drafts /\ issued' = issued
  \/ \E t \in Tasks : MarkSuperseded(t)

\* A step that starts no id and ends no draft.
LEMMA DraftsSame ==
  ASSUME Sound, NEW t \in Tasks, NEW j, Proceed(t, j),
         job[t].pc \notin Writing, j.pc \notin Writing
  PROVE  Drafts' = Drafts
  <1>1. job'[t] = j /\ \A u \in Tasks : u # t => job'[u] = job[u]
    BY DEF Proceed, Sound, IInv
  <1>2. \A u \in Tasks : \/ job'[u] = job[u]
                         \/ job'[u].pc \notin Writing /\ job[u].pc \notin Writing
    BY <1>1
  <1> QED BY <1>2 DEF Drafts

LEMMA TableSteps ==
  ASSUME NoCompression, VersionInv, [Next]_vars
  PROVE  TableStep
  <1>1. CASE Tick \/ Crash \/ Open \/ UNCHANGED vars
    BY <1>1 DEF Tick, Crash, Open, vars, db, TableStep
  <1>2. ASSUME NEW t \in Tasks, Start(t) PROVE TableStep
    <2>1. CASE Store(t) \/ UpdateRefused(t) \/ UpdateRead(t) \/ ForgetFails(t)
               \/ PurgeFails(t) \/ Rebuild(t) \/ Compress(t) \/ CompressFails(t)
      BY <2>1 DEF Store, UpdateRefused, UpdateRead, ForgetFails, PurgeFails, Rebuild, Compress,
                  CompressFails, db, TableStep
    <2>2. CASE Forget(t)
      <3>1. PICK i \in KnownIds, spelling \in Spellings :
              /\ Deletable(Matching(i, spelling))
              /\ DeleteRows(Matching(i, spelling))
              /\ Proceed(t, [Idle EXCEPT !.pc = "forget_index", !.call = "forget",
                                         !.target = i])
        BY <2>2 DEF Forget
      <3>2. [Idle EXCEPT !.pc = "forget_index", !.call = "forget", !.target = i].pc \notin Writing
        BY DEF Idle, Writing
      <3>3. job[t].pc \notin Writing
        BY <2>2 DEF Forget, Ready, Writing
      <3>4. Drafts' = Drafts
        BY <3>1, <3>2, <3>3, DraftsSame DEF VersionInv
      <3> QED BY <2>2, <3>1, <3>4 DEF Forget, TableStep
    <2>3. CASE Purge(t)
      <3> DEFINE j == IF ExpiredRows = {}
                      THEN [Idle EXCEPT !.call = "purge", !.res = "ok"]
                      ELSE [Idle EXCEPT !.pc = "purge_index", !.call = "purge",
                                        !.batch = ExpiredRows]
      <3>1. j.pc \notin Writing /\ job[t].pc \notin Writing
        BY <2>3 DEF Idle, Writing, Purge, Ready
      <3>2. Proceed(t, j)
        BY <2>3 DEF Purge
      <3> HIDE DEF j
      <3>3. Drafts' = Drafts
        BY <3>1, <3>2, DraftsSame DEF VersionInv
      <3> QED BY <2>3, <3>3 DEF Purge, TableStep
    <2> QED BY <1>2, <2>1, <2>2, <2>3 DEF Start
  <1>3. ASSUME NEW t \in Tasks, Continue(t) PROVE TableStep
    <2>1. CASE CommitRow(t) \/ MarkSuperseded(t)
      BY <2>1 DEF TableStep
    <2>2. CASE UndoInsert(t)
      <3>1. Ended(job[t], "err").pc \notin Writing /\ job[t].pc \notin Writing
        BY <2>2 DEF Ended, Idle, UndoInsert, Writing
      <3>2. Drafts' = Drafts
        BY <2>2, <3>1, DraftsSame DEF UndoInsert, Return, VersionInv
      <3> QED BY <2>2, <3>2 DEF UndoInsert, TableStep
    <2>3. CASE UndoRow(t)
      <3>1. job[t] \in Job
        BY DEF VersionInv, Sound, IInv
      <3>2. [job[t] EXCEPT !.pc = "undo_index", !.res = "err"].pc \notin Writing
            /\ job[t].pc \notin Writing
        BY <2>3, <3>1 DEF UndoRow, Writing, Job
      <3>3. Drafts' = Drafts
        BY <2>3, <3>2, DraftsSame DEF UndoRow, VersionInv
      <3> QED BY <2>3, <3>3 DEF UndoRow, TableStep
    <2>4. ~MarkAllSuperseded(t)
      BY DEF NoCompression, VersionInv, CallOK, MarkAllSuperseded
    <2>5. CASE CommitFails(t) \/ InsertVector(t) \/ InsertVectorFails(t) \/ UndoInsertFails(t)
               \/ UpdateDraft(t) \/ MarkSupersededFails(t) \/ UndoRowFails(t)
               \/ UndoIndex(t) \/ UndoIndexFails(t) \/ ForgetVector(t) \/ ForgetVectorFails(t)
      BY <2>5 DEF CommitFails, InsertVector, InsertVectorFails, UndoInsertFails, UpdateDraft,
                  MarkSupersededFails, UndoRowFails, UndoIndex, UndoIndexFails, ForgetVector,
                  ForgetVectorFails, db, TableStep
    <2>6. CASE PurgeVector(t) \/ PurgeEnd(t) \/ Reconcile(t) \/ ReconcileFails(t) \/ ReplaceAll(t)
               \/ ReplaceAllFails(t) \/ FetchEmbedding(t) \/ FetchMissing(t) \/ FetchFails(t)
               \/ Summarise(t) \/ CompressEnd(t) \/ MarkAllSupersededFails(t)
      BY <2>6 DEF PurgeVector, PurgeEnd, Reconcile, ReconcileFails, ReplaceAll, ReplaceAllFails,
                  FetchEmbedding, FetchMissing, FetchFails, Summarise, CompressEnd,
                  MarkAllSupersededFails, db, TableStep
    <2> QED BY <1>3, <2>1, <2>2, <2>3, <2>4, <2>5, <2>6 DEF Continue
  <1> QED BY <1>1, <1>2, <1>3 DEF Next

\* A step that leaves a superseded memory leaves its successor.
LEMMA SupersededKept ==
  ASSUME NoCompression, VersionInv, [Next]_vars, NEW i \in Rows \cap DOMAIN memories',
         memories[i].superseded_by # NoId
  PROVE  memories'[i].superseded_by = memories[i].superseded_by
  <1>1. ASSUME NEW t \in Tasks, CommitRow(t)
        PROVE  memories'[i].superseded_by = memories[i].superseded_by
    <2>1. job[t].fresh \in Drafts
      BY <1>1 DEF CommitRow, Drafts, Writing
    <2>2. i # job[t].fresh
      BY <2>1 DEF VersionInv, Sound, Settled
    <2> QED BY <1>1, <2>2 DEF CommitRow
  <1>2. ASSUME NEW S, DeleteRows(S)
        PROVE  memories'[i].superseded_by = memories[i].superseded_by
    BY <1>2 DEF DeleteRows
  <1>3. ASSUME NEW t \in Tasks, MarkSuperseded(t)
        PROVE  memories'[i].superseded_by = memories[i].superseded_by
    BY <1>3 DEF MarkSuperseded, Markable, Supersede
  <1> QED BY <1>1, <1>2, <1>3, TableSteps DEF TableStep

\* A supersession is final: no update, however it races with others, replaces
\* the successor another one set (engine.rs 576-579).
THEOREM SupersededForGood ==
  ASSUME NoCompression
  PROVE  Spec => SupersessionIsFinal
  <1>1. VersionInv /\ [Next]_vars =>
          [\A i \in Rows \cap DOMAIN memories' :
             memories[i].superseded_by # NoId =>
               memories'[i].superseded_by = memories[i].superseded_by]_vars
    BY SupersededKept
  <1> QED BY <1>1, AlwaysVersionInv, PTL DEF Spec, SupersessionIsFinal

-----------------------------------------------------------------------------
(* VersionHistory *)

\* The abstract state.
LEMMA HistoryState ==
  /\ SettledIds = (1..issued) \ Drafts
  /\ DOMAIN [i \in Rows |-> memories[i].superseded_by] = Rows
  BY DEF SettledIds, Drafts, Writing

\* A step is an abstract step or leaves the history as it is.
LEMMA HistoryStep ==
  ASSUME NoCompression, VersionInv, [Next]_vars
  PROVE  [History!HNext]_(History!hvars)
  <1>0. /\ Rows \subseteq 1..issued /\ Rows \cap Drafts = {} /\ issued \in Nat
        /\ 1..issued \subseteq Ids /\ issued' \in Nat /\ 1..issued' \subseteq Ids
        /\ SettledIds = (1..issued) \ Drafts /\ SettledIds' = (1..issued') \ Drafts'
    <2>1. Sound'
      BY SoundNext DEF VersionInv
    <2> QED BY <2>1, BoundAssumption DEF VersionInv, Sound, IInv, DbOK, Settled, Ids,
               SettledIds, Drafts, Writing
  <1>1. CASE UNCHANGED memories
    <2>1. issued' >= issued /\ \A i \in 1..issued : i \in Drafts' => i \in Drafts
      BY RowHistory DEF VersionInv
    <2>2. SettledIds \subseteq SettledIds' /\ SettledIds' \subseteq Ids
      BY <1>0, <2>1
    <2>3. SettledIds' = SettledIds \cup SettledIds'
      BY <2>2
    <2>4. History!Waste(SettledIds')
      BY <1>1, <2>2, <2>3 DEF History!Waste, Rows
    <2> QED BY <2>2, <2>4 DEF History!HNext
  <1>2. ASSUME NEW t \in Tasks, CommitRow(t) PROVE History!HNext
    <2>0. PICK f : f = job[t].fresh
      OBVIOUS
    <2>1. /\ f \in 1..issued /\ f \in Drafts /\ f \notin Rows
      BY <1>0, <1>2, <2>0 DEF CommitRow, Drafts, Writing, Storing, VersionInv, Sound, IInv, JobOK
    <2>2. issued' = issued /\ Drafts' = Drafts \ {f}
      <3>1. job'[t].pc = "insert" /\ \A u \in Tasks : u # t => job'[u] = job[u]
        BY <1>2 DEF CommitRow, Proceed, VersionInv, Sound, IInv, Job
      <3>2. \A u \in Tasks : u # t /\ job[u].pc \in Writing => job[u].fresh # f
        BY <1>2, <2>0 DEF CommitRow, Writing, Storing, VersionInv, Sound, Settled
      <3>3. \A i \in Drafts' : i \in Drafts \ {f}
        BY <3>1, <3>2 DEF Drafts, Writing
      <3>4. \A i \in Drafts \ {f} : i \in Drafts'
        BY <2>0, <3>1 DEF Drafts
      <3> QED BY <1>2, <3>3, <3>4 DEF CommitRow
    <2>3. SettledIds' = SettledIds \cup {f} /\ f \in Ids \ SettledIds
      BY <1>0, <2>1, <2>2
    <2>4. /\ Rows' = Rows \cup {f}
          /\ \A i \in Rows \cup {f} :
               memories'[i].superseded_by = IF i = f THEN 0 ELSE memories[i].superseded_by
      BY <1>2, <2>0 DEF CommitRow, NewRow, Rows, NoId
    <2>5. [i \in Rows |-> memories[i].superseded_by]'
            = [i \in Rows \cup {f} |-> IF i = f THEN 0
                                       ELSE [k \in Rows |-> memories[k].superseded_by][i]]
      <3>1. [i \in Rows |-> memories[i].superseded_by]'
              = [i \in Rows \cup {f} |-> memories'[i].superseded_by]
        BY <2>4
      <3>2. \A i \in Rows \cup {f} :
              memories'[i].superseded_by = IF i = f THEN 0
                                       ELSE [k \in Rows |-> memories[k].superseded_by][i]
        BY <2>4
      <3> QED BY <3>1, <3>2
    <2>6. History!Write(f)
      BY <2>3, <2>5 DEF History!Write
    <2> QED BY <2>3, <2>6 DEF History!HNext
  <1>3. ASSUME NEW S, Deletable(S), DeleteRows(S), Drafts' = Drafts, issued' = issued
        PROVE  History!HNext
    <2>0. PICK T : T = S \cap Rows
      OBVIOUS
    <2>1. T \in SUBSET Ids
      BY <1>0, <2>0
    <2>2. /\ Rows' = Rows \ T /\ \A i \in Rows \ T : memories'[i] = memories[i]
          /\ \A i \in Rows \ T : memories[i].superseded_by \notin T
          /\ SettledIds' = SettledIds
      BY <1>0, <1>3, <2>0 DEF DeleteRows, Deletable, Rows
    <2>3. [i \in Rows |-> memories[i].superseded_by]'
            = [i \in Rows \ T |-> [k \in Rows |-> memories[k].superseded_by][i]]
      <3>1. [i \in Rows |-> memories[i].superseded_by]'
              = [i \in Rows \ T |-> memories'[i].superseded_by]
        BY <2>2
      <3>2. \A i \in Rows \ T :
              memories'[i].superseded_by = [k \in Rows |-> memories[k].superseded_by][i]
        BY <2>2
      <3> QED BY <3>1, <3>2
    <2>4. History!Remove(T)
      BY <2>0, <2>2, <2>3 DEF History!Remove
    <2> QED BY <2>1, <2>4 DEF History!HNext
  <1>4. ASSUME NEW t \in Tasks, MarkSuperseded(t) PROVE History!HNext
    <2>0. PICK i, n : i = job[t].target /\ n = job[t].fresh
      OBVIOUS
    <2>1. /\ i \in Rows /\ n \in Rows /\ memories[i].superseded_by = NoId /\ i < n
          /\ job[t].pc = "mark" /\ job[t].pc \notin Writing
      BY <1>4, <2>0 DEF MarkSuperseded, Markable, VersionInv, Sound, IInv, JobOK, Storing, Writing
    <2>2. Drafts' = Drafts
      <3>1. Ended(job[t], "ok").pc \notin Writing
        BY DEF Ended, Idle, Writing
      <3> QED BY <1>4, <2>1, <3>1, DraftsSame DEF MarkSuperseded, Return, VersionInv
    <2>3. SettledIds' = SettledIds
      BY <1>0, <1>4, <2>2 DEF MarkSuperseded
    <2>4. /\ Rows' = Rows
          /\ \A k \in Rows : memories[k] \in Row
          /\ \A k \in Rows : memories'[k] = IF k = i THEN [memories[k] EXCEPT !.superseded_by = n]
                                                     ELSE memories[k]
      BY <1>4, <2>0 DEF MarkSuperseded, Supersede, Rows, VersionInv, Sound, IInv, DbOK
    <2>5. \A k \in Rows : memories'[k].superseded_by = IF k = i THEN n ELSE memories[k].superseded_by
      BY <2>4 DEF Row
    <2>6. [k \in Rows |-> memories[k].superseded_by]'
            = [[k \in Rows |-> memories[k].superseded_by] EXCEPT ![i] = n]
      <3>1. [k \in Rows |-> memories[k].superseded_by]'
              = [k \in Rows |-> memories'[k].superseded_by]
        BY <2>4
      <3> QED BY <2>1, <2>5, <3>1
    <2>7. i \in Ids /\ n \in Ids
      BY <1>0, <2>1
    <2>8. History!Link(i, n)
      BY <2>1, <2>3, <2>6 DEF History!Link, NoId
    <2> QED BY <2>7, <2>8 DEF History!HNext
  <1> QED BY <1>1, <1>2, <1>3, <1>4, TableSteps DEF TableStep

\* MemoryEngine implements VersionHistory, with any tasks, failures and crashes
\* (the one-hop chain of the Changelogs, engine.rs 496-597 and migrations.rs 29-46).
THEOREM HistoryImplemented ==
  ASSUME NoCompression
  PROVE  Spec => ImplementsVersionHistory
  <1>1. Init => History!HInit
    <2> SUFFICES ASSUME Init PROVE History!HInit
      OBVIOUS
    <2>1. Rows = {} /\ issued = 0
      BY DEF Init, Rows
    <2>2. SettledIds = {} /\ [i \in Rows |-> memories[i].superseded_by] = [i \in {} |-> 0]
      BY <2>1 DEF SettledIds
    <2> QED BY <2>2 DEF History!HInit
  <1> QED BY <1>1, HistoryStep, AlwaysVersionInv, PTL DEF Spec, ImplementsVersionHistory, History!HSpec

-----------------------------------------------------------------------------
(* Expiry along the chain *)

\* No update asks for another expiry.
ExpiryKept == NewExpiries \subseteq {Keep}

\* An update writes a version that expires no earlier than its target: while it
\* drafts it has the time the target has left, afterwards the row that says so.
Outliving(t) ==
  LET j == job[t] IN
  j.call = "update" /\ j.pc \in Storing =>
    /\ j.target \in Rows /\ j.ttl # Never =>
         /\ memories[j.target].expires_at # Never
         /\ memories[j.target].expires_at
              <= (IF j.pc = "draft" THEN now ELSE j.created_at) + j.ttl
    /\ j.fresh \in Rows /\ j.pc \notin Writing =>
         memories[j.fresh].expires_at = NewRow(j).expires_at

\* What an update does until it ends: it reads, reads the clock, commits, and
\* then only moves on.
LEMMA UpdateSteps ==
  ASSUME VersionInv, NEW t \in Tasks, Start(t) \/ Continue(t),
         job'[t].call = "update", job'[t].pc \in Storing
  PROVE  \/ UpdateRead(t)
         \/ /\ job[t].call = "update" /\ job[t].pc \in Storing
            /\ job'[t].target = job[t].target /\ job'[t].fresh = job[t].fresh
            /\ job'[t].ttl = job[t].ttl
            /\ \/ UpdateDraft(t) /\ job'[t].pc = "commit" /\ job'[t].created_at = now
               \/ /\ CommitRow(t) /\ job'[t].pc = "insert"
                  /\ job'[t].created_at = job[t].created_at
               \/ /\ job[t].pc \notin Writing /\ job'[t].pc \notin Writing
                  /\ job'[t].created_at = job[t].created_at
  <1>0. /\ job[t] \in Job
        /\ \A j : Proceed(t, j) => job'[t] = j
        /\ \A r : Return(t, r) => job'[t].pc = "idle"
        /\ "idle" \notin Storing
    BY EndedFields DEF VersionInv, Sound, IInv, Proceed, Return, Storing
  <1>1. Moves(t, job'[t])
    BY StepMoves DEF VersionInv
  <1>2. CASE Start(t)
    <2>1. job[t].pc = "idle"
      BY <1>2 DEF Start, Store, UpdateRefused, UpdateRead, Forget, ForgetFails, Purge, PurgeFails,
                  Rebuild, Compress, CompressFails, Ready
    <2>2. issued' = issued + 1
      BY <1>0, <1>1, <2>1 DEF Moves, Draws, Writes, MovesOn
    <2>3. issued' # issued
      BY <2>2 DEF VersionInv, Sound, IInv
    <2>4. ~Store(t)
      <3>1. ASSUME NEW ttl, NEW clutter
            PROVE  [Idle EXCEPT !.pc = "commit", !.call = "store",
                          !.fresh = issued + 1, !.ttl = ttl,
                          !.clutter = clutter, !.created_at = now].call = "store"
        BY DEF Idle
      <3> QED BY <1>0, <3>1 DEF Store
    <2> QED BY <1>2, <2>3, <2>4
            DEF Start, UpdateRefused, Forget, ForgetFails, Purge, PurgeFails, Rebuild, Compress,
                CompressFails
  <1>3. CASE Continue(t)
    <2>1. CASE UpdateDraft(t)
      BY <1>0, <2>1 DEF UpdateDraft, Job, Storing
    <2>2. CASE CommitRow(t)
      BY <1>0, <2>2 DEF CommitRow, Job, Storing
    <2>3. CASE InsertVector(t)
      BY <1>0, <2>3 DEF InsertVector, Job, Storing, Writing
    <2>4. CASE InsertVectorFails(t)
      BY <1>0, <2>4 DEF InsertVectorFails, Job, Storing, Writing
    <2>5. CASE MarkSupersededFails(t)
      BY <1>0, <2>5 DEF MarkSupersededFails, Job, Storing, Writing
    <2>6. CASE MarkAllSupersededFails(t)
      BY <1>0, <2>6 DEF MarkAllSupersededFails, Job
    <2>7. CASE UndoRow(t)
      BY <1>0, <2>7 DEF UndoRow, Job, Storing, Writing
    <2>8. CASE UndoRowFails(t)
      BY <1>0, <2>8 DEF UndoRowFails, Job, Storing, Writing
    <2>9. CASE \/ CommitFails(t) \/ UndoInsert(t) \/ UndoInsertFails(t) \/ MarkSuperseded(t)
               \/ UndoIndex(t) \/ UndoIndexFails(t) \/ ForgetVector(t) \/ ReconcileFails(t)
               \/ ReplaceAll(t) \/ ReplaceAllFails(t) \/ FetchMissing(t) \/ FetchFails(t)
               \/ CompressEnd(t)
      BY <1>0, <2>9 DEF CommitFails, UndoInsert, UndoInsertFails, MarkSuperseded, UndoIndex,
                        UndoIndexFails, ForgetVector, ReconcileFails, ReplaceAll,
                        ReplaceAllFails, FetchMissing, FetchFails, CompressEnd
    <2>10. CASE \/ ForgetVectorFails(t) \/ PurgeVector(t) \/ PurgeEnd(t) \/ Reconcile(t)
                \/ FetchEmbedding(t) \/ Summarise(t)
      <3>1. job[t].pc \notin Storing \cup {"idle"}
        BY <2>10 DEF ForgetVectorFails, PurgeVector, PurgeEnd, Reconcile, FetchEmbedding,
                     Summarise, Storing
      <3>2. job[t].call # "update"
        BY <3>1 DEF VersionInv, CallOK
      <3>3. \A j : Moves(t, j) => job'[t] = j
        BY <1>0 DEF Moves
      <3>4. job'[t].call = job[t].call
        <4>1. CASE ForgetVectorFails(t) \/ PurgeEnd(t) \/ Reconcile(t)
          BY <1>0, <2>10, <4>1 DEF ForgetVectorFails, PurgeEnd, Reconcile, Job
        <4>2. CASE PurgeVector(t)
          BY <1>0, <4>2 DEF PurgeVector, Job
        <4>3. CASE FetchEmbedding(t)
          BY <1>0, <4>3 DEF FetchEmbedding, Job
        <4>4. CASE Summarise(t)
          <5>1. PICK cluster \in SUBSET job[t].batch :
                  Proceed(t, [job[t] EXCEPT !.pc = "commit", !.fresh = issued + 1,
                                !.ttl = SummaryTtl, !.clutter = FALSE, !.created_at = now,
                                !.group = cluster, !.batch = @ \ cluster])
            BY <4>4 DEF Summarise
          <5> QED BY <1>0, <5>1 DEF Job
        <4> QED BY <2>10, <4>1, <4>2, <4>3, <4>4
      <3> QED BY <3>2, <3>4
    <2>11. CASE MarkAllSuperseded(t)
      BY <1>0, <2>11 DEF MarkAllSuperseded, Job, Storing
    <2> QED BY <1>3, <2>1, <2>2, <2>3, <2>4, <2>5, <2>6, <2>7, <2>8, <2>9, <2>10, <2>11 DEF Continue
  <1> QED BY <1>2, <1>3

\* The invariant that makes successors outlive what they supersede.
Outlives == (\A t \in Tasks : Outliving(t)) /\ SuccessorOutlives

LEMMA OutlivesInit == Init => Outlives
  <1> SUFFICES ASSUME Init PROVE Outlives
    OBVIOUS
  <1>1. Rows = {} /\ \A t \in Tasks : job[t].call = "none"
    BY DEF Init, Idle, Rows
  <1> QED BY <1>1 DEF Outlives, Outliving, SuccessorOutlives

\* No step leaves a successor that expires first: a supersession marks the
\* target of an update with the row that outlives it.
LEMMA OutlivesRows ==
  ASSUME NoCompression, VersionInv, Outlives, [Next]_vars
  PROVE  SuccessorOutlives'
  <1>0. /\ memories \in [Rows -> Row]
        /\ \A i \in Rows : memories[i].superseded_by \in Rows \cup {NoId}
    BY DEF VersionInv, Sound, IInv, DbOK, ForeignKeyCheck
  <1>1. CASE UNCHANGED memories
    BY <1>1 DEF Outlives, SuccessorOutlives, Rows
  <1>2. ASSUME NEW t \in Tasks, CommitRow(t) PROVE SuccessorOutlives'
    <2>1. job[t].fresh \in Drafts
      BY <1>2 DEF CommitRow, Drafts, Writing
    <2>2. job[t].fresh \notin Rows
      BY <2>1 DEF VersionInv, Sound, Settled
    <2>3. Rows' = Rows \cup {job[t].fresh} /\ memories'[job[t].fresh].superseded_by = NoId
      BY <1>2 DEF CommitRow, NewRow, Rows
    <2>4. \A i \in Rows : memories'[i] = memories[i]
      BY <1>2, <2>2 DEF CommitRow
    <2> QED BY <1>0, <2>3, <2>4 DEF Outlives, SuccessorOutlives
  <1>3. ASSUME NEW S, Deletable(S), DeleteRows(S) PROVE SuccessorOutlives'
    <2>1. Rows' = Rows \ S /\ \A i \in Rows' : memories'[i] = memories[i]
      BY <1>3 DEF DeleteRows, Rows
    <2>2. \A i \in Rows' : memories[i].superseded_by \in Rows' \cup {NoId}
      BY <1>0, <1>3, <2>1 DEF Deletable
    <2> QED BY <2>1, <2>2 DEF Outlives, SuccessorOutlives
  <1>4. ASSUME NEW t \in Tasks, MarkSuperseded(t) PROVE SuccessorOutlives'
    <2> DEFINE j == job[t]
    <2>1. /\ j.call = "update" /\ j.pc \in Storing /\ j.pc \notin Writing /\ j.pc # "draft"
          /\ j.target \in Rows /\ j.fresh \in Rows
      BY <1>4 DEF MarkSuperseded, Markable, Storing, Writing
    <2>2. memories[j.fresh].expires_at = NewRow(j).expires_at
      BY <2>1 DEF Outlives, Outliving
    <2>3. memories[j.fresh].expires_at = IF j.ttl = Never THEN Never ELSE j.created_at + j.ttl
      BY <2>2 DEF NewRow
    <2>4. j.ttl # Never => /\ memories[j.target].expires_at # Never
                           /\ memories[j.target].expires_at <= j.created_at + j.ttl
      BY <2>1 DEF Outlives, Outliving
    <2>5. \/ memories[j.fresh].expires_at = Never
          \/ /\ memories[j.target].expires_at # Never
             /\ memories[j.target].expires_at <= memories[j.fresh].expires_at
      BY <2>3, <2>4
    <2>6. /\ Rows' = Rows
          /\ \A i \in Rows : memories'[i].expires_at = memories[i].expires_at
          /\ \A i \in Rows : memories'[i].superseded_by =
                              IF i = j.target THEN j.fresh ELSE memories[i].superseded_by
      BY <1>0, <1>4 DEF MarkSuperseded, Supersede, Rows, Row
    <2> HIDE DEF j
    <2>7. ASSUME NEW i \in Rows, memories'[i].superseded_by # NoId
          PROVE  LET next == memories'[i].superseded_by IN
                 \/ memories'[next].expires_at = Never
                 \/ /\ memories'[i].expires_at # Never
                    /\ memories'[i].expires_at <= memories'[next].expires_at
      <3>1. CASE i = j.target
        BY <2>1, <2>5, <2>6, <3>1
      <3>2. CASE i # j.target
        BY <1>0, <2>6, <2>7, <3>2 DEF Outlives, SuccessorOutlives
      <3> QED BY <3>1, <3>2
    <2> QED BY <2>6, <2>7 DEF SuccessorOutlives
  <1> QED BY <1>1, <1>2, <1>3, <1>4, TableSteps DEF TableStep

\* A step that is not the update's own leaves it outliving its target.
LEMMA OutlivingKept ==
  ASSUME VersionInv, [Next]_vars, NEW t \in Tasks, Outliving(t), job'[t] = job[t]
  PROVE  Outliving(t)'
  <1> SUFFICES ASSUME job[t].call = "update", job[t].pc \in Storing
               PROVE  Outliving(t)'
    BY DEF Outliving
  <1>0. /\ now \in Nat /\ now' \in Nat /\ now' >= now
        /\ job[t] \in Job /\ memories \in [Rows -> Row]
    <2>1. Sound'
      BY SoundNext DEF VersionInv
    <2> QED BY <2>1, RowHistory DEF VersionInv, Sound, IInv, DbOK
  <1>1. job[t].target \notin Drafts
    BY DEF VersionInv, Sound, Settled, Held
  <1>2. ASSUME job[t].target \in Rows', job[t].ttl # Never
        PROVE  /\ memories'[job[t].target].expires_at # Never
               /\ memories'[job[t].target].expires_at
                    <= (IF job[t].pc = "draft" THEN now' ELSE job[t].created_at) + job[t].ttl
    <2>1. job[t].target \in Rows /\ RowKept(job[t].target)
      BY <1>1, <1>2, RowHistory DEF VersionInv
    <2>2. /\ memories[job[t].target].expires_at # Never
          /\ memories[job[t].target].expires_at
               <= (IF job[t].pc = "draft" THEN now ELSE job[t].created_at) + job[t].ttl
      BY <1>2, <2>1 DEF Outliving
    <2>3. /\ memories[job[t].target].expires_at \in Int
          /\ job[t].ttl \in Int /\ job[t].created_at \in Int
      BY <1>0, <2>1 DEF Row, Job, Expiries, Never
    <2> QED BY <1>0, <2>1, <2>2, <2>3 DEF RowKept
  <1>3. ASSUME job[t].fresh \in Rows', job[t].pc \notin Writing
        PROVE  memories'[job[t].fresh].expires_at = NewRow(job[t]).expires_at
    <2>1. job[t].fresh \notin Drafts
      BY <1>3 DEF VersionInv, Sound, Settled, Drafts, Writing, Storing
    <2>2. job[t].fresh \in Rows /\ RowKept(job[t].fresh)
      BY <1>3, <2>1, RowHistory DEF VersionInv
    <2> QED BY <1>3, <2>2 DEF RowKept, Outliving
  <1>4. NewRow(job[t])' = NewRow(job'[t])
    BY DEF NewRow
  <1> QED BY <1>2, <1>3 DEF Outliving, NewRow

\* Nor does its own step.
LEMMA OutlivingStep ==
  ASSUME ExpiryKept, VersionInv, Outlives, [Next]_vars,
         NEW t \in Tasks, Start(t) \/ Continue(t)
  PROVE  Outliving(t)'
  <1> SUFFICES ASSUME job'[t].call = "update", job'[t].pc \in Storing
               PROVE  Outliving(t)'
    BY DEF Outliving
  <1>0. /\ now \in Nat /\ now' \in Nat /\ now' >= now
        /\ job \in [Tasks -> Job] /\ job'[t] \in Job /\ memories \in [Rows -> Row]
    <2>1. Sound'
      BY SoundNext DEF VersionInv
    <2> QED BY <2>1, RowHistory DEF VersionInv, Sound, IInv, DbOK
  <1>1. CASE UpdateRead(t)
    <2>1. PICK i \in KnownIds, expiry \in NewExpiries \cup {Keep} :
            /\ Accepts(i, expiry)
            /\ \E clutter \in Clutters \cup {memories[i].clutter} :
                 Proceed(t, [Idle EXCEPT !.pc = "draft", !.call = "update",
                               !.target = i, !.fresh = issued + 1,
                               !.ttl = UpdateTtl(memories[i], expiry),
                               !.clutter = clutter])
      BY <1>1 DEF UpdateRead
    <2>2. expiry = Keep /\ i \in Rows
      BY <2>1 DEF ExpiryKept, Accepts
    <2>3. /\ job'[t].pc = "draft" /\ job'[t].target = i
          /\ job'[t].ttl = UpdateTtl(memories[i], expiry)
      BY <1>0, <2>1 DEF Proceed, Idle
    <2>4. now' = now /\ memories' = memories
      BY <1>1 DEF UpdateRead, db
    <2>5. memories[i].expires_at \in Int
      BY <1>0, <2>2 DEF Row, Expiries, Never
    <2>6. job'[t].ttl # Never => /\ memories[i].expires_at # Never
                                 /\ job'[t].ttl = memories[i].expires_at - now
      BY <2>2, <2>3 DEF UpdateTtl, Keep
    <2> QED BY <1>0, <2>3, <2>4, <2>5, <2>6 DEF Outliving, Writing
  <1>2. CASE ~UpdateRead(t)
    <2> DEFINE j == job[t]
               k == job'[t]
    <2>1. /\ j.call = "update" /\ j.pc \in Storing
          /\ k.target = j.target /\ k.fresh = j.fresh /\ k.ttl = j.ttl
          /\ \/ UpdateDraft(t) /\ k.pc = "commit" /\ k.created_at = now
             \/ CommitRow(t) /\ k.pc = "insert" /\ k.created_at = j.created_at
             \/ /\ j.pc \notin Writing /\ k.pc \notin Writing
                /\ k.created_at = j.created_at
      BY <1>2, UpdateSteps
    <2>2. j.target \notin Drafts
      BY DEF VersionInv, Sound, Settled, Held
    <2>3. ASSUME j.target \in Rows', j.ttl # Never
          PROVE  /\ k.pc # "draft" /\ memories'[j.target].expires_at # Never
                 /\ memories'[j.target].expires_at <= k.created_at + j.ttl
      <3>1. j.target \in Rows /\ RowKept(j.target)
        BY <2>2, <2>3, RowHistory DEF VersionInv
      <3>2. /\ memories[j.target].expires_at # Never
            /\ memories[j.target].expires_at
                 <= (IF j.pc = "draft" THEN now ELSE j.created_at) + j.ttl
        BY <2>1, <2>3, <3>1 DEF Outlives, Outliving
      <3>3. k.pc # "draft" /\ k.created_at = IF j.pc = "draft" THEN now ELSE j.created_at
        BY <2>1 DEF UpdateDraft, CommitRow, Writing
      <3> QED BY <3>1, <3>2, <3>3 DEF RowKept
    <2>4. ASSUME j.fresh \in Rows', k.pc \notin Writing
          PROVE  memories'[j.fresh].expires_at =
                   IF j.ttl = Never THEN Never ELSE k.created_at + j.ttl
      <3>1. CASE CommitRow(t)
        <4>1. k.created_at = j.created_at
          BY <2>1, <3>1 DEF CommitRow, UpdateDraft, Writing
        <4>2. memories'[j.fresh] = NewRow(j)
          BY <3>1 DEF CommitRow
        <4> QED BY <4>1, <4>2 DEF NewRow
      <3>2. CASE j.pc \notin Writing
        <4>1. j.fresh \notin Drafts
          BY <2>1, <3>2 DEF VersionInv, Sound, Settled, Drafts, Writing, Storing
        <4>2. j.fresh \in Rows /\ RowKept(j.fresh)
          BY <2>4, <4>1, RowHistory DEF VersionInv
        <4>3. memories[j.fresh].expires_at = NewRow(j).expires_at
          BY <2>1, <3>2, <4>2 DEF Outlives, Outliving
        <4> QED BY <2>1, <3>2, <4>2, <4>3 DEF RowKept, NewRow, UpdateDraft, CommitRow, Writing
      <3> QED BY <2>1, <2>4, <3>1, <3>2 DEF Writing
    <2> QED BY <2>1, <2>3, <2>4 DEF Outliving, NewRow
  <1> QED BY <1>1, <1>2

LEMMA OutlivesNext ==
  ASSUME NoCompression, ExpiryKept, VersionInv, Outlives, [Next]_vars
  PROVE  Outlives'
  <1>1. ASSUME NEW u \in Tasks PROVE Outliving(u)'
    <2>1. CASE job'[u] = job[u]
      BY <2>1, OutlivingKept DEF Outlives
    <2>2. CASE Crash
      <3>1. job'[u].call = "none"
        BY <2>2 DEF Crash, Idle
      <3> QED BY <3>1 DEF Outliving
    <2>3. CASE Tick \/ Open \/ UNCHANGED vars
      BY <2>1, <2>3 DEF Tick, Open, vars
    <2>4. ASSUME NEW t \in Tasks, Start(t) \/ Continue(t) PROVE Outliving(u)'
      <3>1. CASE t = u
        BY <2>4, <3>1, OutlivingStep
      <3>2. CASE t # u
        <4>1. \E j : Proceed(t, j)
          BY <2>4, StepMoves DEF VersionInv, Moves
        <4>2. job'[u] = job[u]
          BY <3>2, <4>1 DEF Proceed, VersionInv, Sound, IInv
        <4> QED BY <2>1, <4>2
      <3> QED BY <3>1, <3>2
    <2> QED BY <2>2, <2>3, <2>4 DEF Next
  <1> QED BY <1>1, OutlivesRows DEF Outlives

\* Where updates keep expiries, a version expires no later than the one that
\* replaces it, however late that one is written (engine.rs 523-528), so no
\* purge_expired meets a live row that points at an expired one.
THEOREM SuccessorsOutlive ==
  ASSUME NoCompression, ExpiryKept
  PROVE  Spec => []SuccessorOutlives
  <1>1. VersionInv /\ Outlives /\ [Next]_vars => Outlives'
    BY OutlivesNext
  <1>2. Outlives => SuccessorOutlives
    BY DEF Outlives
  <1> QED BY <1>1, <1>2, OutlivesInit, AlwaysVersionInv, PTL DEF Spec

-----------------------------------------------------------------------------
(* A walk *)

\* A version as it was read when no more than n ids were issued.
ReadOK(v, n) == v.id <= n /\ v.next <= n /\ (v.next # NoId => v.id < v.next)

\* The k-th version of a walk has at least the k-th id; its successor, if any,
\* is the version after it and younger.
WalkOK(j, n) ==
  /\ j \in Walk
  /\ j.pc = "walk" \/ j.res = "ok" => j.chain # <<>>
  /\ j.pc = "walk" => j.res = "none"
  /\ \A k \in 1..Len(j.chain) : k <= j.chain[k].id /\ ReadOK(j.chain[k], n)
  /\ \A k \in 2..Len(j.chain) : /\ j.chain[k].id = j.chain[k - 1].next
                                /\ j.chain[k - 1].id < j.chain[k].id
  /\ j.res = "cycle" => n > MaxHops + 1

WalksOK == walker \in [Walkers -> Walk] /\ \A w \in Walkers : WalkOK(walker[w], issued)

\* A walk that has not begun.
LEMMA NoWalkOK ==
  ASSUME NEW n \in Nat
  PROVE  /\ WalkOK(NoWalk, n) /\ NoWalk \in Walk
         /\ WalkOK([NoWalk EXCEPT !.res = "notfound"], n)
         /\ WalkOK([NoWalk EXCEPT !.res = "err"], n)
  <1>1. ASSUME NEW j, \/ j = NoWalk \/ j = [NoWalk EXCEPT !.res = "notfound"]
                      \/ j = [NoWalk EXCEPT !.res = "err"]
        PROVE  WalkOK(j, n) /\ j \in Walk
    <2>1. j.pc = "idle" /\ j.chain = <<>> /\ j.res \in {"none", "notfound", "err"}
      BY <1>1 DEF NoWalk
    <2>2. j \in Walk
      <3>1. NoWalk \in Walk
        BY DEF NoWalk, Walk
      <3> QED BY <1>1, <3>1 DEF Walk
    <2> QED BY <2>1, <2>2 DEF WalkOK
  <1> QED BY <1>1

\* Ids stay issued.
LEMMA WalkMonotone ==
  ASSUME NEW n \in Nat, NEW m \in Nat, n <= m, NEW j, WalkOK(j, n)
  PROVE  WalkOK(j, m)
  <1>1. \A k \in 1..Len(j.chain) : j.chain[k] \in Version
    BY DEF WalkOK, Walk
  <1>2. MaxHops \in Nat /\ \A v \in Version : v.id \in Nat /\ v.next \in Nat
    BY WalkAssumption, BoundAssumption DEF Version, Ids, NoId
  <1> QED BY <1>1, <1>2 DEF WalkOK, ReadOK

\* One version more.
LEMMA AppendOK ==
  ASSUME NEW n \in Nat, NEW j, WalkOK(j, n), j.pc = "walk",
         NEW v \in Version, ReadOK(v, n), v.id = j.chain[Len(j.chain)].next
  PROVE  WalkOK([j EXCEPT !.chain = Append(@, v)], n)
  <1>0. j \in Walk /\ j.chain \in Seq(Version) /\ j.chain # <<>>
    BY DEF WalkOK, Walk
  <1>1. PICK c, l : c = j.chain /\ l = Len(j.chain)
    OBVIOUS
  <1>2. /\ c \in Seq(Version) /\ l = Len(c) /\ l \in Nat \ {0}
        /\ c[l] \in Version /\ l <= c[l].id /\ ReadOK(c[l], n)
    BY <1>0, <1>1 DEF WalkOK
  <1>3. v.id \in Nat /\ c[l].id \in Nat /\ v.id # NoId
    BY <1>2, BoundAssumption DEF Version, Ids, NoId
  <1>4. c[l].id < v.id /\ v.id = c[l].next
    BY <1>1, <1>2, <1>3 DEF ReadOK
  <1> DEFINE d == Append(c, v)
             i == [j EXCEPT !.chain = Append(@, v)]
  <1>5. /\ d \in Seq(Version) /\ Len(d) = l + 1 /\ d[l + 1] = v
        /\ \A k \in 1..l : d[k] = c[k]
    BY <1>2
  <1>6. i \in Walk /\ i.pc = "walk" /\ i.res = j.res /\ i.chain = d
    BY <1>0, <1>1, <1>5 DEF Walk
  <1> HIDE DEF d, i
  <1>7. \A k \in 1..Len(d) : k <= d[k].id /\ ReadOK(d[k], n)
    <2> SUFFICES ASSUME NEW k \in 1..(l + 1) PROVE k <= d[k].id /\ ReadOK(d[k], n)
      BY <1>2, <1>5
    <2>1. CASE k = l + 1
      BY <1>2, <1>3, <1>4, <1>5, <2>1
    <2>2. CASE k # l + 1
      BY <1>1, <1>2, <1>5, <2>2 DEF WalkOK
    <2> QED BY <2>1, <2>2
  <1>8. \A k \in 2..Len(d) : d[k].id = d[k - 1].next /\ d[k - 1].id < d[k].id
    <2> SUFFICES ASSUME NEW k \in 2..(l + 1)
                 PROVE  d[k].id = d[k - 1].next /\ d[k - 1].id < d[k].id
      BY <1>2, <1>5
    <2>1. CASE k = l + 1
      BY <1>2, <1>4, <1>5, <2>1
    <2>2. CASE k # l + 1
      <3>1. k \in 2..l /\ k \in 1..l /\ k - 1 \in 1..l
        BY <1>2, <2>2
      <3>2. d[k] = c[k] /\ d[k - 1] = c[k - 1]
        BY <1>5, <3>1
      <3>3. c[k].id = c[k - 1].next /\ c[k - 1].id < c[k].id
        BY <1>1, <3>1 DEF WalkOK
      <3> QED BY <3>2, <3>3
    <2> QED BY <2>1, <2>2
  <1>9. i.chain # <<>>
    BY <1>2, <1>5, <1>6
  <1>10. WalkOK(i, n)
    BY <1>6, <1>7, <1>8, <1>9 DEF WalkOK
  <1> QED BY <1>10 DEF i

\* What get() returns for a row.
LEMMA RowRead ==
  ASSUME IInv, NEW i \in Rows
  PROVE  /\ Get(i) \in Version
         /\ ReadOK(Get(i), issued)
         /\ i >= 1
  <1>1. i \in 1..issued /\ issued \in 0..MaxMemories /\ memories[i] \in Row
        /\ memories[i].superseded_by \in Rows \cup {NoId}
        /\ (memories[i].superseded_by # NoId => i < memories[i].superseded_by)
        /\ Rows \subseteq 1..issued
    BY DEF IInv, DbOK, ForeignKeyCheck, ChainOrder
  <1>2. PICK s : s = memories[i].superseded_by
    OBVIOUS
  <1>3. issued \in Nat /\ 1..issued \subseteq Ids
    BY <1>1, BoundAssumption DEF Ids
  <1>4. i \in Ids /\ i \in Nat /\ i >= 1 /\ i <= issued
    BY <1>1, <1>3
  <1>5. s \in Ids \cup {NoId} /\ s <= issued
    <2>1. CASE s = NoId
      BY <1>3, <2>1 DEF NoId
    <2>2. CASE s \in 1..issued
      BY <1>3, <2>2
    <2> QED BY <1>1, <1>2, <2>1, <2>2
  <1> QED BY <1>1, <1>2, <1>4, <1>5 DEF Version, ReadOK, Get

\* One walk takes a step.
LEMMA WalkStepOK ==
  ASSUME IInv, WalksOK, NEW w \in Walkers, WalkStep(w)
  PROVE  WalksOK'
  <1>0. /\ issued \in Nat /\ issued' = issued /\ walker[w] \in Walk
        /\ WalkOK(walker[w], issued)
    BY DEF IInv, WalksOK, WalkStep, StartWalk, Hop, WalkFails, GiveUp, EndWalk, vars
  <1>1. ASSUME NEW j, Walking(w, j), WalkOK(j, issued) PROVE WalksOK'
    <2>1. j \in Walk
      BY <1>1 DEF WalkOK
    <2>2. walker' \in [Walkers -> Walk] /\ walker'[w] = j
          /\ \A x \in Walkers : x # w => walker'[x] = walker[x]
      BY <1>1, <2>1 DEF Walking, WalksOK
    <2> QED BY <1>0, <1>1, <2>2 DEF WalksOK
  <1>2. CASE StartWalk(w)
    <2>1. PICK i \in KnownIds :
            Walking(w, IF i \in Rows
                       THEN [pc |-> "walk", res |-> "none", chain |-> <<Get(i)>>]
                       ELSE [NoWalk EXCEPT !.res = "notfound"])
      BY <1>2 DEF StartWalk
    <2>2. CASE i \notin Rows
      BY <1>0, <1>1, <2>1, <2>2, NoWalkOK
    <2>3. CASE i \in Rows
      <3>1. PICK v \in Version : /\ v = Get(i)
                                 /\ ReadOK(v, issued) /\ v.id >= 1
        BY <2>3, RowRead DEF Get
      <3> DEFINE j == [pc |-> "walk", res |-> "none", chain |-> <<v>>]
      <3>2. j.chain = <<v>> /\ j.chain \in Seq(Version) /\ Len(j.chain) = 1 /\ j.chain[1] = v
            /\ j.chain # <<>>
        OBVIOUS
      <3>3. j \in Walk /\ j.pc = "walk" /\ j.res = "none"
        BY <3>2 DEF Walk
      <3>4. Walking(w, j)
        BY <2>1, <2>3, <3>1
      <3> HIDE DEF j
      <3>5. WalkOK(j, issued)
        BY <3>1, <3>2, <3>3 DEF WalkOK
      <3> QED BY <1>1, <3>4, <3>5
    <2> QED BY <2>2, <2>3
  <1>3. CASE Hop(w)
    <2>1. PICK v \in Version : /\ v = Get(NextId(w))
                               /\ ReadOK(v, issued)
      BY <1>3, RowRead DEF Hop, Get
    <2>2. v.id = walker[w].chain[Len(walker[w].chain)].next
      BY <2>1 DEF Get, NextId, Newest, Chain
    <2>3. Walking(w, [walker[w] EXCEPT !.chain = Append(@, v)]) /\ walker[w].pc = "walk"
      BY <1>3, <2>1 DEF Hop
    <2> QED BY <1>0, <1>1, <2>1, <2>2, <2>3, AppendOK
  <1>4. CASE GiveUp(w)
    <2> DEFINE j == [walker[w] EXCEPT !.pc = "idle", !.res = "cycle"]
               l == Len(walker[w].chain)
               v == walker[w].chain[l]
    <2>1. /\ l \in Nat /\ l > MaxHops /\ v.next # NoId /\ walker[w].chain # <<>>
          /\ walker[w].chain \in Seq(Version)
      BY <1>0, <1>4 DEF GiveUp, TooLong, NextId, Newest, Chain, WalkOK, Walk
    <2>2. v \in Version /\ l <= v.id /\ ReadOK(v, issued)
      BY <1>0, <2>1 DEF WalkOK
    <2>3. v.id \in Nat /\ v.next \in Nat
      BY <2>2, BoundAssumption DEF Version, Ids, NoId
    <2>4. issued > MaxHops + 1
      BY <1>0, <2>1, <2>2, <2>3, WalkAssumption DEF ReadOK
    <2>5. j \in Walk /\ j.pc = "idle" /\ j.res = "cycle" /\ j.chain = walker[w].chain
      BY <1>0 DEF Walk
    <2>6. Walking(w, j)
      BY <1>4 DEF GiveUp
    <2> HIDE DEF j
    <2>7. WalkOK(j, issued)
      BY <1>0, <2>4, <2>5 DEF WalkOK
    <2> QED BY <1>1, <2>6, <2>7
  <1>5. CASE EndWalk(w)
    <2> DEFINE j == [walker[w] EXCEPT !.pc = "idle", !.res = "ok"]
    <2>1. j \in Walk /\ j.pc = "idle" /\ j.res = "ok" /\ j.chain = walker[w].chain
      BY <1>0 DEF Walk
    <2>2. Walking(w, j) /\ walker[w].pc = "walk"
      BY <1>5 DEF EndWalk
    <2> HIDE DEF j
    <2>3. WalkOK(j, issued)
      BY <1>0, <2>1, <2>2 DEF WalkOK
    <2> QED BY <1>1, <2>2, <2>3
  <1>6. CASE WalkFails(w)
    BY <1>0, <1>1, <1>6, NoWalkOK DEF WalkFails
  <1> QED BY <1>2, <1>3, <1>4, <1>5, <1>6 DEF WalkStep

\* The storage core takes a step.
LEMMA CoreStepOK ==
  ASSUME Sound, WalksOK, CoreStep
  PROVE  WalksOK'
  <1>1. issued \in Nat /\ issued' \in Nat /\ issued' >= issued
    <2>1. Sound'
      BY SoundNext DEF CoreStep
    <2> QED BY <2>1, RowHistory DEF CoreStep, Sound, IInv
  <1>2. CASE up'
    BY <1>1, <1>2, WalkMonotone DEF CoreStep, WalksOK
  <1>3. CASE ~up'
    BY <1>1, <1>3, NoWalkOK DEF CoreStep, WalksOK
  <1> QED BY <1>2, <1>3

\* A step of the composition is a step of the storage core or none.
LEMMA WalkNextCore == [WalkNext]_walkVars => [Next]_vars
  BY DEF WalkNext, CoreStep, WalkStep, StartWalk, Hop, WalkFails, GiveUp, EndWalk, walkVars, vars

THEOREM WalksAlwaysOK == WalkSpec => [](Sound /\ WalksOK)
  <1>1. WalkInit => Sound /\ WalksOK
    <2> SUFFICES ASSUME WalkInit PROVE Sound /\ WalksOK
      OBVIOUS
    <2>1. Sound /\ issued \in Nat
      BY SoundInit DEF WalkInit, Init
    <2> QED BY <2>1, NoWalkOK DEF WalkInit, WalksOK
  <1>2. (Sound /\ WalksOK) /\ [WalkNext]_walkVars => (Sound /\ WalksOK)'
    <2> SUFFICES ASSUME Sound, WalksOK, [WalkNext]_walkVars PROVE Sound' /\ WalksOK'
      OBVIOUS
    <2>1. Sound'
      BY SoundNext, WalkNextCore
    <2>2. CASE WalkNext
      BY <2>1, <2>2, WalkStepOK, CoreStepOK DEF WalkNext, Sound
    <2>3. CASE UNCHANGED walkVars
      BY <2>1, <2>3 DEF walkVars, vars, WalksOK
    <2> QED BY <2>1, <2>2, <2>3
  <1> QED BY <1>1, <1>2, PTL DEF WalkSpec

\* Type correctness of the walks.
THEOREM WalksTyped == WalkSpec => []WalkTypeOK
  <1>1. WalksOK => WalkTypeOK
    BY DEF WalksOK, WalkTypeOK
  <1> QED BY <1>1, WalksAlwaysOK, PTL

\* A chain is in order and never comes back to a version, whatever else happens
\* during the walk; and only more versions than hops trip the guard.
THEOREM ChainsInOrder == WalkSpec => []ChainInOrder
  <1>1. WalksOK => ChainInOrder
    BY DEF WalksOK, WalkOK, ChainInOrder, Chain
  <1> QED BY <1>1, WalksAlwaysOK, PTL

-----------------------------------------------------------------------------
(* Where a walk ends *)

\* What the walk has read of its newest version is still so if it is superseded
\* and still there.
NewestRead(w) ==
  walker[w].chain # <<>> =>
    /\ Newest(w).id \notin Drafts
    /\ Newest(w).next # NoId /\ Newest(w).id \in Rows =>
         memories[Newest(w).id].superseded_by = Newest(w).next
    /\ walker[w].res = "ok" => Newest(w).next = NoId \/ Newest(w).id \notin Rows

ReadInv ==
  /\ VersionInv /\ WalksOK
  /\ \A w \in Walkers : NewestRead(w)

\* A walk that did not move, while the core did.
LEMMA NewestKept ==
  ASSUME NoCompression, ReadInv, [Next]_vars, NEW w \in Walkers, walker'[w] = walker[w]
  PROVE  NewestRead(w)'
  <1> SUFFICES ASSUME walker[w].chain # <<>>
               PROVE  /\ Newest(w).id \notin Drafts'
                      /\ Newest(w).next # NoId /\ Newest(w).id \in Rows' =>
                           memories'[Newest(w).id].superseded_by = Newest(w).next
                      /\ walker[w].res = "ok" => Newest(w).next = NoId \/ Newest(w).id \notin Rows'
    BY DEF NewestRead, Newest, Chain
  <1>1. PICK v : v = Newest(w)
    OBVIOUS
  <1>2. v \in Version /\ v.id <= issued /\ issued \in Nat
    BY <1>1 DEF ReadInv, WalksOK, WalkOK, Walk, ReadOK, Newest, Chain, VersionInv, Sound, IInv
  <1>3. v.id \in 1..issued
    BY <1>2, BoundAssumption DEF Version, Ids
  <1>4. /\ v.id \notin Drafts
        /\ v.next # NoId /\ v.id \in Rows => memories[v.id].superseded_by = v.next
        /\ walker[w].res = "ok" => v.next = NoId \/ v.id \notin Rows
    BY <1>1 DEF ReadInv, NewestRead
  <1>5. v.id \notin Drafts' /\ (v.id \in Rows' => v.id \in Rows)
    BY <1>3, <1>4, RowHistory DEF ReadInv, VersionInv
  <1>6. ASSUME v.next # NoId, v.id \in Rows'
        PROVE  memories'[v.id].superseded_by = v.next
    BY <1>4, <1>5, <1>6, SupersededKept DEF ReadInv, Rows
  <1> QED BY <1>1, <1>4, <1>5, <1>6

\* A walk that moved, while the core did not.
LEMMA NewestMoved ==
  ASSUME ReadInv, NEW w \in Walkers, WalkStep(w)
  PROVE  NewestRead(w)'
  <1>0. /\ walker[w] \in Walk /\ WalkOK(walker[w], issued) /\ walker \in [Walkers -> Walk]
        /\ Rows \cap Drafts = {} /\ NewestRead(w) /\ IInv
        /\ \A i \in Rows : memories[i].superseded_by \in Rows \cup {NoId}
    BY DEF ReadInv, WalksOK, VersionInv, Sound, Settled, IInv, DbOK, ForeignKeyCheck
  <1>1. Drafts' = Drafts /\ Rows' = Rows /\ memories' = memories
    BY DEF WalkStep, StartWalk, Hop, WalkFails, GiveUp, EndWalk, vars, Drafts, Rows
  <1>2. CASE StartWalk(w)
    <2>1. PICK i \in KnownIds :
            Walking(w, IF i \in Rows
                       THEN [pc |-> "walk", res |-> "none", chain |-> <<Get(i)>>]
                       ELSE [NoWalk EXCEPT !.res = "notfound"])
      BY <1>2 DEF StartWalk
    <2>2. CASE i \notin Rows
      <3>1. walker'[w].chain = <<>>
        BY <1>0, <2>1, <2>2 DEF Walking, NoWalk
      <3> QED BY <3>1 DEF NewestRead
    <2>3. CASE i \in Rows
      <3>1. PICK v : v = Get(i)
        OBVIOUS
      <3>2. walker'[w] = [pc |-> "walk", res |-> "none", chain |-> <<v>>]
        BY <1>0, <2>1, <2>3, <3>1 DEF Walking
      <3>3. walker'[w].res = "none" /\ walker'[w].chain[Len(walker'[w].chain)] = v
        BY <3>2
      <3>4. v.id = i /\ v.next = memories[i].superseded_by
        BY <3>1 DEF Get
      <3> QED BY <1>0, <1>1, <2>3, <3>3, <3>4 DEF NewestRead, Newest, Chain
    <2> QED BY <2>2, <2>3
  <1>3. CASE Hop(w)
    <2>1. PICK v \in Version : v = Get(NextId(w))
      BY <1>0, <1>3, RowRead DEF Hop
    <2>2. walker'[w] = [walker[w] EXCEPT !.chain = Append(@, v)]
      BY <1>0, <1>3, <2>1 DEF Hop, Walking
    <2>3. walker'[w].chain = Append(walker[w].chain, v) /\ walker'[w].res = walker[w].res
      BY <1>0, <2>2 DEF Walk
    <2>4. walker[w].chain \in Seq(Version) /\ walker[w].chain # <<>>
      BY <1>0, <1>3 DEF Hop, WalkOK, Walk
    <2>5. walker'[w].chain[Len(walker'[w].chain)] = v
      BY <2>3, <2>4
    <2>6. v.id = NextId(w) /\ v.next = memories[NextId(w)].superseded_by
      BY <2>1 DEF Get
    <2>7. NextId(w) \in Rows
      BY <1>3 DEF Hop
    <2>8. walker[w].res # "ok"
      BY <1>0, <1>3 DEF Hop, WalkOK
    <2> QED BY <1>0, <1>1, <2>3, <2>5, <2>6, <2>7, <2>8 DEF NewestRead, Newest, Chain
  <1>4. CASE GiveUp(w)
    <2>1. walker'[w] = [walker[w] EXCEPT !.pc = "idle", !.res = "cycle"]
      BY <1>0, <1>4 DEF GiveUp, Walking
    <2>2. walker'[w].chain = walker[w].chain /\ walker'[w].res = "cycle"
      BY <1>0, <2>1 DEF Walk
    <2> QED BY <1>0, <1>1, <2>2 DEF NewestRead, Newest, Chain
  <1>5. CASE EndWalk(w)
    <2>1. walker'[w] = [walker[w] EXCEPT !.pc = "idle", !.res = "ok"]
      BY <1>0, <1>5 DEF EndWalk, Walking
    <2>2. walker'[w].chain = walker[w].chain
      BY <1>0, <2>1 DEF Walk
    <2>3. walker[w].chain # <<>> /\ (NextId(w) = NoId \/ NextId(w) \notin Rows)
      BY <1>0, <1>5 DEF EndWalk, WalkOK
    <2>4. Newest(w).next = NoId \/ Newest(w).id \notin Rows
      BY <1>0, <2>3 DEF NewestRead, NextId
    <2> QED BY <1>0, <1>1, <2>2, <2>4 DEF NewestRead, Newest, Chain
  <1>6. CASE WalkFails(w)
    <2>1. walker'[w].chain = <<>>
      BY <1>0, <1>6 DEF WalkFails, Walking, NoWalk
    <2> QED BY <2>1 DEF NewestRead
  <1> QED BY <1>2, <1>3, <1>4, <1>5, <1>6 DEF WalkStep

\* A walk that returns Ok has left out only versions that were removed
\* together with the one it ends with, as long as nothing is compressed.
THEOREM WalksReachNewest ==
  ASSUME NoCompression
  PROVE  WalkSpec => []ChainReachesNewest
  <1>1. WalkInit => ReadInv
    <2> SUFFICES ASSUME WalkInit PROVE ReadInv
      OBVIOUS
    <2>1. VersionInv /\ issued \in Nat
      BY VersionInit DEF WalkInit, Init
    <2>2. WalksOK /\ \A w \in Walkers : walker[w].chain = <<>>
      BY <2>1, NoWalkOK DEF WalkInit, WalksOK, NoWalk
    <2> QED BY <2>1, <2>2 DEF ReadInv, NewestRead
  <1>2. ReadInv /\ [WalkNext]_walkVars => ReadInv'
    <2> SUFFICES ASSUME ReadInv, [WalkNext]_walkVars PROVE ReadInv'
      OBVIOUS
    <2>0. [Next]_vars
      BY WalkNextCore
    <2>1. VersionInv'
      BY <2>0, VersionNext DEF ReadInv
    <2>2. WalksOK' /\ \A w \in Walkers : NewestRead(w)'
      <3>1. CASE CoreStep
        <4>1. WalksOK'
          BY <3>1, CoreStepOK DEF ReadInv, VersionInv
        <4>2. ASSUME NEW w \in Walkers PROVE NewestRead(w)'
          <5>1. CASE up'
            BY <2>0, <3>1, <5>1, NewestKept DEF CoreStep
          <5>2. CASE ~up'
            <6>1. walker'[w].chain = <<>>
              BY <3>1, <5>2 DEF CoreStep, NoWalk
            <6> QED BY <6>1 DEF NewestRead
          <5> QED BY <5>1, <5>2
        <4> QED BY <4>1, <4>2
      <3>2. ASSUME NEW x \in Walkers, WalkStep(x)
            PROVE  WalksOK' /\ \A w \in Walkers : NewestRead(w)'
        <4>1. WalksOK'
          BY <3>2, WalkStepOK DEF ReadInv, VersionInv, Sound
        <4>2. ASSUME NEW w \in Walkers PROVE NewestRead(w)'
          <5>1. CASE w = x
            BY <3>2, <5>1, NewestMoved
          <5>2. CASE w # x
            <6>1. walker'[w] = walker[w]
              BY <3>2, <5>2
                 DEF WalkStep, StartWalk, Hop, WalkFails, GiveUp, EndWalk, Walking, ReadInv, WalksOK
            <6> QED BY <2>0, <6>1, NewestKept
          <5> QED BY <5>1, <5>2
        <4> QED BY <4>1, <4>2
      <3>3. CASE UNCHANGED walkVars
        BY <2>0, <3>3, NewestKept DEF walkVars, vars, ReadInv, WalksOK
      <3> QED BY <3>1, <3>2, <3>3 DEF WalkNext
    <2> QED BY <2>1, <2>2 DEF ReadInv
  <1>3. ReadInv => ChainReachesNewest
    BY DEF ReadInv, WalksOK, WalkOK, NewestRead, ChainReachesNewest
  <1> QED BY <1>1, <1>2, <1>3, PTL DEF WalkSpec
=============================================================================
