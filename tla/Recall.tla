------------------------------- MODULE Recall -------------------------------
(***************************************************************************)
(* recall and recall_query (engine.rs 202-405) over the storage core.      *)
(*                                                                         *)
(* A recall searches the index, reads the rows of the hits, filters, ranks *)
(* and cuts them, bumps what is left in one UPDATE and reads it again.     *)
(* Each of these is a section of its own; between two of them the tasks of *)
(* MemoryEngine, and other recalls, change index and table.                *)
(*                                                                         *)
(* Similarities and scores are data: which hits fit into the pool and      *)
(* which items into the limit is a free choice of that many.  Of the       *)
(* filters on what is stored with a memory for good (importance, type,     *)
(* metadata) there is one: no clutter.                                     *)
(***************************************************************************)
EXTENDS MemoryEngine

CONSTANTS
  Readers,      \* concurrent callers of recall_query
  Queries,      \* Queries[r]: the flags of the RecallQuery values reader r passes
  Limit,        \* RecallQuery.limit
  MinPool,      \* 50 ...
  MaxPool,      \* ... and MAX_CANDIDATES, the bounds of candidate_pool_size
  StaleAfter,   \* twice decay_half_life_days, of a clutter memory and of others
  Threshold,    \* ConfidenceLevel::PROMOTION_THRESHOLD
  Confidences,  \* levels a caller may store
  MaxAccess     \* bound: no recall starts once a memory was accessed that often

Levels == {"explicit", "inferred", "reinforced"}
Query  == [include_superseded : BOOLEAN, include_expired : BOOLEAN, no_clutter : BOOLEAN,
           only_stale : BOOLEAN, created_after : Nat, created_before : Nat]

ASSUME RecallAssumption ==
  /\ Queries \in [Readers -> SUBSET Query]
  /\ Limit \in Nat \ {0}
  /\ MinPool \in Nat /\ MaxPool \in Nat /\ MinPool <= MaxPool
  /\ StaleAfter \in [BOOLEAN -> Nat]
  /\ Threshold \in Nat \ {0}
  /\ Confidences \subseteq Levels
  /\ MaxAccess \in Nat

VARIABLES
  usage,  \* per row: the columns access_count, last_accessed and confidence
  reader  \* per reader: the recall it is in

recallVars == <<vars, usage, reader>>

\* given is the confidence the row was inserted with, served how many recalls
\* have bumped it (history).
Usage == [access_count : Nat, last_accessed : Nat,
          confidence : Levels, given : Levels, served : Nat]

\* clock is the time the recall goes by, seen the access_count fetched with an
\* item.  barred and owed are history: the ids it must not, and must, find.
Recalling == [pc : {"idle", "search", "fetch", "bump", "refetch"}, query : Query,
              clock : Nat, hits : SUBSET Ids, items : SUBSET Ids, seen : [Ids -> Nat],
              barred : SUBSET Ids, owed : SUBSET Ids]

NoQuery == [include_superseded |-> FALSE, include_expired |-> FALSE, no_clutter |-> FALSE,
            only_stale |-> FALSE, created_after |-> 0, created_before |-> MaxTime]
Resting == [pc |-> "idle", query |-> NoQuery, clock |-> 0, hits |-> {}, items |-> {}, seen |-> [i \in Ids |-> 0],
            barred |-> {}, owed |-> {}]

RecallTypeOK ==
  /\ TypeOK
  /\ usage \in [Rows -> Usage]
  /\ reader \in [Readers -> Recalling]

RecallInit ==
  /\ Init
  /\ usage = [i \in {} |-> 0]
  /\ reader = [r \in Readers |-> Resting]

Least(m, n) == IF m <= n THEN m ELSE n

\* candidate_pool_size: limit.saturating_mul(5).clamp(MinPool, MaxPool)
Pool == IF 5 * Limit < MinPool THEN MinPool ELSE Least(5 * Limit, MaxPool)

\* The subsets of S that are as large as the bound n allows.
Cut(S, n) == {T \in SUBSET S : Cardinality(T) = Least(n, Cardinality(S))}

-----------------------------------------------------------------------------
(* The engine *)

\* (mutant: last_accessed is left at its zero value)
NewUsage_NotAccessed(created, level) ==
  [access_count |-> 0, last_accessed |-> 0,
   confidence |-> level, given |-> level, served |-> 0]

\* INSERT: never accessed but by its creation.
NewUsage(created, level) ==
  [access_count |-> 0, last_accessed |-> created,
   confidence |-> level, given |-> level, served |-> 0]

\* A step of the storage core.  A new row has the level of the request, which
\* for a summary is Inferred; the end of the process ends the recalls.
EngineStep ==
  /\ Next
  /\ \E level \in Confidences :
       usage' = [i \in DOMAIN memories' |->
         IF i \in Rows THEN usage[i]
         ELSE LET c == IF \E t \in Tasks : job[t].fresh = i /\ job[t].call = "compress"
                       THEN "inferred" ELSE level
              IN  NewUsage(memories'[i].created_at, c)]
  /\ reader' = IF up' THEN reader ELSE [r \in Readers |-> Resting]

-----------------------------------------------------------------------------
(* recall_query *)

Reading(r, j) == reader' = [reader EXCEPT ![r] = j]

\* The filters no passing of time and no access can make a row pass again ...
Wanted(i, q, clock) ==
  /\ q.no_clutter => ~memories[i].clutter
  /\ q.include_superseded \/ memories[i].superseded_by = NoId
  /\ \/ q.include_expired
     \/ memories[i].expires_at = Never
     \/ memories[i].expires_at > clock
  /\ memories[i].created_at \in q.created_after..q.created_before

\* Not accessed for twice the half-life of its type.
Stale(i, clock) == clock - usage[i].last_accessed >= StaleAfter[memories[i].clutter]

\* ... and what the row of a hit must be to become an item.
Qualifies(i, q, clock) == Wanted(i, q, clock) /\ (q.only_stale => Stale(i, clock))

\* A call of another task is at work on row i.
InFlight(i) == \E t \in Tasks : job[t].pc # "idle" /\ job[t].fresh = i

\* The query is embedded; an inverted creation window is refused.
Call(r) ==
  /\ up /\ reader[r].pc = "idle"
  /\ \A i \in Rows : usage[i].access_count < MaxAccess
  /\ \E q \in Queries[r] :
       /\ q.created_after <= q.created_before
       /\ Reading(r, [Resting EXCEPT
         !.pc = "search", !.query = q,
         !.barred = {i \in 1..issued : IF i \in Rows THEN ~Wanted(i, q, now) ELSE ~InFlight(i)},
         !.owed = {i \in Active : ~InFlight(i)}])
  /\ UNCHANGED <<vars, usage>>

\* (mutant: the store is asked for no more than the caller wants)
Search_PoolIsLimit(r) ==
  /\ reader[r].pc = "search"
  /\ \E hits \in Cut(index, Limit) :
       Reading(r, IF hits = {} THEN Resting
                  ELSE [reader[r] EXCEPT !.pc = "fetch", !.clock = now, !.hits = hits])
  /\ UNCHANGED <<vars, usage>>

\* The store returns the most similar vectors; no hits, no items.  The clock is
\* read before the connection is locked.
Search(r) ==
  /\ reader[r].pc = "search"
  /\ \E hits \in Cut(index, Pool) :
       Reading(r, IF hits = {} THEN Resting
                  ELSE [reader[r] EXCEPT !.pc = "fetch", !.clock = now, !.hits = hits])
  /\ UNCHANGED <<vars, usage>>

\* (mutant: the filters other than no_clutter are left to the index)
Fetch_TrustsIndex(r) ==
  /\ reader[r].pc = "fetch"
  /\ \E kept \in Cut({i \in reader[r].hits \cap Rows :
                       reader[r].query.no_clutter => ~memories[i].clutter}, Limit) :
       Reading(r, IF kept = {} THEN Resting
                  ELSE [reader[r] EXCEPT !.pc = "bump", !.items = kept])
  /\ UNCHANGED <<vars, usage>>

\* The rows of the hits are read, filtered, ranked and cut.  A hit without a
\* row is skipped.
Fetch(r) ==
  /\ reader[r].pc = "fetch"
  /\ \E kept \in Cut({i \in reader[r].hits \cap Rows :
                       Qualifies(i, reader[r].query, reader[r].clock)}, Limit) :
       Reading(r, IF kept = {} THEN Resting
                  ELSE [reader[r] EXCEPT
                          !.pc = "bump",
                          !.items = kept,
                          !.seen = [i \in Ids |-> IF i \in kept THEN usage[i].access_count ELSE 0],
                          !.owed = {i \in @ \cap Active :
                                     Qualifies(i, reader[r].query, reader[r].clock)}])
  /\ UNCHANGED <<vars, usage>>

\* (mutant: promoted by the count before the access)
Promoted_OldCount(u) ==
  IF u.confidence = "inferred" /\ u.access_count >= Threshold
  THEN "reinforced" ELSE u.confidence

\* (mutant: the CASE names the two levels and forgets the third)
Promoted_ElseInferred(u) ==
  IF u.confidence = "reinforced" \/ (u.confidence = "inferred" /\ u.access_count + 1 >= Threshold)
  THEN "reinforced" ELSE "inferred"

\* CASE WHEN confidence = 'inferred' AND access_count + 1 >= threshold
Promoted(u) ==
  IF u.confidence = "inferred" /\ u.access_count + 1 >= Threshold
  THEN "reinforced" ELSE u.confidence

\* (mutant: the count that was fetched is written back, plus one)
Bump_Fetched(r) ==
  /\ reader[r].pc = "bump"
  /\ usage' = [i \in Rows |->
       IF i \in reader[r].items
       THEN [usage[i] EXCEPT !.access_count = reader[r].seen[i] + 1,
                             !.last_accessed = reader[r].clock, !.confidence = Promoted(usage[i]), !.served = @ + 1]
       ELSE usage[i]]
  /\ Reading(r, [reader[r] EXCEPT !.pc = "refetch"])
  /\ UNCHANGED vars

\* SET access_count = access_count + 1, last_accessed = clock, confidence = ...
Accessed(u, clock) ==
  [access_count |-> u.access_count + 1, last_accessed |-> clock,
   confidence |-> Promoted(u), given |-> u.given, served |-> u.served + 1]

\* One UPDATE of the items that still have a row.
Bump(r) ==
  /\ reader[r].pc = "bump"
  /\ usage' = [i \in Rows |-> IF i \in reader[r].items
                              THEN Accessed(usage[i], reader[r].clock) ELSE usage[i]]
  /\ Reading(r, [reader[r] EXCEPT !.pc = "refetch"])
  /\ UNCHANGED vars

\* (mutant: the items are returned as they were fetched)
Answer_AsFetched(r, i) == reader[r].seen[i]

\* The count returned with item i: read again, or as fetched if the row is gone.
Answer(r, i) == IF i \in Rows THEN usage[i].access_count ELSE reader[r].seen[i]

Refetch(r) ==
  /\ reader[r].pc = "refetch"
  /\ Reading(r, Resting)
  /\ UNCHANGED <<vars, usage>>

\* The embedder, the store or SQLite fails: what was bumped stays bumped.
RecallFails(r) ==
  /\ reader[r].pc # "idle"
  /\ Reading(r, Resting)
  /\ UNCHANGED <<vars, usage>>

ReaderStep(r) ==
  Call(r) \/ Search(r) \/ Fetch(r) \/ Bump(r) \/ Refetch(r) \/ RecallFails(r)

RecallNext == EngineStep \/ \E r \in Readers : ReaderStep(r)

RecallSpec == RecallInit /\ [][RecallNext]_recallVars

-----------------------------------------------------------------------------
(* Properties *)

\* Every recall that bumped a memory has counted, however recalls of the same
\* memory interleave with each other and with writers.
NoAccessLost == \A i \in Rows : usage[i].access_count = usage[i].served

\* A memory stored as Inferred is Reinforced from its threshold-th access on
\* and not before; no other level ever changes.
PromotedExactly ==
  \A i \in Rows :
    usage[i].confidence = IF usage[i].given = "inferred" /\ usage[i].served >= Threshold
                          THEN "reinforced" ELSE usage[i].given

\* What was forgotten, superseded or expired when the recall was called (and
\* not asked for) is not among its items, whatever the index still holds.
NothingBarred ==
  \A r \in Readers : reader[r].barred \cap reader[r].items = {}

\* A memory whose store had returned before the recall was called, and that is
\* still active when the rows are read, is on its way to the caller at every
\* section, unless the pool or the limit is full of others.
FindsWhatIsThere ==
  \A r \in Readers :
    LET due == {i \in reader[r].owed \cap Active : Qualifies(i, reader[r].query, now)} IN
    CASE reader[r].pc = "search" -> due \subseteq index
      [] reader[r].pc = "fetch" ->
           due \subseteq reader[r].hits \/ Cardinality(reader[r].hits) = Pool
      [] reader[r].pc \in {"bump", "refetch"} ->
           \/ reader[r].owed \cap reader[r].hits \subseteq reader[r].items
           \/ Cardinality(reader[r].items) = Limit
      [] OTHER -> TRUE

\* The access count returned with an item includes this very recall.
ReturnsOwnAccess ==
  \A r \in Readers : reader[r].pc = "refetch" =>
    \A i \in reader[r].items \cap Rows : Answer(r, i) > reader[r].seen[i]

\* A memory is never accessed before it was created nor in the future: the one
\* clock reading a recall goes by is taken after the hits are known, and the
\* index holds committed rows only.
AccessClockSane ==
  \A i \in Rows :
    memories[i].created_at <= usage[i].last_accessed /\ usage[i].last_accessed <= now
=============================================================================
