------------------------------ MODULE Queries ------------------------------
(***************************************************************************)
(* The read-only methods of MemoryEngine (engine.rs 738-825, 1053-1143):   *)
(* one SELECT, or several under one lock, over the tables of Recall.       *)
(***************************************************************************)
EXTENDS Recall, FiniteSetsExt

\* query_by_time_range; an inverted range is an error.
CreatedWithin(start, end) ==
  {i \in Rows : memories[i].created_at >= start /\ memories[i].created_at <= end}

\* created_or_accessed_since
TouchedSince(since) ==
  {i \in Rows : memories[i].created_at >= since \/ usage[i].last_accessed >= since}

\* (mutant: a memory counts as active up to and including its expiry)
ActiveMemories_AtExpiry ==
  {i \in Rows : /\ memories[i].superseded_by = NoId
                /\ memories[i].expires_at = Never \/ memories[i].expires_at >= now}

\* get_active_memories
ActiveMemories ==
  {i \in Rows : /\ memories[i].superseded_by = NoId
                /\ memories[i].expires_at = Never \/ memories[i].expires_at > now}

\* find_stale_memories
StaleMemories ==
  {i \in ActiveMemories :
     now - usage[i].last_accessed >= StaleAfter[memories[i].clutter]}

\* GROUP BY confidence
CountBy(level) == Cardinality({i \in Rows : usage[i].confidence = level})

SupersededCount == Cardinality({i \in Rows : memories[i].superseded_by # NoId})

\* (unlike the other methods, not in the second of the expiry)
ExpiredCount ==
  Cardinality({i \in Rows : memories[i].expires_at # Never /\ memories[i].expires_at < now})

\* stats.  An average is the truncated one, 0 of no rows.
Stats ==
  [total      |-> Cardinality(Rows),
   superseded |-> SupersededCount,
   expired    |-> ExpiredCount,
   by_type       |-> [clutter \in BOOLEAN |->
                       Cardinality({i \in Rows : memories[i].clutter = clutter})],
   by_confidence |-> [level \in Levels |-> CountBy(level)],
   average_access_count |->
     IF Rows = {} THEN 0
     ELSE MapThenSumSet(LAMBDA i : usage[i].access_count, Rows) \div Cardinality(Rows)]

-----------------------------------------------------------------------------
(* Properties *)

\* The query a memory passes whatever has become of it.
EveryRow == [NoQuery EXCEPT !.include_superseded = TRUE, !.include_expired = TRUE]

\* The methods that look for live memories mean the same by it: the active
\* ones are what a plain recall lets through, what a rebuild indexes and what
\* is neither superseded nor due for purge_expired; the stale ones what a
\* recall with only_stale lets through, and what created_or_accessed_since
\* does not list; a time range is the creation window of a recall.  stats alone
\* counts a memory as expired one second later than the others.
StaleAgree ==
  /\ ActiveMemories = {i \in Rows : Qualifies(i, NoQuery, now)}
  /\ ActiveMemories = Active
  /\ ActiveMemories = {i \in Rows : memories[i].superseded_by = NoId} \ ExpiredRows
  /\ StaleMemories = {i \in Rows : Qualifies(i, [NoQuery EXCEPT !.only_stale = TRUE], now)}
  /\ StaleMemories =
       {i \in ActiveMemories : i \notin TouchedSince(now + 1 - StaleAfter[memories[i].clutter])}
  /\ \A start, end \in 0..MaxTime :
       CreatedWithin(start, end) =
         {i \in Rows : Qualifies(i, [EveryRow EXCEPT !.created_after = start,
                                                     !.created_before = end], now)}
  /\ Stats.expired = Cardinality(ExpiredRows \ {i \in Rows : memories[i].expires_at = now})

\* Between two calls of stats the count of expired memories only grows, and so
\* do those of superseded, explicit and reinforced ones, as long as nothing is
\* deleted: no update, compression or recall revives a memory, prolongs one
\* that is stored, or takes back what the user stated or accesses confirmed.
StatsNeverFall ==
  [][\/ UNCHANGED <<memories, usage, now>>
     \/ ~ (Rows \subseteq Rows')
     \/ /\ SupersededCount <= SupersededCount'
        /\ ExpiredCount <= ExpiredCount'
        /\ \A level \in {"explicit", "reinforced"} : CountBy(level) <= CountBy(level)']_recallVars
=============================================================================
