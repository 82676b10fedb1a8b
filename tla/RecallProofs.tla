---------------------------- MODULE RecallProofs ----------------------------
(***************************************************************************)
(* Theorems about Recall and Queries, for any number of readers, queries,  *)
(* limits and thresholds, beside any tasks and faults of the storage core  *)
(* (that they find all that is there: beside those that keep it            *)
(* searchable).                                                            *)
(***************************************************************************)
EXTENDS Recall, Queries, SettledProofs, FiniteSetTheorems

-----------------------------------------------------------------------------
(* Recalls and the storage core *)

\* A step of Recall is a step of the storage core or leaves it alone.
LEMMA CoreStep == [RecallNext]_recallVars => [Next]_vars
<1> SUFFICES ASSUME [RecallNext]_recallVars PROVE [Next]_vars
  OBVIOUS
<1>1. CASE EngineStep
  BY <1>1 DEF EngineStep
<1>2. ASSUME NEW r \in Readers, ReaderStep(r) PROVE UNCHANGED vars
  BY <1>2 DEF ReaderStep, Call, Search, Fetch, Bump, Refetch, RecallFails
<1>3. CASE UNCHANGED recallVars
  BY <1>3 DEF recallVars
<1> QED BY <1>1, <1>2, <1>3 DEF RecallNext

\* Recalls change nothing of what the storage core promises.
THEOREM CoreUnaffected == RecallSpec => Spec
<1>1. RecallInit => Init
  BY DEF RecallInit
<1> QED BY <1>1, CoreStep, PTL DEF RecallSpec, Spec

\* In particular the database still passes the checks of the next open.
THEOREM ReopensWithRecalls == RecallSpec => []DatabaseReopens
<1> QED BY CoreUnaffected, AlwaysReopens, PTL

-----------------------------------------------------------------------------
(* What a recall holds *)

\* The hits of a recall are committed ids, none created after the clock reading
\* the recall goes by; the items are among the hits.
Searched(r) ==
  /\ reader[r].pc \in {"fetch", "bump", "refetch"}
  /\ reader[r].clock \in 0..now
  /\ reader[r].hits \subseteq 1..issued /\ reader[r].hits \cap Drafts = {}
  /\ \A i \in reader[r].hits \cap Rows : memories[i].created_at <= reader[r].clock

\* What is not to be found stays unfit for the query, whatever happens to it:
\* a row the filters reject at the clock given, or an id that is gone for good.
Barred(r, clock) ==
  /\ reader[r].query \in Query
  /\ reader[r].barred \subseteq 1..issued /\ reader[r].barred \cap Drafts = {}
  /\ \A i \in reader[r].barred \cap Rows : ~Wanted(i, reader[r].query, clock)

\* The items a recall is about to bump, or has bumped.
Chosen(r) ==
  /\ reader[r].items \subseteq reader[r].hits
  /\ reader[r].items \cap reader[r].barred = {}
  /\ \A i \in reader[r].items \cap Rows :
       IF reader[r].pc = "bump" THEN usage[i].access_count >= reader[r].seen[i]
                                ELSE usage[i].access_count > reader[r].seen[i]

ReaderOK(r) ==
  \/ reader[r] = Resting
  \/ reader[r].pc = "search" /\ reader[r].items = {} /\ Barred(r, now)
  \/ reader[r].pc = "fetch" /\ reader[r].items = {} /\ Searched(r) /\ Barred(r, reader[r].clock)
  \/ reader[r].pc \in {"bump", "refetch"} /\ Searched(r) /\ Chosen(r)

ReadersInv == reader \in [Readers -> Recalling] /\ \A r \in Readers : ReaderOK(r)

-----------------------------------------------------------------------------
(* Accesses and promotion *)

\* One row's columns: every access counted, the level what the count makes it,
\* the last access not before the creation.
SoundUsage(u, created, clock) ==
  /\ u \in Usage
  /\ u.access_count = u.served
  /\ u.confidence = IF u.given = "inferred" /\ u.served >= Threshold
                    THEN "reinforced" ELSE u.given
  /\ created <= u.last_accessed /\ u.last_accessed <= clock

UsageInv == usage \in [Rows -> Usage]
            /\ \A i \in Rows : SoundUsage(usage[i], memories[i].created_at, now)

\* The inductive invariant: storage core, readers and columns.
RecallInv == Sound /\ ReadersInv /\ UsageInv

\* A row is inserted with a sound usage.
LEMMA FreshUsage ==
  ASSUME NEW c \in Levels, NEW created \in Nat, NEW clock \in Nat, created <= clock
  PROVE  SoundUsage(NewUsage(created, c), created, clock)
BY RecallAssumption DEF SoundUsage, NewUsage, Usage, Levels

\* An access keeps a usage sound: exactly the threshold-th one promotes.
LEMMA BumpedUsage ==
  ASSUME NEW u, NEW created \in Nat, NEW now1 \in Nat, SoundUsage(u, created, now1),
         NEW clock \in Nat, created <= clock, clock <= now1
  PROVE  SoundUsage(Accessed(u, clock), created, now1)
<1>1. /\ u \in Usage /\ u.access_count = u.served /\ u.served \in Nat /\ Threshold \in Nat
      /\ u.given \in Levels
      /\ u.confidence = IF u.given = "inferred" /\ u.served >= Threshold
                        THEN "reinforced" ELSE u.given
  BY RecallAssumption DEF SoundUsage, Usage
<1>2. Promoted(u) = IF u.given = "inferred" /\ u.served + 1 >= Threshold
                    THEN "reinforced" ELSE u.given
  BY <1>1 DEF Promoted
<1>3. Accessed(u, clock) \in Usage
  BY <1>1, <1>2 DEF Accessed, Usage, Levels
<1> QED BY <1>1, <1>2, <1>3 DEF Accessed, SoundUsage

\* Time that passes keeps it sound too.
LEMMA LaterUsage ==
  ASSUME NEW u, NEW created \in Nat, NEW now1 \in Nat, SoundUsage(u, created, now1),
         NEW now2 \in Nat, now1 <= now2
  PROVE  SoundUsage(u, created, now2)
BY DEF SoundUsage, Usage

\* The numbers of a row.
LEMMA RowNumbers ==
  ASSUME Sound
  PROVE  /\ now \in Nat /\ issued \in Nat /\ Rows \subseteq 1..issued /\ 1..issued \subseteq Ids
         /\ Rows \cap Drafts = {}
         /\ index \subseteq 1..issued /\ index \cap Drafts = {}
         /\ \A i \in Rows : /\ memories[i] \in Row /\ memories[i].created_at \in Nat
                            /\ memories[i].created_at <= now
  BY BoundAssumption DEF Sound, IInv, DbOK, Settled, Ids, Row

\* A reader that is in no recall.
LEMMA RestingOK == Resting \in Recalling
  BY RecallAssumption, BoundAssumption DEF Resting, Recalling, NoQuery, Query

\* The invariant holds initially.
LEMMA RecallInvInit == RecallInit => RecallInv
<1> SUFFICES ASSUME RecallInit PROVE RecallInv
  OBVIOUS
<1>1. Sound
  BY SoundInit DEF RecallInit
<1>2. Rows = {} /\ usage = [i \in {} |-> 0]
  BY DEF RecallInit, Init, Rows
<1>3. ReadersInv
  BY RestingOK DEF RecallInit, ReadersInv, ReaderOK
<1> QED BY <1>1, <1>2, <1>3 DEF UsageInv, RecallInv

-----------------------------------------------------------------------------
(* A step of the storage core *)

\* A filter that rejects a row goes on rejecting it.
LEMMA UnwantedForGood ==
  ASSUME Sound, NEW i \in Rows, i \in DOMAIN memories', RowKept(i),
         NEW q \in Query, NEW c1 \in Nat, NEW c2 \in Nat, c1 <= c2, ~Wanted(i, q, c1)
  PROVE  ~Wanted(i, q, c2)'
<1>1. memories[i] \in Row
  BY RowNumbers
<1> QED BY <1>1 DEF Wanted, RowKept, Row, Expiries, Never, Query

\* What a recall holds, and what it must not find, is safe from the core: ids
\* it knows never become drafts, rows do not come back.
LEMMA ReaderKept ==
  ASSUME RecallInv, [Next]_vars, NEW r \in Readers, reader'[r] = reader[r],
         \A i \in Rows \cap DOMAIN memories' : usage'[i] = usage[i]
  PROVE  ReaderOK(r)'
<1>0. /\ now \in Nat /\ now' \in Nat /\ now <= now' /\ issued \in Nat /\ issued' \in Nat
      /\ issued <= issued'
      /\ \A i \in Rows' : (i \in Rows /\ RowKept(i)) \/ i \in Drafts \ Rows
      /\ \A i \in 1..issued : i \in Drafts' => i \in Drafts
  <2>1. Sound'
    BY SoundNext DEF RecallInv
  <2> QED BY <2>1, RowHistory DEF RecallInv, Sound, IInv
<1>1. ASSUME Searched(r) PROVE Searched(r)'
  <2>1. reader[r].hits \subseteq 1..issued' /\ reader[r].hits \cap Drafts' = {}
    BY <1>0, <1>1 DEF Searched
  <2>2. \A i \in reader[r].hits \cap Rows' : memories'[i].created_at <= reader[r].clock
    BY <1>0, <1>1 DEF Searched, RowKept
  <2>3. reader[r].clock \in 0..now'
    BY <1>0, <1>1 DEF Searched
  <2> QED BY <1>1, <2>1, <2>2, <2>3 DEF Searched
<1>2. ASSUME NEW c1 \in Nat, NEW c2 \in Nat, c1 <= c2, Barred(r, c1) PROVE Barred(r, c2)'
  <2>1. reader[r].barred \subseteq 1..issued' /\ reader[r].barred \cap Drafts' = {}
    BY <1>0, <1>2 DEF Barred
  <2>2. ASSUME NEW i \in reader[r].barred, i \in Rows'
        PROVE  ~Wanted(i, reader[r].query, c2)'
    <3>1. i \in Rows /\ RowKept(i)
      BY <1>0, <1>2, <2>2 DEF Barred
    <3>2. PICK q \in Query : q = reader[r].query
      BY <1>2 DEF Barred
    <3>3. ~Wanted(i, q, c1)
      BY <1>2, <3>1, <3>2 DEF Barred
    <3>4. ~Wanted(i, q, c2)'
      BY <1>2, <2>2, <3>1, <3>3, UnwantedForGood DEF RecallInv, Rows
    <3> QED BY <3>2, <3>4
  <2> QED BY <1>2, <2>1, <2>2 DEF Barred
<1>3. ASSUME Chosen(r), Searched(r) PROVE Chosen(r)'
  <2>1. \A i \in reader[r].items \cap Rows' : i \in Rows /\ usage'[i] = usage[i]
    BY <1>0, <1>3 DEF Chosen, Searched, Rows
  <2> QED BY <1>3, <2>1 DEF Chosen
<1>4. ReaderOK(r)
  BY DEF RecallInv, ReadersInv
<1>5. CASE reader[r] = Resting
  BY <1>5 DEF ReaderOK
<1>6. CASE reader[r].pc = "search" /\ reader[r].items = {} /\ Barred(r, now)
  <2>1. PICK c1 \in Nat, c2 \in Nat : c1 = now /\ c2 = now' /\ c1 <= c2
    BY <1>0
  <2>2. Barred(r, c1)
    BY <1>6, <2>1
  <2>3. Barred(r, c2)'
    BY <1>2, <2>1, <2>2
  <2>4. Barred(r, now)'
    BY <2>1, <2>3 DEF Barred, Wanted
  <2> QED BY <1>6, <2>4 DEF ReaderOK
<1>7. CASE reader[r].pc = "fetch" /\ reader[r].items = {} /\ Searched(r)
           /\ Barred(r, reader[r].clock)
  <2>1. PICK c \in Nat : c = reader[r].clock
    BY <1>0, <1>7 DEF Searched
  <2>2. Barred(r, c)'
    BY <1>2, <1>7, <2>1
  <2>3. Barred(r, reader[r].clock)'
    BY <2>1, <2>2 DEF Barred, Wanted
  <2> QED BY <1>1, <1>7, <2>3 DEF ReaderOK
<1>8. CASE reader[r].pc \in {"bump", "refetch"} /\ Searched(r) /\ Chosen(r)
  BY <1>1, <1>3, <1>8 DEF ReaderOK
<1> QED BY <1>4, <1>5, <1>6, <1>7, <1>8 DEF ReaderOK

\* A step of the storage core keeps the invariant.
LEMMA EngineStepOK ==
  ASSUME RecallInv, EngineStep
  PROVE  ReadersInv' /\ UsageInv'
<1>0. /\ Next /\ [Next]_vars /\ Sound /\ Sound'
      /\ reader' = IF up' THEN reader ELSE [r \in Readers |-> Resting]
  BY SoundNext DEF EngineStep, RecallInv
<1>1. PICK level \in Confidences :
        usage' = [i \in DOMAIN memories' |->
          IF i \in Rows THEN usage[i]
          ELSE LET c == IF \E t \in Tasks : job[t].fresh = i /\ job[t].call = "compress"
                        THEN "inferred" ELSE level
               IN  NewUsage(memories'[i].created_at, c)]
  BY DEF EngineStep
<1>2. \A i \in Rows \cap DOMAIN memories' : usage'[i] = usage[i]
  BY <1>1
<1>3. ASSUME NEW r \in Readers PROVE ReaderOK(r)' /\ reader'[r] \in Recalling
  <2>1. CASE up'
    BY <1>0, <1>2, <2>1, ReaderKept DEF RecallInv, ReadersInv
  <2>2. CASE ~up'
    BY <1>0, <2>2, RestingOK DEF ReaderOK
  <2> QED BY <2>1, <2>2
<1>4. ReadersInv'
  BY <1>0, <1>3 DEF ReadersInv, RecallInv
<1>5. ASSUME NEW i \in Rows' PROVE SoundUsage(usage'[i], memories'[i].created_at, now')
  <2>0. /\ now \in Nat /\ now' \in Nat /\ now <= now'
        /\ memories'[i].created_at \in Nat /\ memories'[i].created_at <= now'
        /\ i \in Rows => RowKept(i)
    BY <1>0, RowHistory DEF Sound, IInv, DbOK, Settled, Row
  <2>1. CASE i \in Rows
    <3>1. usage'[i] = usage[i] /\ memories'[i].created_at = memories[i].created_at
      BY <1>2, <2>0, <2>1 DEF Rows, RowKept
    <3>2. SoundUsage(usage[i], memories[i].created_at, now)
      BY <2>1 DEF RecallInv, UsageInv
    <3> QED BY <2>0, <3>1, <3>2, LaterUsage
  <2>2. CASE i \notin Rows
    <3>1. level \in Levels /\ "inferred" \in Levels
      BY RecallAssumption DEF Levels
    <3>2. PICK c \in Levels : usage'[i] = NewUsage(memories'[i].created_at, c)
      BY <1>1, <2>2, <3>1 DEF Rows
    <3> QED BY <2>0, <3>2, FreshUsage
  <2> QED BY <2>1, <2>2
<1> QED BY <1>1, <1>4, <1>5 DEF UsageInv, Rows, SoundUsage

-----------------------------------------------------------------------------
(* A step of a recall *)

\* Another recall can only have counted more accesses.
LEMMA OtherReader ==
  ASSUME RecallInv, UNCHANGED vars, NEW r \in Readers, reader'[r] = reader[r],
         usage' \in [Rows -> Usage], \A i \in Rows : usage'[i].access_count >= usage[i].access_count
  PROVE  ReaderOK(r)'
<1>0. Rows' = Rows /\ Drafts' = Drafts /\ memories' = memories /\ issued' = issued /\ now' = now
  BY DEF vars, Rows, Drafts
<1>1. \A i \in Rows : usage[i].access_count \in Nat /\ usage'[i].access_count \in Nat
  BY DEF RecallInv, UsageInv, Usage
<1>2. ReaderOK(r) /\ reader[r].seen \in [Ids -> Nat] /\ reader[r].items \subseteq Ids
  BY DEF RecallInv, ReadersInv, Recalling
<1>3. Searched(r) => Searched(r)'
  BY <1>0 DEF Searched
<1>4. ASSUME NEW c, Barred(r, c) PROVE Barred(r, c)'
  BY <1>0, <1>4 DEF Barred, Wanted
<1>5. ASSUME Chosen(r) PROVE Chosen(r)'
  <2>1. ASSUME NEW i \in reader[r].items \cap Rows
        PROVE  IF reader[r].pc = "bump" THEN usage'[i].access_count >= reader[r].seen[i]
                                        ELSE usage'[i].access_count > reader[r].seen[i]
    <3>1. reader[r].seen[i] \in Nat /\ usage[i].access_count \in Nat /\ usage'[i].access_count \in Nat
          /\ usage'[i].access_count >= usage[i].access_count
      BY <1>1, <1>2
    <3>2. IF reader[r].pc = "bump" THEN usage[i].access_count >= reader[r].seen[i]
                                   ELSE usage[i].access_count > reader[r].seen[i]
      BY <1>5 DEF Chosen
    <3> QED BY <3>1, <3>2
  <2> QED BY <1>0, <1>5, <2>1 DEF Chosen
<1>6. Barred(r, now) => Barred(r, now)'
  BY <1>0 DEF Barred, Wanted
<1>7. Barred(r, reader[r].clock) => Barred(r, reader[r].clock)'
  BY <1>0 DEF Barred, Wanted
<1> QED BY <1>2, <1>3, <1>5, <1>6, <1>7 DEF ReaderOK

\* What a reader's step has to show of its own recall, if it bumps nothing.
LEMMA ReaderMoves ==
  ASSUME RecallInv, UNCHANGED <<vars, usage>>, NEW r \in Readers,
         NEW j \in Recalling, Reading(r, j), ReaderOK(r)'
  PROVE  RecallInv'
<1>1. Rows' = Rows /\ now' = now /\ memories' = memories
  BY DEF vars, Rows
<1>2. UsageInv'
  BY <1>1 DEF RecallInv, UsageInv
<1>3. \A i \in Rows : usage'[i].access_count >= usage[i].access_count
  BY DEF RecallInv, UsageInv, Usage
<1>4. usage' \in [Rows -> Usage]
  BY DEF RecallInv, UsageInv
<1>5. ASSUME NEW s \in Readers PROVE ReaderOK(s)'
  <2>1. s # r => reader'[s] = reader[s]
    BY DEF Reading, RecallInv, ReadersInv
  <2> QED BY <1>3, <1>4, <2>1, OtherReader
<1>6. reader' \in [Readers -> Recalling]
  BY DEF Reading, RecallInv, ReadersInv
<1>7. Sound'
  BY SoundNext DEF RecallInv
<1> QED BY <1>2, <1>5, <1>6, <1>7 DEF RecallInv, ReadersInv

\* A recall that ends or fails.
LEMMA RestOK ==
  ASSUME RecallInv, UNCHANGED <<vars, usage>>, NEW r \in Readers, Reading(r, Resting)
  PROVE  RecallInv'
<1>1. reader'[r] = Resting
  BY DEF Reading, RecallInv, ReadersInv
<1>2. ReaderOK(r)'
  BY <1>1 DEF ReaderOK
<1> QED BY <1>2, RestingOK, ReaderMoves

LEMMA CallOKs ==
  ASSUME RecallInv, NEW r \in Readers, Call(r)
  PROVE  RecallInv'
<1> DEFINE barred(q) == {i \in 1..issued : IF i \in Rows THEN ~Wanted(i, q, now) ELSE ~InFlight(i)}
           owed == {i \in Active : ~InFlight(i)}
           j(q) == [Resting EXCEPT !.pc = "search", !.query = q, !.barred = barred(q), !.owed = owed]
<1>0. Rows \subseteq Ids /\ 1..issued \subseteq Ids /\ Rows \cap Drafts = {}
  BY RowNumbers DEF RecallInv
<1>1. PICK q \in Queries[r] : Reading(r, j(q))
  BY DEF Call
<1>2. q \in Query
  BY RecallAssumption
<1>3. j(q) \in Recalling
  <2>1. barred(q) \subseteq Ids /\ owed \subseteq Ids
    BY <1>0 DEF Active
  <2> HIDE DEF barred, owed
  <2> QED BY <1>2, <2>1, RestingOK DEF Recalling, Resting
<1>4. reader'[r] = j(q)
  BY <1>1 DEF Reading, RecallInv, ReadersInv
<1>5. /\ reader'[r].pc = "search" /\ reader'[r].query = q /\ reader'[r].items = {}
      /\ reader'[r].barred = barred(q)
  BY <1>4 DEF Resting
<1>6. Drafts' = Drafts /\ Rows' = Rows /\ memories' = memories /\ now' = now /\ issued' = issued
  BY DEF Call, vars, Drafts, Rows
<1>7. barred(q) \cap Drafts = {}
  <2>1. ASSUME NEW i \in barred(q), i \in Drafts PROVE FALSE
    <3>1. i \notin Rows
      BY <1>0, <2>1
    <3>2. ~InFlight(i)
      BY <2>1, <3>1
    <3>3. PICK t \in Tasks : job[t].pc \in Writing /\ job[t].fresh = i
      BY <2>1 DEF Drafts
    <3> QED BY <3>2, <3>3 DEF InFlight, Writing
  <2> QED BY <2>1
<1>8. Barred(r, now)'
  <2>1. \A i \in barred(q) \cap Rows : ~Wanted(i, q, now)
    OBVIOUS
  <2>2. \A i \in barred(q) \cap Rows : ~Wanted(i, q, now)'
    BY <1>6, <2>1 DEF Wanted
  <2>3. barred(q) \subseteq 1..issued
    OBVIOUS
  <2> HIDE DEF barred
  <2> QED BY <1>2, <1>5, <1>6, <1>7, <2>2, <2>3 DEF Barred
<1>9. ReaderOK(r)'
  BY <1>5, <1>8 DEF ReaderOK
<1> HIDE DEF j
<1> QED BY <1>1, <1>3, <1>9, ReaderMoves DEF Call

LEMMA SearchOK ==
  ASSUME RecallInv, NEW r \in Readers, Search(r)
  PROVE  RecallInv'
<1>1. PICK hits \in SUBSET index :
        Reading(r, IF hits = {} THEN Resting
                   ELSE [reader[r] EXCEPT !.pc = "fetch", !.clock = now, !.hits = hits])
  BY DEF Search, Cut
<1>2. CASE hits = {}
  BY <1>1, <1>2, RestOK DEF Search
<1>3. CASE hits # {}
  <2> DEFINE j == [reader[r] EXCEPT !.pc = "fetch", !.clock = now, !.hits = hits]
  <2>0. /\ reader[r] \in Recalling /\ reader[r].pc = "search"
        /\ now \in Nat /\ issued \in Nat /\ 1..issued \subseteq Ids
        /\ index \subseteq 1..issued /\ index \cap Drafts = {}
        /\ \A i \in Rows : memories[i].created_at <= now
    BY RowNumbers DEF RecallInv, ReadersInv, Search
  <2>1. j \in Recalling
    BY <2>0 DEF Recalling
  <2>2. /\ reader'[r] = j /\ j.pc = "fetch" /\ j.clock = now /\ j.hits = hits
        /\ j.barred = reader[r].barred /\ j.query = reader[r].query /\ j.items = reader[r].items
    BY <1>1, <1>3, <2>0 DEF Reading, RecallInv, ReadersInv, Recalling
  <2>3. Drafts' = Drafts /\ Rows' = Rows /\ memories' = memories /\ now' = now /\ issued' = issued
    BY DEF Search, vars, Drafts, Rows
  <2>4. reader[r].items = {} /\ Barred(r, now)
    BY <2>0 DEF RecallInv, ReadersInv, ReaderOK, Resting
  <2> HIDE DEF j
  <2>5. Searched(r)'
    <3>1. reader'[r].hits \subseteq 1..issued' /\ reader'[r].hits \cap Drafts' = {}
      BY <1>1, <2>0, <2>2, <2>3
    <3>2. reader'[r].pc = "fetch" /\ reader'[r].clock \in 0..now'
      BY <2>0, <2>2, <2>3
    <3>3. \A i \in reader'[r].hits \cap Rows' : memories'[i].created_at <= reader'[r].clock
      BY <2>0, <2>2, <2>3
    <3> QED BY <3>1, <3>2, <3>3 DEF Searched
  <2>6. Barred(r, reader[r].clock)'
    BY <2>2, <2>3, <2>4 DEF Barred, Wanted
  <2>7. ReaderOK(r)'
    BY <2>2, <2>4, <2>5, <2>6 DEF ReaderOK
  <2>8. Reading(r, j)
    BY <1>1, <1>3 DEF j
  <2> QED BY <2>1, <2>7, <2>8, ReaderMoves DEF Search
<1> QED BY <1>2, <1>3

LEMMA FetchOK ==
  ASSUME RecallInv, NEW r \in Readers, Fetch(r)
  PROVE  RecallInv'
<1> DEFINE seen(S) == [i \in Ids |-> IF i \in S THEN usage[i].access_count ELSE 0]
           owed == {i \in reader[r].owed \cap Active :
                      Qualifies(i, reader[r].query, reader[r].clock)}
           j(S) == [reader[r] EXCEPT !.pc = "bump", !.items = S, !.seen = seen(S), !.owed = owed]
<1>0. reader[r] \in Recalling /\ reader[r].pc = "fetch" /\ Rows \subseteq Ids
  BY RowNumbers DEF RecallInv, ReadersInv, Fetch
<1>1. PICK kept \in SUBSET {i \in reader[r].hits \cap Rows :
                              Qualifies(i, reader[r].query, reader[r].clock)} :
        Reading(r, IF kept = {} THEN Resting ELSE j(kept))
  BY DEF Fetch, Cut
<1>2. CASE kept = {}
  BY <1>1, <1>2, RestOK DEF Fetch
<1>3. CASE kept # {}
  <2>1. seen(kept) \in [Ids -> Nat] /\ \A i \in kept : seen(kept)[i] = usage[i].access_count
    BY <1>0, <1>1 DEF RecallInv, UsageInv, Usage
  <2>2. j(kept) \in Recalling
    <3>1. kept \subseteq Ids /\ owed \subseteq Ids
      BY <1>0, <1>1 DEF Active
    <3> HIDE DEF seen, owed
    <3> QED BY <1>0, <2>1, <3>1 DEF Recalling
  <2>3. Reading(r, j(kept))
    BY <1>1, <1>3
  <2>4. /\ reader'[r] = j(kept) /\ j(kept).pc = "bump" /\ j(kept).clock = reader[r].clock
        /\ j(kept).hits = reader[r].hits /\ j(kept).items = kept /\ j(kept).seen = seen(kept)
        /\ j(kept).barred = reader[r].barred
    <3> HIDE DEF seen, owed
    <3> QED BY <1>0, <2>3 DEF Reading, RecallInv, ReadersInv, Recalling
  <2>5. /\ Drafts' = Drafts /\ Rows' = Rows /\ memories' = memories /\ now' = now
        /\ issued' = issued /\ usage' = usage
    BY DEF Fetch, vars, Drafts, Rows
  <2>6. Searched(r) /\ Barred(r, reader[r].clock)
    BY <1>0 DEF RecallInv, ReadersInv, ReaderOK, Resting
  <2>7. kept \cap reader[r].barred = {}
    BY <1>1, <2>6 DEF Barred, Qualifies
  <2>8. \A i \in kept : usage[i].access_count >= seen(kept)[i]
    BY <1>1, <2>1 DEF RecallInv, UsageInv, Usage
  <2> HIDE DEF j, seen
  <2>9. Searched(r)'
    BY <2>4, <2>5, <2>6 DEF Searched
  <2>10. Chosen(r)'
    BY <1>1, <2>4, <2>5, <2>7, <2>8 DEF Chosen
  <2>11. ReaderOK(r)'
    BY <2>4, <2>9, <2>10 DEF ReaderOK
  <2> QED BY <2>2, <2>3, <2>11, ReaderMoves DEF Fetch
<1> QED BY <1>2, <1>3

LEMMA BumpOK ==
  ASSUME RecallInv, NEW r \in Readers, Bump(r)
  PROVE  RecallInv'
<1> DEFINE j == [reader[r] EXCEPT !.pc = "refetch"]
<1>0. /\ reader[r] \in Recalling /\ reader[r].pc = "bump" /\ Searched(r) /\ Chosen(r)
      /\ now \in Nat
  BY RowNumbers DEF RecallInv, ReadersInv, Bump, ReaderOK, Resting
<1>1. /\ usage' = [i \in Rows |-> IF i \in reader[r].items
                                  THEN Accessed(usage[i], reader[r].clock) ELSE usage[i]]
      /\ Reading(r, j)
      /\ Drafts' = Drafts /\ Rows' = Rows /\ memories' = memories /\ now' = now
      /\ issued' = issued /\ UNCHANGED vars
  BY DEF Bump, vars, Drafts, Rows
<1>2. ASSUME NEW i \in Rows
      PROVE  SoundUsage(usage'[i], memories[i].created_at, now)
  <2>0. /\ SoundUsage(usage[i], memories[i].created_at, now)
        /\ memories[i].created_at \in Nat
    BY RowNumbers DEF RecallInv, UsageInv
  <2>1. CASE i \in reader[r].items
    <3>1. PICK c \in Nat : c = reader[r].clock
      BY <1>0 DEF Searched
    <3>2. memories[i].created_at <= c /\ c <= now
      BY <1>0, <2>1, <3>1 DEF Searched, Chosen
    <3>3. usage'[i] = Accessed(usage[i], c)
      BY <1>1, <2>1, <3>1
    <3> QED BY <1>0, <2>0, <3>2, <3>3, BumpedUsage
  <2>2. CASE i \notin reader[r].items
    BY <1>1, <2>0, <2>2
  <2> QED BY <2>1, <2>2
<1>3. usage' \in [Rows -> Usage]
  BY <1>1, <1>2 DEF SoundUsage
<1>4. ASSUME NEW i \in Rows
      PROVE  /\ usage[i].access_count \in Nat
             /\ usage'[i].access_count = IF i \in reader[r].items THEN usage[i].access_count + 1
                                                                  ELSE usage[i].access_count
  BY <1>1 DEF Accessed, RecallInv, UsageInv, Usage
<1>5. /\ reader'[r] = j /\ j \in Recalling /\ j.pc = "refetch" /\ j.clock = reader[r].clock
      /\ j.hits = reader[r].hits /\ j.items = reader[r].items /\ j.seen = reader[r].seen
      /\ j.barred = reader[r].barred
  BY <1>0, <1>1 DEF Reading, RecallInv, ReadersInv, Recalling
<1>6. ReaderOK(r)'
  <2> HIDE DEF j
  <2>0. /\ Drafts' = Drafts /\ Rows' = Rows /\ memories' = memories /\ now' = now
        /\ issued' = issued
    BY <1>1
  <2>1. Searched(r)'
    BY <1>0, <1>5, <2>0 DEF Searched
  <2>2. ASSUME NEW i \in reader[r].items \cap Rows
        PROVE  usage'[i].access_count > reader[r].seen[i]
    <3>1. reader[r].seen[i] \in Nat
      BY <1>0 DEF Recalling
    <3>2. usage[i].access_count >= reader[r].seen[i]
      BY <1>0 DEF Chosen
    <3> QED BY <1>4, <3>1, <3>2
  <2>3. Chosen(r)'
    BY <1>0, <1>1, <1>5, <2>2 DEF Chosen
  <2> QED BY <1>5, <2>1, <2>3 DEF ReaderOK
<1>7. ASSUME NEW s \in Readers PROVE ReaderOK(s)'
  <2>1. s # r => reader'[s] = reader[s]
    BY <1>1 DEF Reading, RecallInv, ReadersInv
  <2>2. \A i \in Rows : usage'[i].access_count >= usage[i].access_count
    BY <1>4
  <2> QED BY <1>1, <1>3, <1>6, <2>1, <2>2, OtherReader
<1>8. reader' \in [Readers -> Recalling]
  BY <1>1, <1>5 DEF Reading, RecallInv, ReadersInv
<1>9. Sound'
  BY <1>1, SoundNext DEF RecallInv
<1> QED BY <1>1, <1>2, <1>3, <1>7, <1>8, <1>9 DEF RecallInv, ReadersInv, UsageInv

\* Every step keeps the invariant.
LEMMA RecallInvNext == RecallInv /\ [RecallNext]_recallVars => RecallInv'
<1> SUFFICES ASSUME RecallInv, [RecallNext]_recallVars PROVE RecallInv'
  OBVIOUS
<1>1. CASE EngineStep
  BY <1>1, EngineStepOK, SoundNext DEF EngineStep, RecallInv
<1>2. ASSUME NEW r \in Readers, ReaderStep(r) PROVE RecallInv'
  <2>1. CASE Refetch(r) \/ RecallFails(r)
    BY <2>1, RestOK DEF Refetch, RecallFails
  <2> QED BY <1>2, <2>1, CallOKs, SearchOK, FetchOK, BumpOK DEF ReaderStep
<1>3. CASE UNCHANGED recallVars
  <2>1. Rows' = Rows /\ now' = now /\ memories' = memories
    BY <1>3 DEF recallVars, vars, Rows
  <2>2. UsageInv'
    BY <1>3, <2>1 DEF recallVars, RecallInv, UsageInv
  <2>3. \A r \in Readers : ReaderOK(r)'
    BY <1>3, OtherReader DEF recallVars, RecallInv, UsageInv, Usage
  <2>4. Sound'
    BY <1>3, SoundNext DEF recallVars, RecallInv
  <2> QED BY <1>3, <2>2, <2>3, <2>4 DEF recallVars, RecallInv, ReadersInv
<1> QED BY <1>1, <1>2, <1>3 DEF RecallNext

\* In every behaviour.
LEMMA AlwaysRecallInv == RecallSpec => []RecallInv
<1> QED BY RecallInvInit, RecallInvNext, PTL DEF RecallSpec

-----------------------------------------------------------------------------
(* Theorems *)

\* No access is lost, however recalls of one memory interleave (engine.rs 362-387).
THEOREM EveryAccessCounts == RecallSpec => []NoAccessLost
<1>1. RecallInv => NoAccessLost
  BY DEF RecallInv, UsageInv, SoundUsage, NoAccessLost
<1> QED BY <1>1, AlwaysRecallInv, PTL

\* An Inferred memory is Reinforced from its threshold-th access on, and no
\* other level changes (confidence.rs 14-46, engine.rs 371-375).
THEOREM PromotionIsExact == RecallSpec => []PromotedExactly
<1>1. RecallInv => PromotedExactly
  BY DEF RecallInv, UsageInv, SoundUsage, PromotedExactly
<1> QED BY <1>1, AlwaysRecallInv, PTL

\* The clock reading a recall stamps on its items is never older than they are,
\* however long it waited for the connection (engine.rs 264, 362-375).
THEOREM AccessNotBeforeCreation == RecallSpec => []AccessClockSane
<1>1. RecallInv => AccessClockSane
  BY DEF RecallInv, UsageInv, SoundUsage, AccessClockSane
<1> QED BY <1>1, AlwaysRecallInv, PTL

\* Nothing that was forgotten, superseded or expired when recall was called is
\* returned, whatever the index still holds (engine.rs 256-340): ids do not come
\* back, and what the filters reject they reject for good.
THEOREM NothingGoneIsFound == RecallSpec => []NothingBarred
<1>1. RecallInv => NothingBarred
  <2> SUFFICES ASSUME RecallInv, NEW r \in Readers PROVE reader[r].barred \cap reader[r].items = {}
    BY DEF NothingBarred
  <2>1. ReaderOK(r)
    BY DEF RecallInv, ReadersInv
  <2> QED BY <2>1 DEF ReaderOK, Resting, Chosen
<1> QED BY <1>1, AlwaysRecallInv, PTL

\* The count returned with an item includes this very recall (engine.rs 389-401).
THEOREM CountsItself == RecallSpec => []ReturnsOwnAccess
<1>1. RecallInv => ReturnsOwnAccess
  <2> SUFFICES ASSUME RecallInv, NEW r \in Readers, reader[r].pc = "refetch",
                      NEW i \in reader[r].items \cap Rows
               PROVE  Answer(r, i) > reader[r].seen[i]
    BY DEF ReturnsOwnAccess
  <2>1. Chosen(r)
    BY DEF RecallInv, ReadersInv, ReaderOK, Resting
  <2> QED BY <2>1 DEF Chosen, Answer
<1> QED BY <1>1, AlwaysRecallInv, PTL

-----------------------------------------------------------------------------
(* What a recall has to find *)

\* What is owed to a recall is written and inserted; its hits, and then its
\* items, are all of it or as many as there may be.
Finding(r) ==
  /\ reader[r].pc # "idle" => /\ up
                              /\ reader[r].owed \subseteq 1..issued
                              /\ reader[r].owed \cap Claimed = {}
  /\ reader[r].pc = "fetch" => \/ reader[r].owed \cap Active \subseteq reader[r].hits
                               \/ Cardinality(reader[r].hits) = Pool
  /\ reader[r].pc \in {"bump", "refetch"} =>
       \/ reader[r].owed \cap reader[r].hits \subseteq reader[r].items
       \/ Cardinality(reader[r].items) = Limit

FindInv == \A r \in Readers : Finding(r)

\* As many as there may be are all, or the most there may be.
LEMMA CutIsAll ==
  ASSUME NEW S, IsFiniteSet(S), NEW n \in Nat, NEW T \in Cut(S, n)
  PROVE  T = S \/ Cardinality(T) = n
<1>1. T \in SUBSET S /\ Cardinality(T) = Least(n, Cardinality(S))
  BY DEF Cut
<1>2. Cardinality(S) = Cardinality(T) => S = T
  BY <1>1, FS_Subset
<1> QED BY <1>1, <1>2 DEF Least

\* Issued ids are finitely many.
LEMMA IssuedFinite ==
  ASSUME NEW n \in Nat, NEW S \in SUBSET (1..n)
  PROVE  IsFiniteSet(S)
<1>1. IsFiniteSet(1..n)
  BY FS_Interval
<1> QED BY <1>1, FS_Subset

\* An issued id that no call may write stays so.
LEMMA ClaimedKept ==
  ASSUME Sound, [Next]_vars, NEW i \in 1..issued, i \in Claimed'
  PROVE  i \in Claimed
<1>1. PICK t \in Tasks : job'[t].pc \in Storing /\ job'[t].fresh = i
  BY DEF Claimed
<1>2. CASE job'[t] = job[t]
  BY <1>1, <1>2 DEF Claimed
<1>3. CASE Crash
  BY <1>1, <1>3 DEF Crash, Idle, Storing
<1>4. CASE Tick \/ Open \/ UNCHANGED vars
  BY <1>2, <1>4 DEF Tick, Open, vars
<1>5. ASSUME NEW u \in Tasks, Start(u) \/ Continue(u) PROVE i \in Claimed
  <2>1. Moves(u, job'[u])
    BY <1>5, StepMoves
  <2> QED BY <2>1, ClaimedMove
<1> QED BY <1>3, <1>4, <1>5 DEF Next

\* What is owed and active was so before: ids do not come back.
LEMMA ActiveKept ==
  ASSUME Sound, [Next]_vars, NEW i \in Active', i \in 1..issued, i \notin Claimed
  PROVE  i \in Active
<1>1. i \notin Drafts
  BY DEF Drafts, Claimed, Writing, Storing
<1>2. i \in Rows /\ RowKept(i) /\ now' >= now
  BY <1>1, RowHistory DEF Active
<1>3. now \in Nat /\ now' \in Nat /\ memories[i] \in Row
  <2>1. Sound'
    BY SoundNext
  <2> QED BY <1>2, <2>1, RowNumbers DEF Sound, IInv
<1>4. i \in Rows' /\ memories'[i].superseded_by = NoId
      /\ (memories'[i].expires_at = Never \/ ~(memories'[i].expires_at <= now'))
  BY DEF Active, Expired
<1>5. memories[i].expires_at \in Int
  BY <1>3 DEF Row, Expiries, Never
<1>6. memories[i].superseded_by = NoId
  BY <1>2, <1>4 DEF RowKept
<1> QED BY <1>2, <1>3, <1>4, <1>5, <1>6 DEF Active, Expired, RowKept

\* A step that leaves a recall alone leaves it what it has found.
LEMMA FindingKept ==
  ASSUME Sound, [Next]_vars, NEW r \in Readers, Finding(r), reader'[r] = reader[r],
         reader[r].pc # "idle" => up'
  PROVE  Finding(r)'
<1>1. CASE reader[r].pc = "idle"
  BY <1>1 DEF Finding
<1>2. CASE reader[r].pc # "idle"
  <2>1. issued \in Nat /\ issued' \in Nat /\ issued <= issued'
    <3>1. Sound'
      BY SoundNext
    <3> QED BY <3>1, RowHistory DEF Sound, IInv
  <2>2. reader[r].owed \subseteq 1..issued /\ reader[r].owed \cap Claimed = {}
    BY <1>2 DEF Finding
  <2>3. reader[r].owed \subseteq 1..issued' /\ reader[r].owed \cap Claimed' = {}
    BY <2>1, <2>2, ClaimedKept
  <2>4. reader[r].owed \cap Active' \subseteq reader[r].owed \cap Active
    BY <2>2, ActiveKept
  <2>5. Pool' = Pool
    BY DEF Pool, Least
  <2> QED BY <1>2, <2>3, <2>4, <2>5 DEF Finding
<1> QED BY <1>1, <1>2

LEMMA CallFinds ==
  ASSUME RecallInv, NEW r \in Readers, Call(r)
  PROVE  Finding(r)'
<1>1. /\ up' = up /\ up /\ issued' = issued /\ Claimed' = Claimed
      /\ reader'[r].pc = "search" /\ reader'[r].owed = {i \in Active : ~InFlight(i)}
  BY DEF Call, vars, Claimed, Reading, RecallInv, ReadersInv, Resting
<1>2. Active \subseteq 1..issued
  BY RowNumbers DEF RecallInv, Active
<1>3. \A i \in Claimed : InFlight(i)
  BY DEF Claimed, InFlight, Storing
<1> QED BY <1>1, <1>2, <1>3 DEF Finding

LEMMA SearchFinds ==
  ASSUME RecallInv, ActiveIsSearchable, NEW r \in Readers, Finding(r), Search(r)
  PROVE  Finding(r)'
<1>1. PICK hits \in Cut(index, Pool) :
        Reading(r, IF hits = {} THEN Resting
                   ELSE [reader[r] EXCEPT !.pc = "fetch", !.clock = now, !.hits = hits])
  BY DEF Search
<1>2. CASE hits = {}
  BY <1>1, <1>2 DEF Reading, Resting, RecallInv, ReadersInv, Finding
<1>3. CASE hits # {}
  <2>1. /\ reader[r] \in Recalling /\ reader[r].pc = "search" /\ up
        /\ reader[r].owed \subseteq 1..issued /\ reader[r].owed \cap Claimed = {}
    BY DEF Finding, Search, RecallInv, ReadersInv
  <2>2. reader'[r].pc = "fetch" /\ reader'[r].hits = hits /\ reader'[r].owed = reader[r].owed
    BY <1>1, <1>3, <2>1 DEF Reading, RecallInv, ReadersInv, Recalling
  <2>3. up' = up /\ issued' = issued /\ Claimed' = Claimed /\ Active' = Active
    BY DEF Search, vars, Claimed, Active, Rows, Expired
  <2>4. reader[r].owed \cap Active \subseteq index
    BY <2>1 DEF ActiveIsSearchable, Claimed, Storing
  <2>5. hits = index \/ Cardinality(hits) = Pool
    <3>1. Pool \in Nat
      BY RecallAssumption DEF Pool, Least
    <3>2. IsFiniteSet(index)
      <4>1. index \subseteq 1..issued /\ issued \in Nat
        BY RowNumbers DEF RecallInv
      <4> QED BY <4>1, IssuedFinite
    <3> QED BY <3>1, <3>2, CutIsAll
  <2>6. Pool' = Pool
    BY DEF Pool, Least
  <2> QED BY <2>1, <2>2, <2>3, <2>4, <2>5, <2>6 DEF Finding
<1> QED BY <1>2, <1>3

LEMMA FetchFinds ==
  ASSUME RecallInv, NEW r \in Readers, Finding(r), Fetch(r)
  PROVE  Finding(r)'
<1> DEFINE fit == {i \in reader[r].hits \cap Rows :
                     Qualifies(i, reader[r].query, reader[r].clock)}
           owed == {i \in reader[r].owed \cap Active :
                      Qualifies(i, reader[r].query, reader[r].clock)}
           seen(S) == [i \in Ids |-> IF i \in S THEN usage[i].access_count ELSE 0]
<1>1. PICK kept \in Cut(fit, Limit) :
        Reading(r, IF kept = {} THEN Resting
                   ELSE [reader[r] EXCEPT !.pc = "bump", !.items = kept,
                                          !.seen = seen(kept), !.owed = owed])
  BY DEF Fetch
<1>2. CASE kept = {}
  BY <1>1, <1>2 DEF Reading, Resting, RecallInv, ReadersInv, Finding
<1>3. CASE kept # {}
  <2>1. /\ reader[r] \in Recalling /\ reader[r].pc = "fetch" /\ up
        /\ reader[r].owed \subseteq 1..issued /\ reader[r].owed \cap Claimed = {}
    BY DEF Finding, Fetch, RecallInv, ReadersInv
  <2>2. kept = fit \/ Cardinality(kept) = Limit
    <3>1. Limit \in Nat
      BY RecallAssumption
    <3>2. IsFiniteSet(fit)
      <4>1. fit \subseteq 1..issued /\ issued \in Nat
        BY RowNumbers DEF RecallInv
      <4> HIDE DEF fit
      <4> QED BY <4>1, IssuedFinite
    <3> HIDE DEF fit
    <3> QED BY <3>1, <3>2, CutIsAll
  <2>3. owed \subseteq reader[r].owed /\ owed \cap reader[r].hits \subseteq fit
    BY DEF Active
  <2> HIDE DEF fit, owed, seen
  <2>4. /\ reader'[r].pc = "bump" /\ reader'[r].items = kept /\ reader'[r].owed = owed
        /\ reader'[r].hits = reader[r].hits
    BY <1>1, <1>3, <2>1 DEF Reading, RecallInv, ReadersInv, Recalling
  <2>5. up' = up /\ issued' = issued /\ Claimed' = Claimed
    BY DEF Fetch, vars, Claimed
  <2> QED BY <2>1, <2>2, <2>3, <2>4, <2>5 DEF Finding
<1> QED BY <1>2, <1>3

\* Every step of a recall, or beside it, keeps what it has found.
LEMMA FindNext ==
  ASSUME RecallInv, ActiveIsSearchable, FindInv, [RecallNext]_recallVars
  PROVE  FindInv'
<1>0. Sound /\ [Next]_vars /\ reader \in [Readers -> Recalling]
  BY CoreStep DEF RecallInv, ReadersInv
<1>1. CASE EngineStep
  <2>1. CASE up'
    BY <1>0, <1>1, <2>1, FindingKept DEF EngineStep, FindInv
  <2>2. CASE ~up'
    BY <1>1, <2>2 DEF EngineStep, FindInv, Finding, Resting
  <2> QED BY <2>1, <2>2
<1>2. ASSUME NEW r \in Readers, ReaderStep(r) PROVE FindInv'
  <2>1. UNCHANGED vars /\ up' = up
    BY <1>2 DEF ReaderStep, Call, Search, Fetch, Bump, Refetch, RecallFails, vars
  <2>2. ASSUME NEW s \in Readers, s # r PROVE Finding(s)'
    <3>1. reader'[s] = reader[s]
      BY <1>0, <1>2, <2>2
         DEF ReaderStep, Call, Search, Fetch, Bump, Refetch, RecallFails, Reading
    <3> QED BY <1>0, <2>1, <3>1, FindingKept DEF FindInv, Finding
  <2>3. Finding(r)'
    <3>1. CASE Bump(r)
      <4>1. /\ reader'[r].pc = "refetch" /\ reader'[r].owed = reader[r].owed
            /\ reader'[r].hits = reader[r].hits /\ reader'[r].items = reader[r].items
            /\ reader[r].pc = "bump"
        BY <1>0, <3>1 DEF Bump, Reading, Recalling
      <4>2. issued' = issued /\ Claimed' = Claimed
        BY <2>1 DEF vars, Claimed
      <4> QED BY <2>1, <4>1, <4>2 DEF FindInv, Finding
    <3>2. CASE Refetch(r) \/ RecallFails(r)
      BY <1>0, <3>2 DEF Refetch, RecallFails, Reading, Resting, Finding
    <3> QED BY <1>2, <3>1, <3>2, CallFinds, SearchFinds, FetchFinds DEF ReaderStep, FindInv
  <2> QED BY <2>2, <2>3 DEF FindInv
<1>3. CASE UNCHANGED recallVars
  BY <1>0, <1>3, FindingKept DEF recallVars, vars, FindInv, Finding
<1> QED BY <1>1, <1>2, <1>3 DEF RecallNext

\* A memory whose store had returned when recall was called, and that is active
\* and passes the filters when the rows are read, is returned, unless the pool or
\* the limit is full of others (engine.rs 256-360): wherever ActiveIsSearchable
\* holds, nothing that happens between the sections of a recall hides a memory.
THEOREM FindsActive ==
  ASSUME NoReconciliation, Canonical, ~SqlFails
  PROVE  RecallSpec => []FindsWhatIsThere
<1>1. RecallInit => FindInv
  BY DEF RecallInit, FindInv, Finding, Resting
<1>2. RecallInv /\ ActiveIsSearchable /\ FindInv /\ [RecallNext]_recallVars => FindInv'
  BY FindNext
<1>3. RecallInv /\ ActiveIsSearchable /\ FindInv => FindsWhatIsThere
  <2> SUFFICES ASSUME RecallInv, ActiveIsSearchable, FindInv, NEW r \in Readers
               PROVE  LET due == {i \in reader[r].owed \cap Active :
                                    Qualifies(i, reader[r].query, now)} IN
                      /\ reader[r].pc = "search" => due \subseteq index
                      /\ reader[r].pc = "fetch" =>
                           due \subseteq reader[r].hits \/ Cardinality(reader[r].hits) = Pool
                      /\ reader[r].pc \in {"bump", "refetch"} =>
                           \/ reader[r].owed \cap reader[r].hits \subseteq reader[r].items
                           \/ Cardinality(reader[r].items) = Limit
    BY DEF FindsWhatIsThere
  <2>1. Finding(r)
    BY DEF FindInv
  <2>2. reader[r].pc = "search" => reader[r].owed \cap Active \subseteq index
    BY <2>1 DEF Finding, ActiveIsSearchable, Claimed, Storing
  <2> QED BY <2>1, <2>2 DEF Finding
<1> QED BY <1>1, <1>2, <1>3, AlwaysRecallInv, CoreUnaffected, ActiveAreSearchable, PTL DEF RecallSpec

-----------------------------------------------------------------------------
(* The read-only methods *)

\* What the methods that select live memories agree on: activity and staleness
\* are the same in each of the forms the engine writes them in.
LEMMA RecallAgrees ==
  ASSUME RecallInv PROVE StaleAgree
<1>1. /\ now \in Nat /\ now <= MaxTime /\ MaxTime \in Nat
      /\ \A i \in Rows : /\ memories[i] \in Row /\ memories[i].created_at \in 0..now
                         /\ memories[i].expires_at = Never \/ memories[i].expires_at \in Nat
  BY RowNumbers, BoundAssumption DEF RecallInv, Sound, IInv, Row, Expiries
<1>2. \A i \in Rows : /\ usage[i].last_accessed \in memories[i].created_at..now
                      /\ StaleAfter[memories[i].clutter] \in Nat
  BY <1>1, RecallAssumption DEF RecallInv, UsageInv, SoundUsage, Usage, Row
<1>3. /\ NoQuery.include_superseded = FALSE /\ NoQuery.include_expired = FALSE
      /\ NoQuery.no_clutter = FALSE /\ NoQuery.only_stale = FALSE
      /\ NoQuery.created_after = 0 /\ NoQuery.created_before = MaxTime
  BY DEF NoQuery
<1>4. \A i \in Rows : Wanted(i, NoQuery, now) <=> i \in ActiveMemories
  BY <1>1, <1>3 DEF Wanted, ActiveMemories
<1>5. ActiveMemories = {i \in Rows : Qualifies(i, NoQuery, now)}
  BY <1>3, <1>4 DEF Qualifies, ActiveMemories
<1>6. ActiveMemories = Active
  BY <1>1 DEF ActiveMemories, Active, Expired, Never
<1>7. Active = {i \in Rows : memories[i].superseded_by = NoId} \ ExpiredRows
  BY DEF Active, ExpiredRows
<1>8. StaleMemories = {i \in Rows : Qualifies(i, [NoQuery EXCEPT !.only_stale = TRUE], now)}
  <2> DEFINE q == [NoQuery EXCEPT !.only_stale = TRUE]
  <2>1. /\ q.include_superseded = FALSE /\ q.include_expired = FALSE
        /\ q.no_clutter = FALSE /\ q.only_stale = TRUE
        /\ q.created_after = 0 /\ q.created_before = MaxTime
    BY DEF NoQuery
  <2> HIDE DEF q
  <2>2. \A i \in Rows : Wanted(i, q, now) <=> Wanted(i, NoQuery, now)
    BY <1>3, <2>1 DEF Wanted
  <2>3. \A i \in Rows : Qualifies(i, q, now) <=> i \in ActiveMemories /\ Stale(i, now)
    BY <1>4, <2>1, <2>2 DEF Qualifies
  <2>4. StaleMemories = {i \in Rows : Qualifies(i, q, now)}
    BY <2>3 DEF StaleMemories, Stale, ActiveMemories
  <2> QED BY <2>4 DEF q
<1>9. StaleMemories =
        {i \in ActiveMemories : i \notin TouchedSince(now + 1 - StaleAfter[memories[i].clutter])}
  <2>1. \A i \in ActiveMemories :
          now - usage[i].last_accessed >= StaleAfter[memories[i].clutter]
            <=> i \notin TouchedSince(now + 1 - StaleAfter[memories[i].clutter])
    BY <1>1, <1>2 DEF TouchedSince, ActiveMemories
  <2> QED BY <2>1 DEF StaleMemories
<1>10. \A start, end \in 0..MaxTime :
         CreatedWithin(start, end) =
           {i \in Rows : Qualifies(i, [EveryRow EXCEPT !.created_after = start,
                                                       !.created_before = end], now)}
  <2> SUFFICES ASSUME NEW start \in 0..MaxTime, NEW end \in 0..MaxTime
               PROVE  CreatedWithin(start, end) =
                        {i \in Rows : Qualifies(i, [EveryRow EXCEPT !.created_after = start,
                                                                    !.created_before = end], now)}
    OBVIOUS
  <2> DEFINE q == [EveryRow EXCEPT !.created_after = start, !.created_before = end]
  <2>1. /\ q.include_superseded = TRUE /\ q.include_expired = TRUE
        /\ q.no_clutter = FALSE /\ q.only_stale = FALSE
        /\ q.created_after = start /\ q.created_before = end
    BY DEF EveryRow, NoQuery
  <2> HIDE DEF q
  <2>2. \A i \in Rows : Qualifies(i, q, now) <=>
          memories[i].created_at >= start /\ memories[i].created_at <= end
    BY <1>1, <2>1 DEF Qualifies, Wanted
  <2>3. CreatedWithin(start, end) = {i \in Rows : Qualifies(i, q, now)}
    BY <2>2 DEF CreatedWithin
  <2> QED BY <2>3 DEF q
<1>11. Stats.expired = Cardinality(ExpiredRows \ {i \in Rows : memories[i].expires_at = now})
  <2>1. {i \in Rows : memories[i].expires_at # Never /\ memories[i].expires_at < now}
          = ExpiredRows \ {i \in Rows : memories[i].expires_at = now}
    BY <1>1 DEF ExpiredRows, Expired
  <2> QED BY <2>1 DEF Stats, ExpiredCount
<1> QED BY <1>5, <1>6, <1>7, <1>8, <1>9, <1>10, <1>11 DEF StaleAgree

\* The methods agree in every state (engine.rs 772-825, 885-886, 1042-1052).
THEOREM QueriesAgree == RecallSpec => []StaleAgree
<1> QED BY RecallAgrees, AlwaysRecallInv, PTL

\* More of the same rows: a count over a finite table that gains members.
LEMMA CountGrows ==
  ASSUME Sound', NEW S, NEW T, S \subseteq T, T \subseteq Rows'
  PROVE  Cardinality(S) <= Cardinality(T)
<1>1. IsFiniteSet(T)
  <2>1. \A n \in Nat : \A U \in SUBSET (1..n) : IsFiniteSet(U)
    BY IssuedFinite
  <2>2. issued' \in Nat /\ Rows' \subseteq 1..issued'
    BY DEF Sound, IInv, DbOK, Settled
  <2> QED BY <2>1, <2>2
<1> QED BY <1>1, FS_Subset

\* A step that deletes nothing keeps every row superseded that is, lets it
\* expire, and lowers no level but from Inferred to Reinforced.
LEMMA RowsProgress ==
  ASSUME RecallInv, [RecallNext]_recallVars, Rows \subseteq Rows', NEW i \in Rows
  PROVE  /\ RowKept(i) /\ now' >= now
         /\ usage[i].confidence \in {"explicit", "reinforced"} =>
              usage'[i].confidence = usage[i].confidence
<1>1. RowKept(i) /\ now' >= now
  <2>1. i \in Rows'
    OBVIOUS
  <2> QED BY <2>1, CoreStep, RowHistory DEF RecallInv
<1>2. CASE EngineStep
  BY <1>1, <1>2 DEF EngineStep, Rows
<1>3. ASSUME NEW r \in Readers, ReaderStep(r)
      PROVE  usage[i].confidence \in {"explicit", "reinforced"} =>
               usage'[i].confidence = usage[i].confidence
  <2>1. CASE Bump(r)
    BY <2>1 DEF Bump, Accessed, Promoted
  <2>2. CASE ~Bump(r)
    BY <1>3, <2>2 DEF ReaderStep, Call, Search, Fetch, Refetch, RecallFails
  <2> QED BY <2>1, <2>2
<1>4. CASE UNCHANGED recallVars
  BY <1>1, <1>4 DEF recallVars
<1> QED BY <1>1, <1>2, <1>3, <1>4 DEF RecallNext

\* No count stats() makes of what happens to memories falls while nothing is
\* deleted (engine.rs 1059-1143), whatever is stored, updated, compressed or
\* recalled in between.
THEOREM CountsNeverFall == RecallSpec => StatsNeverFall
<1>1. ASSUME RecallInv, [RecallNext]_recallVars, Rows \subseteq Rows'
      PROVE  /\ SupersededCount <= SupersededCount'
             /\ ExpiredCount <= ExpiredCount'
             /\ \A level \in {"explicit", "reinforced"} : CountBy(level) <= CountBy(level)'
  <2>0. /\ Sound' /\ \A i \in Rows : i \in Rows' /\ RowKept(i) /\ now' >= now
        /\ now \in Nat /\ now' \in Nat
        /\ \A i \in Rows : memories[i].expires_at \in Int
        /\ \A i \in Rows : usage[i].confidence \in {"explicit", "reinforced"} =>
             usage'[i].confidence = usage[i].confidence
    <3>1. Sound' /\ now \in Nat /\ now' \in Nat
      BY <1>1, CoreStep, SoundNext DEF RecallInv, Sound, IInv
    <3>2. \A i \in Rows : memories[i].expires_at \in Int
      BY <1>1, RowNumbers DEF RecallInv, Row, Expiries, Never
    <3> QED BY <1>1, <3>1, <3>2, RowsProgress
  <2>1. SupersededCount <= SupersededCount'
    <3> DEFINE S == {i \in Rows : memories[i].superseded_by # NoId}
               T == {i \in Rows' : memories'[i].superseded_by # NoId}
    <3>1. S \subseteq T /\ T \subseteq Rows'
      BY <2>0 DEF RowKept
    <3> HIDE DEF S, T
    <3>2. Cardinality(S) <= Cardinality(T)
      BY <2>0, <3>1, CountGrows
    <3> QED BY <3>2 DEF S, T, SupersededCount
  <2>2. ExpiredCount <= ExpiredCount'
    <3> DEFINE S == {i \in Rows : memories[i].expires_at # Never /\ memories[i].expires_at < now}
               T == {i \in Rows' : memories'[i].expires_at # Never /\ memories'[i].expires_at < now'}
    <3>1. S \subseteq T /\ T \subseteq Rows'
      BY <2>0 DEF RowKept
    <3> HIDE DEF S, T
    <3>2. Cardinality(S) <= Cardinality(T)
      BY <2>0, <3>1, CountGrows
    <3> QED BY <3>2 DEF S, T, ExpiredCount
  <2>3. ASSUME NEW level \in {"explicit", "reinforced"} PROVE CountBy(level) <= CountBy(level)'
    <3> DEFINE S == {i \in Rows : usage[i].confidence = level}
               T == {i \in Rows' : usage'[i].confidence = level}
    <3>1. S \subseteq T /\ T \subseteq Rows'
      BY <2>0
    <3> HIDE DEF S, T
    <3>2. Cardinality(S) <= Cardinality(T)
      BY <2>0, <3>1, CountGrows
    <3> QED BY <3>2 DEF S, T, CountBy
  <2> QED BY <2>1, <2>2, <2>3
<1>2. RecallInv /\ [RecallNext]_recallVars =>
        [\/ UNCHANGED <<memories, usage, now>>
         \/ ~ (Rows \subseteq Rows')
         \/ /\ SupersededCount <= SupersededCount'
            /\ ExpiredCount <= ExpiredCount'
            /\ \A level \in {"explicit", "reinforced"} : CountBy(level) <= CountBy(level)']_recallVars
  BY <1>1
<1> QED BY <1>2, AlwaysRecallInv, PTL DEF RecallSpec, StatsNeverFall
=============================================================================
