------------------------ MODULE InMemoryVectorStore ------------------------
(***************************************************************************)
(* InMemoryVectorStore (vector_store/in_memory.rs) and validate_vector     *)
(* (vector_store/mod.rs): the default backend behind MemoryEngine's index. *)
(*                                                                         *)
(* Every method holds the lock of the map for as long as it looks at it,   *)
(* so a call is one action.  A vector is its similarity to the query at    *)
(* hand, or Bad: of another dimension or with a value that is not finite.  *)
(***************************************************************************)
EXTENDS Naturals, Sequences, FiniteSets, FiniteSetsExt, Sorting

CONSTANTS
  Uuids,    \* numbers: the order of Uuid
  Scores,   \* similarities
  Batches,  \* entries replace_all may be given: sequences of [id, vector]
  MaxHits   \* bound: k of a search

Bad     == 99  \* a vector validate_vector refuses
Vectors == Scores \cup {Bad}
Entry   == [id : Uuids, vector : Vectors]
Hit     == [id : Uuids, score : Scores]

ASSUME StoreAssumption ==
  /\ Uuids \subseteq Nat /\ Scores \subseteq Nat \ {Bad}
  /\ Batches \subseteq Seq(Entry) /\ MaxHits \in Nat

VARIABLES
  data,   \* the map
  told,   \* history: the content according to the answers the callers got
  asked,  \* k of the search that has just returned, or NoSearch
  hits    \* its answer

storeVars == <<data, told, asked, hits>>

NoSearch == MaxHits + 1

StoreInit ==
  /\ data = [i \in {} |-> Bad]
  /\ told = data
  /\ asked = NoSearch /\ hits = <<>>

\* validate_vector
Valid(v) == v # Bad

Answered == asked' = NoSearch /\ hits' = <<>>

With(map, id, v) == [i \in DOMAIN map \cup {id} |-> IF i = id THEN v ELSE map[i]]

Insert ==
  /\ \E id \in Uuids, v \in Vectors :
       IF Valid(v) THEN data' = With(data, id, v) /\ told' = With(told, id, v)
                   ELSE UNCHANGED <<data, told>>
  /\ Answered

Delete ==
  /\ \E id \in Uuids :
       /\ data' = [i \in DOMAIN data \ {id} |-> data[i]]
       /\ told' = [i \in DOMAIN told \ {id} |-> told[i]]
  /\ Answered

\* Inserted into an empty map one by one: of two entries with one id the later
\* stays.
Filled(entries) ==
  [i \in {entries[k].id : k \in DOMAIN entries} |->
     entries[Max({k \in DOMAIN entries : entries[k].id = i})].vector]

AllValid(entries) == \A k \in DOMAIN entries : Valid(entries[k].vector)

\* (mutant: the map is cleared and filled in place)
Replaced_InPlace(entries) ==
  IF AllValid(entries) THEN Filled(entries)
  ELSE Filled(SelectSeq(entries, LAMBDA e : Valid(e.vector)))

\* The entries are validated into a new map, which then replaces the old one.
Replaced(entries) == IF AllValid(entries) THEN Filled(entries) ELSE data

\* replace_all; clear() is the one without entries.
Replace ==
  /\ \E entries \in Batches :
       /\ data' = Replaced(entries)
       /\ told' = IF AllValid(entries) THEN Filled(entries) ELSE told
  /\ Answered

\* By score, the highest first; of equal ones by id.
Better(a, b) == a.score > b.score \/ (a.score = b.score /\ a.id < b.id)

\* All entries are scored, sorted and cut.  A query that is not valid is
\* refused before.
Search ==
  /\ \E k \in 0..MaxHits :
       LET all == Sorted({[id |-> i, score |-> data[i]] : i \in DOMAIN data}, Better) IN
       /\ asked' = k
       /\ hits' = SubSeq(all, 1, IF k < Len(all) THEN k ELSE Len(all))
  /\ UNCHANGED <<data, told>>

\* (contains and dimension change nothing.)
StoreNext == Insert \/ Delete \/ Replace \/ Search

StoreSpec == StoreInit /\ [][StoreNext]_storeVars

-----------------------------------------------------------------------------
(* Properties *)

\* A search returns the k best, or all, of what the answers of insert, delete
\* and replace_all say is there, best first: a call that failed has changed
\* nothing, no entry is passed over, and ties have one order.
HitsAreBest ==
  asked # NoSearch =>
    LET found == {hits[k].id : k \in DOMAIN hits}
        As(i) == [id |-> i, score |-> told[i]]
    IN  /\ Len(hits) = Cardinality(found)
        /\ Len(hits) = IF Cardinality(DOMAIN told) < asked
                       THEN Cardinality(DOMAIN told) ELSE asked
        /\ \A k \in DOMAIN hits : hits[k].id \in DOMAIN told /\ hits[k] = As(hits[k].id)
        /\ \A k \in 2..Len(hits) : Better(hits[k - 1], hits[k])
        /\ \A i \in DOMAIN told \ found : \A k \in DOMAIN hits : Better(hits[k], As(i))
=============================================================================
