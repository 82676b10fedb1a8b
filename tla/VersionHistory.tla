--------------------------- MODULE VersionHistory ---------------------------
(***************************************************************************)
(* What the memories table promises about versions, whatever calls run and *)
(* whatever fails: the Changelogs call it the one-hop chain.               *)
(*   - an id is written at most once and never comes back after removal;   *)
(*   - a memory gets its successor once, and the successor is a younger    *)
(*     memory that exists at that moment;                                  *)
(*   - a memory leaves only together with everything that points at it.    *)
(* Ids are numbers in the order of creation.                               *)
(***************************************************************************)
EXTENDS Naturals

CONSTANT HistoryIds  \* positive numbers

VARIABLES
  used,  \* ids that were written, or never will be
  next   \* memories that exist, with their successor (0: none yet)

hvars == <<used, next>>

HInit == used = {} /\ next = [i \in {} |-> 0]

\* A new version appears; nothing points at it.
Write(i) ==
  /\ i \in HistoryIds \ used
  /\ used' = used \cup {i}
  /\ next' = [j \in DOMAIN next \cup {i} |-> IF j = i THEN 0 ELSE next[j]]

\* Ids of writes that failed or were lost.
Waste(S) ==
  /\ S \subseteq HistoryIds
  /\ used' = used \cup S
  /\ UNCHANGED next

\* i is superseded by n.
Link(i, n) ==
  /\ i \in DOMAIN next /\ n \in DOMAIN next
  /\ next[i] = 0 /\ i < n
  /\ next' = [next EXCEPT ![i] = n]
  /\ UNCHANGED used

\* forget, purge or a compensation.
Remove(S) ==
  /\ S \subseteq DOMAIN next
  /\ \A i \in DOMAIN next \ S : next[i] \notin S
  /\ next' = [i \in DOMAIN next \ S |-> next[i]]
  /\ UNCHANGED used

HNext ==
  \/ \E i \in HistoryIds : Write(i)
  \/ \E S \in SUBSET HistoryIds : Waste(S) \/ Remove(S)
  \/ \E i, n \in HistoryIds : Link(i, n)

HSpec == HInit /\ [][HNext]_hvars
=============================================================================
