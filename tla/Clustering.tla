----------------------------- MODULE Clustering -----------------------------
(***************************************************************************)
(* greedy_cluster and summarize_cluster (compression.rs 32-44, 64-145),    *)
(* and the loop of compress_old_memories over their results.               *)
(*                                                                         *)
(* Vectors are data: which two of them have a cosine of at least the       *)
(* threshold is any symmetric relation.  (A zero or an infinite vector is  *)
(* not similar to itself either; nobody asks.)  Of a content only the      *)
(* length counts, a character of it is <<entry, position>>.                *)
(***************************************************************************)
EXTENDS Naturals, Sequences, FiniteSets, SequencesExt, Sorting

CONSTANTS
  MaxVectors,   \* bound: entries to cluster
  Lengths,      \* lengths of contents
  SummaryChars, \* MAX_SUMMARY_CHARS
  ClusterSize   \* members of a cluster worth a summary: 3

ASSUME ClusteringAssumption ==
  /\ MaxVectors \in Nat /\ SummaryChars \in Nat
  /\ Lengths \subseteq Nat \ {0} /\ ClusterSize \in Nat \ {0}

Pairs(n) == {pair \in SUBSET (1..n) : Cardinality(pair) = 2}

VARIABLES
  size,      \* vectors.len()
  similar,   \* the pairs of entries that are similar
  content,   \* the lengths of the entries' contents
  anchor,    \* i of the outer loop
  assigned,  \* entries that belong to a cluster
  clusters,  \* the clusters found: sequences of entries
  turn,      \* the cluster compress_old_memories has come to
  member,    \* i of the loop of summarize_cluster ...
  text,      \* ... and the summary it is building
  summaries  \* per cluster large enough: [summary_content, original_ids]

greedyVars  == <<anchor, assigned, clusters>>
summaryVars == <<turn, member, text, summaries>>
clusterVars == <<size, similar, content, greedyVars, summaryVars>>

ClusterInit ==
  /\ size \in 0..MaxVectors
  /\ similar \in SUBSET Pairs(size)
  /\ content \in [1..size -> Lengths]
  /\ anchor = 1 /\ assigned = {} /\ clusters = <<>>
  /\ turn = 1 /\ member = 1 /\ text = <<>> /\ summaries = <<>>

\* (mutant: an entry joins every cluster it is similar to)
Joining_Again == {j \in anchor + 1..size : {anchor, j} \in similar}

\* The inner loop: entries after the anchor, in no cluster yet, similar to it.
Joining == {j \in (anchor + 1..size) \ assigned : {anchor, j} \in similar}

\* An entry in a cluster anchors none.
PassOver ==
  /\ anchor <= size /\ anchor \in assigned
  /\ anchor' = anchor + 1
  /\ UNCHANGED <<size, similar, content, assigned, clusters, summaryVars>>

Ascending(S) == Sorted(S, <)

NewCluster ==
  /\ anchor <= size /\ anchor \notin assigned
  /\ assigned' = assigned \cup {anchor} \cup Joining
  /\ clusters' = Append(clusters, Ascending({anchor} \cup Joining))
  /\ anchor' = anchor + 1
  /\ UNCHANGED <<size, similar, content, summaryVars>>

Separator == <<<<0, 1>>, <<0, 2>>, <<0, 3>>>>

Characters(i) == [k \in 1..content[i] |-> <<i, k>>]

\* Clusters that are too small get no summary.
TooSmall(cluster) == Len(cluster) < ClusterSize

SkipSmall ==
  /\ anchor > size /\ turn <= Len(clusters) /\ TooSmall(clusters[turn])
  /\ turn' = turn + 1
  /\ UNCHANGED <<size, similar, content, greedyVars, member, text, summaries>>

\* One round of the loop over the members: their contents in order, separated.
PushContent ==
  /\ anchor > size /\ turn <= Len(clusters) /\ ~TooSmall(clusters[turn])
  /\ member <= Len(clusters[turn])
  /\ text' = (IF member > 1 THEN text \o Separator ELSE text)
               \o Characters(clusters[turn][member])
  /\ member' = member + 1
  /\ UNCHANGED <<size, similar, content, greedyVars, turn, summaries>>

\* Cut off at SummaryChars characters.
Cut(s) == SubSeq(s, 1, IF Len(s) < SummaryChars THEN Len(s) ELSE SummaryChars)

Summarize ==
  /\ anchor > size /\ turn <= Len(clusters) /\ ~TooSmall(clusters[turn])
  /\ member > Len(clusters[turn])
  /\ summaries' = Append(summaries, [summary_content |-> Cut(text),
                                     original_ids |-> clusters[turn]])
  /\ turn' = turn + 1 /\ member' = 1 /\ text' = <<>>
  /\ UNCHANGED <<size, similar, content, greedyVars>>

ClusterNext == PassOver \/ NewCluster \/ SkipSmall \/ PushContent \/ Summarize

ClusterSpec == ClusterInit /\ [][ClusterNext]_clusterVars

-----------------------------------------------------------------------------
(* Properties *)

\* The entries that anchor a cluster: those similar to no earlier anchor.
Anchors == {Head(clusters[c]) : c \in DOMAIN clusters}

\* Whatever the similarities (which need not be transitive), when the loop has
\* ended every entry is in exactly one cluster: its own if it is similar to no
\* earlier anchor, and else that of the first anchor it is similar to.  So no
\* memory is superseded by two summaries.  And a summary names every
\* original whose content it has, and lacks content only if it is full.
ClustersAreGreedy ==
  /\ anchor > size =>
       \A i \in 1..size :
         LET before == {a \in Anchors : a < i /\ {a, i} \in similar}
             home   == {c \in DOMAIN clusters : i \in ToSet(clusters[c])}
         IN  /\ Cardinality(home) = 1
             /\ i \in Anchors <=> before = {}
             /\ \A c \in home : before # {} =>
                  Head(clusters[c]) \in before /\ \A a \in before : Head(clusters[c]) <= a
  /\ \A s \in ToSet(summaries) :
       /\ Len(s.summary_content) <= SummaryChars
       /\ {char[1] : char \in ToSet(s.summary_content)} \subseteq ToSet(s.original_ids) \cup {0}
       /\ Len(s.summary_content) < SummaryChars =>
            \A i \in ToSet(s.original_ids) :
              ToSet(Characters(i)) \subseteq ToSet(s.summary_content)
=============================================================================
