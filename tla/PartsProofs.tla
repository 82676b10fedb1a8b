----------------------------- MODULE PartsProofs -----------------------------
(***************************************************************************)
(* Theorems about the parts that share no state with the engine: for any   *)
(* number of processes that open the file, any contents of an old file and *)
(* any number of faults; for any vectors and batches in the vector store;  *)
(* for any text in any chunks; and for any number of memories, whichever   *)
(* of them are similar, to compress.                                       *)
(***************************************************************************)
EXTENDS Migrations, InMemoryVectorStore, SentenceBuffer, Clustering,
        FiniteSetTheorems, SequenceTheorems, WellFoundedInduction, TLAPS

-----------------------------------------------------------------------------
(* Numbers, sorted sets and sequences *)

\* A set of numbers up to n has a least and a greatest element.
LEMMA MinOf ==
  ASSUME NEW K \in SUBSET Nat, K # {}
  PROVE  Min(K) \in K /\ \A k \in K : Min(K) <= k
<1> DEFINE below == OpToRel(<, Nat)
<1>1. PICK x \in K : \A y \in K : <<y, x>> \notin below
  BY WFMin, NatLessThanWellFounded
<1>2. ASSUME NEW k \in K PROVE x <= k
  <2>1. <<k, x>> \notin below
    BY <1>1
  <2>2. k \in Nat /\ x \in Nat
    OBVIOUS
  <2> QED BY <2>1, <2>2 DEF OpToRel
<1> HIDE DEF below
<1> QED BY <1>2 DEF Min

LEMMA MaxOf ==
  ASSUME NEW n \in Nat, NEW K \in SUBSET (0..n), K # {}
  PROVE  Max(K) \in K /\ \A k \in K : k <= Max(K)
<1> DEFINE T == {n - i : i \in K}
<1>1. \A i \in K : n - i \in Nat
  OBVIOUS
<1>2. T \in SUBSET Nat /\ T # {}
  BY <1>1
<1> HIDE DEF T
<1>3. Min(T) \in T /\ \A y \in T : Min(T) <= y
  BY <1>2, MinOf
<1>4. PICK i \in K : Min(T) = n - i
  BY <1>3 DEF T
<1>5. ASSUME NEW k \in K PROVE i >= k
  <2>1. n - i <= n - k
    BY <1>3, <1>4 DEF T
  <2>2. i \in Nat /\ k \in Nat
    OBVIOUS
  <2> QED BY <2>1, <2>2
<1>6. Max(K) \in K /\ \A k \in K : Max(K) >= k
  BY <1>5 DEF Max
<1>7. ASSUME NEW k \in K PROVE k <= Max(K)
  <2>1. Max(K) \in 0..n /\ k \in 0..n /\ Max(K) >= k
    BY <1>6
  <2> QED BY <2>1
<1> QED BY <1>6, <1>7

\* A piece of a sequence, and a piece of a piece.
LEMMA Slice ==
  ASSUME NEW C, NEW s \in Seq(C), NEW a \in Nat, NEW b \in Nat, a <= b, b <= Len(s)
  PROVE  /\ SubSeq(s, a + 1, b) \in Seq(C) /\ Len(SubSeq(s, a + 1, b)) = b - a
         /\ \A i \in 1..b - a : SubSeq(s, a + 1, b)[i] = s[a + i]
<1>1. PICK n \in Nat : n = Len(s)
  BY LenProperties
<1>2. ASSUME NEW i \in a + 1..b PROVE s[i] \in C
  <2>1. i \in 1..n
    BY <1>1
  <2> QED BY <1>1, <2>1, ElementOfSeq
<1>3. a + 1 \in Int /\ b \in Int
  OBVIOUS
<1> DEFINE u == SubSeq(s, a + 1, b)
<1>4. /\ u \in Seq(C)
      /\ Len(u) = IF a + 1 <= b THEN b - (a + 1) + 1 ELSE 0
      /\ \A i \in 1..b - (a + 1) + 1 : u[i] = s[a + 1 + i - 1]
  BY <1>2, <1>3, SubSeqProperties
<1> HIDE DEF u
<1>5. b - (a + 1) + 1 = b - a
  OBVIOUS
<1>6. Len(u) = b - a
  BY <1>4
<1>7. ASSUME NEW i \in 1..b - a PROVE u[i] = s[a + i]
  <2>1. a + 1 + i - 1 = a + i
    OBVIOUS
  <2> QED BY <1>4, <1>5, <2>1
<1> QED BY <1>4, <1>6, <1>7 DEF u

\* The same of texts.
LEMMA TextSlice ==
  ASSUME NEW s \in Text, NEW a \in Nat, NEW b \in Nat, a <= b, b <= Len(s)
  PROVE  /\ SubSeq(s, a + 1, b) \in Text /\ Len(SubSeq(s, a + 1, b)) = b - a
         /\ \A i \in 1..b - a : SubSeq(s, a + 1, b)[i] = s[a + i]
<1> DEFINE C == {Stop, Space, Letter}
<1>1. s \in Seq(C)
  BY DEF Text
<1> HIDE DEF C
<1>2. /\ SubSeq(s, a + 1, b) \in Seq(C) /\ Len(SubSeq(s, a + 1, b)) = b - a
      /\ \A i \in 1..b - a : SubSeq(s, a + 1, b)[i] = s[a + i]
  BY <1>1, Slice
<1> QED BY <1>2 DEF C, Text

LEMMA SliceOfSlice ==
  ASSUME NEW C, NEW s \in Seq(C), NEW a \in Nat, NEW b \in Nat, a <= b, b <= Len(s),
         NEW x \in Nat, NEW y \in Nat, x <= y, y <= b - a
  PROVE  SubSeq(SubSeq(s, a + 1, b), x + 1, y) = SubSeq(s, a + x + 1, a + y)
<1> DEFINE u == SubSeq(s, a + 1, b)
           v == SubSeq(u, x + 1, y)
           w == SubSeq(s, (a + x) + 1, a + y)
<1>1. /\ u \in Seq(C) /\ Len(u) = b - a
      /\ \A i \in 1..b - a : u[i] = s[a + i]
  BY Slice
<1> HIDE DEF u
<1>2. /\ v \in Seq(C) /\ Len(v) = y - x
      /\ \A i \in 1..y - x : v[i] = u[x + i]
  BY <1>1, Slice
<1>3. a + x \in Nat /\ a + y \in Nat /\ a + x <= a + y /\ a + y <= b /\ (a + y) - (a + x) = y - x
  OBVIOUS
<1>n. PICK n \in Nat : n = Len(s)
  BY LenProperties
<1>4. a + y <= Len(s)
  BY <1>3, <1>n
<1>5. /\ w \in Seq(C) /\ Len(w) = y - x
      /\ \A i \in 1..y - x : w[i] = s[(a + x) + i]
  BY <1>3, <1>4, Slice
<1> HIDE DEF v, w
<1>6. ASSUME NEW i \in 1..y - x PROVE v[i] = w[i]
  <2>1. x + i \in 1..b - a /\ a + (x + i) = (a + x) + i
    OBVIOUS
  <2> QED BY <1>1, <1>2, <1>5, <2>1
<1>7. v = w
  BY <1>2, <1>5, <1>6, SeqEqual
<1> QED BY <1>7 DEF u, v, w

\* What is in a concatenation.
LEMMA Joined ==
  ASSUME NEW C, NEW s \in Seq(C), NEW t \in Seq(C)
  PROVE  s \o t \in Seq(C) /\ ToSet(s \o t) = ToSet(s) \cup ToSet(t)
<1>1. /\ s \o t \in Seq(C) /\ Len(s \o t) = Len(s) + Len(t)
      /\ Len(s) \in Nat /\ Len(t) \in Nat
      /\ DOMAIN s = 1..Len(s) /\ DOMAIN t = 1..Len(t) /\ DOMAIN (s \o t) = 1..(Len(s) + Len(t))
      /\ \A i \in 1..Len(s) : (s \o t)[i] = s[i]
      /\ \A i \in 1..Len(t) : (s \o t)[Len(s) + i] = t[i]
  BY ConcatProperties
<1> DEFINE u == s \o t
<1> HIDE DEF u
<1>2. ASSUME NEW i \in 1..(Len(s) + Len(t)) PROVE u[i] \in ToSet(s) \cup ToSet(t)
  <2>1. CASE i \in 1..Len(s)
    BY <1>1, <2>1 DEF ToSet, u
  <2>2. CASE i \notin 1..Len(s)
    <3>1. i - Len(s) \in 1..Len(t) /\ i = Len(s) + (i - Len(s))
      BY <1>1, <2>2
    <3>2. u[i] = t[i - Len(s)]
      BY <1>1, <3>1 DEF u
    <3> QED BY <1>1, <3>1, <3>2 DEF ToSet
  <2> QED BY <2>1, <2>2
<1>3. ASSUME NEW i \in 1..Len(s) PROVE s[i] \in ToSet(u)
  <2>1. i \in 1..(Len(s) + Len(t)) /\ u[i] = s[i]
    BY <1>1 DEF u
  <2> QED BY <1>1, <2>1 DEF ToSet, u
<1>4. ASSUME NEW i \in 1..Len(t) PROVE t[i] \in ToSet(u)
  <2>1. Len(s) + i \in 1..(Len(s) + Len(t)) /\ u[Len(s) + i] = t[i]
    BY <1>1 DEF u
  <2> QED BY <1>1, <2>1 DEF ToSet, u
<1>5. ToSet(u) = ToSet(s) \cup ToSet(t)
  <2>1. /\ ToSet(s) = {s[i] : i \in 1..Len(s)} /\ ToSet(t) = {t[i] : i \in 1..Len(t)}
        /\ ToSet(u) = {u[i] : i \in 1..(Len(s) + Len(t))}
    BY <1>1 DEF ToSet, u
  <2>2. ToSet(u) \subseteq ToSet(s) \cup ToSet(t)
    BY <1>2, <2>1
  <2>3. ToSet(s) \subseteq ToSet(u)
    BY <1>3, <2>1
  <2>4. ToSet(t) \subseteq ToSet(u)
    BY <1>4, <2>1
  <2> QED BY <2>2, <2>3, <2>4
<1> QED BY <1>1, <1>5 DEF u

\* R orders S strictly and completely.
Orders(R, S) ==
  /\ \A x \in S : <<x, x>> \notin R
  /\ \A x, y \in S : x # y => <<x, y>> \in R \/ <<y, x>> \in R
  /\ \A x, y, z \in S : <<x, y>> \in R /\ <<y, z>> \in R => <<x, z>> \in R

\* A finite set that is ordered can be listed in that order: every element has
\* the place that the number of its predecessors says.
LEMMA Arrangement ==
  ASSUME NEW S, IsFiniteSet(S), NEW R, Orders(R, S)
  PROVE  \E f \in Bijection(1..Cardinality(S), S) :
           \A i, j \in 1..Cardinality(S) : i < j => <<f[i], f[j]>> \in R
<1> DEFINE n == Cardinality(S)
           Before(x) == {y \in S : <<y, x>> \in R}
           place == [x \in S |-> Cardinality(Before(x)) + 1]
<1>1. n \in Nat /\ IsFiniteSet(1..n) /\ Cardinality(1..n) = n
  BY FS_CardinalityType, FS_Interval
<1>2. ASSUME NEW x \in S
      PROVE  IsFiniteSet(Before(x)) /\ Cardinality(Before(x)) \in Nat /\ Cardinality(Before(x)) < n
  <2> DEFINE B == Before(x)
  <2>1. B \subseteq S /\ B # S
    BY DEF Orders
  <2> HIDE DEF B
  <2>2. IsFiniteSet(B) /\ Cardinality(B) <= n /\ Cardinality(B) # n
    BY <2>1, FS_Subset
  <2>3. Cardinality(B) \in Nat
    BY <2>2, FS_CardinalityType
  <2>4. IsFiniteSet(B) /\ Cardinality(B) \in Nat /\ Cardinality(B) < n
    BY <1>1, <2>2, <2>3
  <2> QED BY <2>4 DEF B
<1>3. ASSUME NEW x \in S, NEW y \in S, <<x, y>> \in R
      PROVE  Cardinality(Before(x)) < Cardinality(Before(y))
  <2> DEFINE B == Before(x)
             C == Before(y)
  <2>1. B \subseteq C /\ B # C
    BY <1>3 DEF Orders
  <2>2. /\ IsFiniteSet(C) /\ Cardinality(C) \in Nat
        /\ IsFiniteSet(B) /\ Cardinality(B) \in Nat
    BY <1>2
  <2> HIDE DEF B, C
  <2>3. Cardinality(B) <= Cardinality(C) /\ Cardinality(B) # Cardinality(C)
    BY <2>1, <2>2, FS_Subset
  <2>4. Cardinality(B) < Cardinality(C)
    BY <2>2, <2>3
  <2> QED BY <2>4 DEF B, C
<1> HIDE DEF Before
<1>4. place \in Injection(S, 1..n)
  <2>1. place \in [S -> 1..n]
    BY <1>1, <1>2
  <2>2. ASSUME NEW x \in S, NEW y \in S, x # y PROVE place[x] # place[y]
    <3>1. /\ Cardinality(Before(x)) \in Nat /\ Cardinality(Before(y)) \in Nat
          /\ \/ Cardinality(Before(x)) < Cardinality(Before(y))
             \/ Cardinality(Before(y)) < Cardinality(Before(x))
      BY <1>2, <1>3, <2>2 DEF Orders
    <3> QED BY <3>1
  <2> HIDE DEF place
  <2> QED BY <2>1, <2>2 DEF Injection, IsInjective
<1>5. place \in Surjection(S, 1..n)
  <2> HIDE DEF place
  <2> QED BY <1>1, <1>4, FS_Injection
<1> DEFINE f == [k \in 1..n |-> CHOOSE x \in S : place[x] = k]
<1>6. ASSUME NEW k \in 1..n PROVE f[k] \in S /\ place[f[k]] = k
  <2>1. \E x \in S : place[x] = k
    <3> HIDE DEF place
    <3> QED BY <1>5 DEF Surjection
  <2> HIDE DEF place
  <2> QED BY <2>1
<1>7. ASSUME NEW i \in 1..n, NEW j \in 1..n, i < j PROVE <<f[i], f[j]>> \in R
  <2>1. f[i] \in S /\ f[j] \in S /\ place[f[i]] = i /\ place[f[j]] = j
    BY <1>6
  <2> HIDE DEF f
  <2>2. /\ place[f[i]] = Cardinality(Before(f[i])) + 1
        /\ place[f[j]] = Cardinality(Before(f[j])) + 1
        /\ Cardinality(Before(f[i])) \in Nat /\ Cardinality(Before(f[j])) \in Nat
    BY <1>2, <2>1
  <2>3. ~(Cardinality(Before(f[j])) < Cardinality(Before(f[i])))
    BY <1>7, <2>1, <2>2
  <2>4. f[i] # f[j]
    BY <1>7, <2>1
  <2> QED BY <1>3, <2>1, <2>3, <2>4 DEF Orders
<1>8. f \in Bijection(1..n, S)
  <2>1. f \in [1..n -> S]
    BY <1>6
  <2>2. \A i, j \in 1..n : f[i] = f[j] => i = j
    BY <1>6
  <2>3. \A x \in S : place[x] \in 1..n
    BY <1>4 DEF Injection
  <2>4. ASSUME NEW x \in S PROVE \E k \in 1..n : f[k] = x
    <3>1. f[place[x]] \in S /\ place[f[place[x]]] = place[x]
      BY <1>6, <2>3
    <3>2. f[place[x]] = x
      <4> HIDE DEF place, f
      <4> QED BY <1>4, <3>1 DEF Injection, IsInjective
    <3> QED BY <2>3, <3>2
  <2> HIDE DEF f
  <2> QED BY <2>1, <2>2, <2>4 DEF Bijection, Injection, Surjection, IsInjective
<1> HIDE DEF f
<1> QED BY <1>7, <1>8

\* A list in the order R has every element once.
LEMMA InOrder ==
  ASSUME NEW S, IsFiniteSet(S), NEW R, Orders(R, S), NEW f \in [1..Cardinality(S) -> S],
         \A i, j \in 1..Cardinality(S) : i < j => <<f[i], f[j]>> \in R
  PROVE  f \in Bijection(1..Cardinality(S), S) /\ Len(f) = Cardinality(S)
<1> DEFINE n == Cardinality(S)
<1>1. n \in Nat /\ IsFiniteSet(1..n) /\ Cardinality(1..n) = n
  BY FS_CardinalityType, FS_Interval
<1>2. ASSUME NEW i \in 1..n, NEW j \in 1..n, i # j PROVE f[i] # f[j]
  <2>1. i < j \/ j < i
    BY <1>1, <1>2
  <2> QED BY <2>1 DEF Orders
<1>3. f \in Injection(1..n, S)
  BY <1>2 DEF Injection, IsInjective
<1>4. f \in Surjection(1..n, S)
  BY <1>1, <1>3, FS_Injection
<1> QED BY <1>1, <1>3, <1>4 DEF Bijection

-----------------------------------------------------------------------------
(* Migrations *)

\* The file: what is recorded has happened, the column is filled, and the old
\* memories are as they were.
FileOK ==
  /\ disk \in Files /\ first \in Files
  /\ RecordIsTrue
  /\ disk.column => \A i \in DOMAIN disk.rows : disk.rows[i] # "none"

\* A connection: its lock fits what it is doing, what it has read while it
\* holds a lock is still what the file says, and its earlier migrations are in.
ConnectionOK(p) ==
  LET c == conn[p] IN
  /\ c.lock = CASE c.pc = "write"  -> "shared"
                [] c.pc = "commit" -> IF c.lock = "pending" THEN "pending" ELSE "reserved"
                [] OTHER -> "none"
  /\ c.lock # "none" => c.saw = disk
  /\ IF c.pc \in {"closed", "log"} THEN c.at = 1 ELSE disk.log
  /\ c.pc \in {"read", "write", "commit"} /\ c.at = 2 => 1 \in disk.versions
  /\ c.pc \in {"check", "open"} => disk.versions = Versions

\* One connection at most has the file reserved.
OneWriter ==
  \A p, o \in Openers :
    p # o /\ conn[p].lock \in {"reserved", "pending"} => conn[o].lock \notin {"reserved", "pending"}

MigrationInv ==
  /\ FileOK
  /\ conn \in [Openers -> Connections]
  /\ faults \in 0..MaxFaults
  /\ \A p \in Openers : ConnectionOK(p)
  /\ OneWriter

-----------------------------------------------------------------------------
(* Migrations: files and connections *)

\* The fields of a file.
LEMMA FileFields ==
  ASSUME NEW f \in Files
  PROVE  /\ f.log \in BOOLEAN /\ f.tables \in BOOLEAN /\ f.column \in BOOLEAN
         /\ f.versions \in SUBSET Versions
         /\ f.rows \in [DOMAIN f.rows -> RowConfidence]
         /\ DOMAIN f.rows \subseteq OldRows \cup NewRows
  <1>1. PICK S \in SUBSET (OldRows \cup NewRows) : f.rows \in [S -> RowConfidence]
    BY DEF Files
  <1> QED BY <1>1 DEF Files

\* Rows with a confidence each may be in a file.
LEMMA FileRows ==
  ASSUME NEW S \in SUBSET (OldRows \cup NewRows), NEW g \in [S -> RowConfidence]
  PROVE  g \in UNION {[T -> RowConfidence] : T \in SUBSET (OldRows \cup NewRows)}
  OBVIOUS

LEMMA EmptyIsFile == EmptyFile \in Files
  <1>1. [i \in {} |-> "none"] \in [{} -> RowConfidence]
    OBVIOUS
  <1>2. [i \in {} |-> "none"] \in UNION {[T -> RowConfidence] : T \in SUBSET (OldRows \cup NewRows)}
    BY <1>1, FileRows
  <1> QED BY <1>2 DEF EmptyFile, Files, Versions

LEMMA FirstReleaseIsFile == FirstRelease \in Files
  <1>1. [i \in OldRows |-> "none"] \in [OldRows -> RowConfidence]
    BY DEF RowConfidence
  <1>2. [i \in OldRows |-> "none"] \in UNION {[T -> RowConfidence] : T \in SUBSET (OldRows \cup NewRows)}
    BY <1>1, FileRows
  <1> QED BY <1>2 DEF FirstRelease, Files, Versions

\* A migration of a file, field by field.
LEMMA MigratedFile ==
  ASSUME NEW f \in Files, NEW n \in Versions
  PROVE  /\ Migrated(n, f) \in Files
         /\ Migrated(n, f).log = f.log /\ Migrated(n, f).tables = TRUE
         /\ Migrated(n, f).column = (f.column \/ n = 2)
         /\ Migrated(n, f).versions = f.versions \cup {n}
         /\ DOMAIN Migrated(n, f).rows = DOMAIN f.rows
         /\ \A i \in DOMAIN f.rows :
              Migrated(n, f).rows[i] = IF n = 2 /\ ~f.column THEN "explicit" ELSE f.rows[i]
  <1> DEFINE g == IF n = 2 /\ ~f.column THEN [i \in DOMAIN f.rows |-> "explicit"] ELSE f.rows
             v == IF Recorded(n, f) THEN f.versions ELSE f.versions \cup {n}
             c == f.column \/ n = 2
  <1>1. g \in [DOMAIN f.rows -> RowConfidence]
    BY FileFields DEF RowConfidence
  <1>2. g \in UNION {[T -> RowConfidence] : T \in SUBSET (OldRows \cup NewRows)}
    BY <1>1, FileFields, FileRows
  <1>3. v = f.versions \cup {n}
    BY DEF Recorded
  <1>4. Migrated(n, f) = [f EXCEPT !.versions = v, !.tables = TRUE, !.column = c, !.rows = g]
    BY Zenon DEF Migrated
  <1>5. \A i \in DOMAIN f.rows : g[i] = IF n = 2 /\ ~f.column THEN "explicit" ELSE f.rows[i]
    OBVIOUS
  <1>6. DOMAIN g = DOMAIN f.rows
    BY <1>1
  <1>7. v \in SUBSET Versions /\ f.log \in BOOLEAN /\ c \in BOOLEAN
    BY <1>3, FileFields
  <1>8. c = (f.column \/ n = 2)
    OBVIOUS
  <1> HIDE DEF g, v, c
  <1>9. /\ Migrated(n, f) \in Files
        /\ Migrated(n, f).log = f.log /\ Migrated(n, f).tables = TRUE
        /\ Migrated(n, f).column = c /\ Migrated(n, f).versions = v
        /\ Migrated(n, f).rows = g
    <2> DEFINE W == SUBSET Versions
               R == UNION {[T -> RowConfidence] : T \in SUBSET (OldRows \cup NewRows)}
               F == [log : BOOLEAN, tables : BOOLEAN, column : BOOLEAN, versions : W, rows : R]
    <2>1. f \in F /\ v \in W /\ g \in R /\ F = Files
      BY <1>2, <1>7 DEF Files
    <2> HIDE DEF W, R
    <2> DEFINE m == [f EXCEPT !.versions = v, !.tables = TRUE, !.column = c, !.rows = g]
    <2>2. m \in F
      BY <1>7, <2>1
    <2>3. m.log = f.log /\ m.tables = TRUE /\ m.column = c /\ m.versions = v /\ m.rows = g
      BY <2>1
    <2>4. Migrated(n, f) = m
      BY <1>4
    <2> HIDE DEF m, F
    <2> QED BY <2>1, <2>2, <2>3, <2>4
  <1> QED BY <1>3, <1>5, <1>6, <1>8, <1>9

\* A closed connection.
LEMMA ClosedOK ==
  ASSUME NEW n \in 0..MaxOpens
  PROVE  /\ Closed(n) \in Connections
         /\ Closed(n).pc = "closed" /\ Closed(n).at = 1
         /\ Closed(n).lock = "none" /\ Closed(n).opens = n
  BY EmptyIsFile DEF Closed, Connections, Versions

\* The connection after a migration.
LEMMA NextStageOK ==
  ASSUME NEW c \in Connections
  PROVE  /\ NextStage(c) \in Connections /\ NextStage(c).lock = "none"
         /\ c.at = 1 => NextStage(c).pc = "read" /\ NextStage(c).at = 2
         /\ c.at = 2 => NextStage(c).pc = "check"
  <1>1. c.at = 1 \/ c.at = 2
    BY DEF Connections, Versions
  <1>2. CASE c.at = 1
    <2>1. NextStage(c) = [c EXCEPT !.pc = "read", !.at = 2, !.lock = "none"]
      BY <1>2 DEF NextStage
    <2>2. [c EXCEPT !.pc = "read", !.at = 2, !.lock = "none"] \in Connections
      BY DEF Connections, Versions
    <2>3. NextStage(c).pc = "read" /\ NextStage(c).at = 2 /\ NextStage(c).lock = "none"
      BY <2>1 DEF Connections
    <2> QED BY <1>2, <2>1, <2>2, <2>3
  <1>3. CASE c.at = 2
    <2>1. NextStage(c) = [c EXCEPT !.pc = "check", !.lock = "none"]
      BY <1>3 DEF NextStage
    <2>2. [c EXCEPT !.pc = "check", !.lock = "none"] \in Connections
      BY DEF Connections
    <2>3. NextStage(c).pc = "check" /\ NextStage(c).lock = "none"
      BY <2>1 DEF Connections
    <2> QED BY <1>3, <2>1, <2>2, <2>3
  <1> QED BY <1>1, <1>2, <1>3

\* The initial states satisfy the invariant.
LEMMA MigrationInvInit == MigrationInit => MigrationInv
  <1> SUFFICES ASSUME MigrationInit PROVE MigrationInv
    OBVIOUS
  <1>1. FileOK
    <2>1. CASE disk = EmptyFile
      BY <2>1, EmptyIsFile DEF MigrationInit, FileOK, RecordIsTrue, EmptyFile, Applied
    <2>2. CASE disk = FirstRelease
      BY <2>2, FirstReleaseIsFile DEF MigrationInit, FileOK, RecordIsTrue, FirstRelease, Applied
    <2> QED BY <2>1, <2>2 DEF MigrationInit
  <1>2. 0 \in 0..MaxOpens /\ 0 \in 0..MaxFaults
    BY OpenBounds
  <1>3. \A p \in Openers : /\ conn[p] \in Connections
                           /\ conn[p].pc = "closed" /\ conn[p].at = 1
                           /\ conn[p].lock = "none"
    BY <1>2, ClosedOK DEF MigrationInit
  <1>4. conn \in [Openers -> Connections]
    BY <1>3 DEF MigrationInit
  <1> QED BY <1>1, <1>2, <1>3, <1>4 DEF MigrationInit, MigrationInv, ConnectionOK, OneWriter

-----------------------------------------------------------------------------
(* Migrations: steps *)

\* A step that leaves the file alone and gives connection p a state that fits.
LEMMA ConnectionMoves ==
  ASSUME MigrationInv, NEW p \in Openers, NEW c \in Connections, Connection(p, c),
         UNCHANGED <<disk, first>>, faults' \in 0..MaxFaults,
         ConnectionOK(p)',
         \/ c.lock \in {"none", "shared"}
         \/ \A o \in Others(p) : conn[o].lock \notin {"reserved", "pending"}
  PROVE  MigrationInv'
  <1>1. conn' \in [Openers -> Connections] /\ conn'[p] = c
        /\ \A o \in Openers : o # p => conn'[o] = conn[o]
    BY DEF Connection, MigrationInv
  <1>2. FileOK'
    BY DEF MigrationInv, FileOK, RecordIsTrue, Applied
  <1>3. \A o \in Openers : ConnectionOK(o)'
    BY <1>1 DEF MigrationInv, ConnectionOK
  <1>4. OneWriter'
    <2> SUFFICES ASSUME NEW a \in Openers, NEW b \in Openers, a # b,
                        conn'[a].lock \in {"reserved", "pending"},
                        conn'[b].lock \in {"reserved", "pending"}
                 PROVE  FALSE
      BY DEF OneWriter
    <2>1. CASE a # p /\ b # p
      BY <1>1, <2>1 DEF MigrationInv, OneWriter
    <2>2. CASE a = p \/ b = p
      BY <1>1, <2>2 DEF Others
    <2> QED BY <2>1, <2>2
  <1> QED BY <1>1, <1>2, <1>3, <1>4 DEF MigrationInv

\* A step that writes the file while nobody else has a lock on it.
LEMMA FileWritten ==
  ASSUME MigrationInv, NEW p \in Openers, NEW c \in Connections, Connection(p, c),
         Free(p), c.lock = "none", FileOK', UNCHANGED <<faults, first>>,
         disk.versions \subseteq disk'.versions, disk.log => disk'.log,
         ConnectionOK(p)'
  PROVE  MigrationInv'
  <1>1. conn' \in [Openers -> Connections] /\ conn'[p] = c
        /\ \A o \in Openers : o # p => conn'[o] = conn[o] /\ conn[o].lock = "none"
    BY DEF Connection, MigrationInv, Free, Others
  <1>2. disk'.versions \subseteq Versions
    BY FileFields DEF FileOK
  <1>3. ASSUME NEW o \in Openers PROVE ConnectionOK(o)'
    <2>1. CASE o = p
      BY <2>1
    <2>2. CASE o # p
      <3>1. ConnectionOK(o) /\ conn'[o] = conn[o] /\ conn[o].lock = "none"
        BY <1>1, <2>2 DEF MigrationInv
      <3> QED BY <1>2, <3>1 DEF ConnectionOK
    <2> QED BY <2>1, <2>2
  <1>4. OneWriter'
    BY <1>1 DEF OneWriter
  <1> QED BY <1>1, <1>3, <1>4 DEF MigrationInv

\* A connection that is closed leaves the others as they were.
LEMMA BackToClosed ==
  ASSUME MigrationInv, NEW p \in Openers, Connection(p, Closed(conn[p].opens)),
         UNCHANGED <<disk, first>>, faults' \in 0..MaxFaults
  PROVE  MigrationInv'
  <1> DEFINE c == Closed(conn[p].opens)
  <1>1. c \in Connections /\ c.pc = "closed" /\ c.at = 1 /\ c.lock = "none"
    BY ClosedOK DEF MigrationInv, Connections
  <1> HIDE DEF c
  <1>2. Connection(p, c)
    BY DEF c
  <1>3. conn'[p] = c
    BY <1>2 DEF MigrationInv, Connection
  <1>4. ConnectionOK(p)'
    BY <1>1, <1>3 DEF ConnectionOK
  <1> QED BY <1>1, <1>2, <1>4, ConnectionMoves

\* After migration n is in the file, a connection may go on to the next stage.
LEMMA StageFits ==
  ASSUME MigrationInv, NEW p \in Openers, conn'[p] = NextStage(conn[p]),
         conn[p].pc \in {"write", "commit"}, disk'.log,
         disk.versions \cup {conn[p].at} = disk'.versions
  PROVE  ConnectionOK(p)'
  <1>1. conn[p] \in Connections /\ conn[p].at \in Versions /\ ConnectionOK(p)
    BY DEF MigrationInv, Connections
  <1>2. disk.versions \subseteq Versions
    BY FileFields DEF MigrationInv, FileOK
  <1>3. CASE conn[p].at = 1
    <2>1. conn'[p].pc = "read" /\ conn'[p].lock = "none" /\ 1 \in disk'.versions
      BY <1>1, <1>3, NextStageOK
    <2> QED BY <2>1 DEF ConnectionOK
  <1>4. CASE conn[p].at = 2
    <2>1. conn'[p].pc = "check" /\ conn'[p].lock = "none" /\ 2 \in disk'.versions
      BY <1>1, <1>4, NextStageOK
    <2>2. disk'.versions = Versions
      BY <1>1, <1>2, <1>4 DEF ConnectionOK, Versions
    <2> QED BY <2>1, <2>2 DEF ConnectionOK
  <1> QED BY <1>1, <1>3, <1>4 DEF Versions

\* Every step of every process.
LEMMA StepOK ==
  ASSUME MigrationInv, NEW p \in Openers, OpenStep(p) \/ Fault(p) \/ StoreRow(p)
  PROVE  MigrationInv'
  <1>0. /\ conn[p] \in Connections /\ conn[p].opens \in 0..MaxOpens /\ ConnectionOK(p)
        /\ conn[p].at \in Versions /\ disk \in Files
        /\ faults \in 0..MaxFaults /\ FileOK /\ conn \in [Openers -> Connections]
    BY DEF MigrationInv, Connections, FileOK
  <1>1. CASE Connect(p)
    <2> DEFINE c == [Closed(conn[p].opens + 1) EXCEPT !.pc = "log"]
    <2>1. conn[p].opens + 1 \in 0..MaxOpens
      BY <1>0, <1>1, OpenBounds DEF Connect
    <2>2. c \in Connections /\ c.pc = "log" /\ c.at = 1 /\ c.lock = "none"
      BY <2>1, ClosedOK DEF Connections
    <2>3. Connection(p, c)
      BY <1>1 DEF Connect
    <2> HIDE DEF c
    <2>4. conn'[p] = c
      BY <1>0, <2>3 DEF Connection
    <2>5. ConnectionOK(p)'
      BY <2>2, <2>4 DEF ConnectionOK
    <2> QED BY <1>0, <1>1, <2>2, <2>3, <2>5, ConnectionMoves DEF Connect
  <1>2. CASE EnsureLog(p)
    <2> DEFINE c == [conn[p] EXCEPT !.pc = "read"]
    <2>1. c \in Connections /\ c.pc = "read" /\ c.lock = "none" /\ c.at = conn[p].at
      BY <1>0, <1>2 DEF EnsureLog, Connections, ConnectionOK
    <2>2. Connection(p, c)
      BY <1>2 DEF EnsureLog
    <2> HIDE DEF c
    <2>3. conn'[p] = c
      BY <1>0, <2>2 DEF Connection
    <2>4. disk' = [disk EXCEPT !.log = TRUE]
      BY <1>2 DEF EnsureLog
    <2>5. /\ disk' \in Files /\ disk'.log = TRUE /\ disk'.tables = disk.tables
          /\ disk'.column = disk.column /\ disk'.versions = disk.versions
          /\ disk'.rows = disk.rows
      BY <1>0, <2>4 DEF Files
    <2>6. FileOK'
      BY <1>0, <1>2, <2>5 DEF EnsureLog, FileOK, RecordIsTrue, Applied
    <2>7. conn[p].at = 1
      BY <1>0, <1>2 DEF EnsureLog, ConnectionOK
    <2>8. ConnectionOK(p)'
      BY <2>1, <2>3, <2>5, <2>7 DEF ConnectionOK
    <2>9. CASE disk.log
      <3>1. disk' = disk
        BY <1>0, <2>4, <2>9 DEF Files
      <3> QED BY <1>0, <1>2, <2>1, <2>2, <2>8, <3>1, ConnectionMoves DEF EnsureLog
    <2>10. CASE Free(p)
      BY <1>0, <1>2, <2>1, <2>2, <2>5, <2>6, <2>8, <2>10, FileWritten DEF EnsureLog
    <2> QED BY <1>2, <2>9, <2>10 DEF EnsureLog
  <1>3. CASE Read(p)
    <2> DEFINE c == [conn[p] EXCEPT !.pc = "write", !.lock = "shared", !.saw = disk]
    <2>1. /\ c \in Connections /\ c.pc = "write" /\ c.lock = "shared"
          /\ c.at = conn[p].at /\ c.saw = disk
      BY <1>0 DEF Connections
    <2>2. Connection(p, c)
      BY <1>3 DEF Read
    <2> HIDE DEF c
    <2>3. conn'[p] = c
      BY <1>0, <2>2 DEF Connection
    <2>4. ConnectionOK(p)'
      BY <1>0, <1>3, <2>1, <2>3 DEF Read, ConnectionOK
    <2> QED BY <1>0, <1>3, <2>1, <2>2, <2>4, ConnectionMoves DEF Read
  <1>4. CASE Skip(p)
    <2> DEFINE c == NextStage(conn[p])
    <2>1. conn[p].saw = disk /\ conn[p].pc = "write" /\ disk.log
      BY <1>0, <1>4 DEF Skip, ConnectionOK
    <2>2. Migrated(conn[p].at, disk) = disk
      BY <1>4, <2>1 DEF Skip
    <2>3. conn[p].at \in disk.versions
      BY <1>0, <2>2, MigratedFile
    <2>4. Connection(p, c)
      BY <1>4 DEF Skip
    <2>5. conn'[p] = c
      BY <1>0, <2>4 DEF Connection
    <2>6. ConnectionOK(p)'
      BY <1>0, <1>4, <2>1, <2>3, <2>5, StageFits DEF Skip
    <2> QED BY <1>0, <1>4, <2>4, <2>6, NextStageOK, ConnectionMoves DEF Skip
  <1>5. CASE Reserve(p)
    <2> DEFINE c == [conn[p] EXCEPT !.pc = "commit", !.lock = "reserved"]
    <2>1. /\ c \in Connections /\ c.pc = "commit" /\ c.lock = "reserved"
          /\ c.at = conn[p].at /\ c.saw = conn[p].saw
      BY <1>0 DEF Connections
    <2>2. Connection(p, c)
      BY <1>5 DEF Reserve
    <2> HIDE DEF c
    <2>3. conn'[p] = c
      BY <1>0, <2>2 DEF Connection
    <2>4. ConnectionOK(p)'
      BY <1>0, <1>5, <2>1, <2>3 DEF Reserve, ConnectionOK
    <2> QED BY <1>0, <1>5, <2>1, <2>2, <2>4, ConnectionMoves DEF Reserve, Reservable
  <1>6. CASE ReserveBusy(p)
    BY <1>0, <1>6, BackToClosed DEF ReserveBusy
  <1>7. CASE AwaitReaders(p)
    <2> DEFINE c == [conn[p] EXCEPT !.lock = "pending"]
    <2>1. /\ c \in Connections /\ c.pc = "commit" /\ c.lock = "pending"
          /\ c.at = conn[p].at /\ c.saw = conn[p].saw
      BY <1>0, <1>7 DEF AwaitReaders, Connections
    <2>2. Connection(p, c)
      BY <1>7 DEF AwaitReaders
    <2> HIDE DEF c
    <2>3. conn'[p] = c
      BY <1>0, <2>2 DEF Connection
    <2>4. ConnectionOK(p)'
      BY <1>0, <1>7, <2>1, <2>3 DEF AwaitReaders, ConnectionOK
    <2>5. \A o \in Others(p) : conn[o].lock \notin {"reserved", "pending"}
      BY <1>7 DEF AwaitReaders, MigrationInv, OneWriter, Others
    <2> QED BY <1>0, <1>7, <2>1, <2>2, <2>4, <2>5, ConnectionMoves DEF AwaitReaders
  <1>8. CASE Commit(p)
    <2> DEFINE c == NextStage(conn[p])
               n == conn[p].at
    <2>1. conn[p].saw = disk /\ conn[p].pc = "commit" /\ disk.log
      BY <1>0, <1>8 DEF Commit, ConnectionOK
    <2>2. n = 2 => 1 \in disk.versions
      BY <1>0, <1>8 DEF Commit, ConnectionOK
    <2>3. disk' = Migrated(n, disk)
      BY <1>8, <2>1 DEF Commit
    <2>4. /\ disk' \in Files /\ disk'.log = disk.log /\ disk'.tables = TRUE
          /\ disk'.column = (disk.column \/ n = 2)
          /\ disk'.versions = disk.versions \cup {n}
          /\ DOMAIN disk'.rows = DOMAIN disk.rows
          /\ \A i \in DOMAIN disk.rows :
               disk'.rows[i] = IF n = 2 /\ ~disk.column THEN "explicit" ELSE disk.rows[i]
      <3>1. disk \in Files /\ n \in Versions
        BY <1>0 DEF Connections
      <3> HIDE DEF n
      <3>2. /\ Migrated(n, disk) \in Files
            /\ Migrated(n, disk).log = disk.log /\ Migrated(n, disk).tables = TRUE
            /\ Migrated(n, disk).column = (disk.column \/ n = 2)
            /\ Migrated(n, disk).versions = disk.versions \cup {n}
            /\ DOMAIN Migrated(n, disk).rows = DOMAIN disk.rows
            /\ \A i \in DOMAIN disk.rows :
                 Migrated(n, disk).rows[i] =
                   IF n = 2 /\ ~disk.column THEN "explicit" ELSE disk.rows[i]
        BY <3>1, MigratedFile
      <3> QED BY <2>3, <3>2
    <2>5. first' = first
      BY <1>8 DEF Commit
    <2>6. FileOK'
      <3>1. \A k \in disk'.versions : Applied(k, disk')
        BY <1>0, <2>4, FileFields DEF FileOK, RecordIsTrue, Applied, Versions
      <3>2. disk'.log \/ disk'.versions = {}
        BY <2>1, <2>4
      <3>3. \A i \in DOMAIN first.rows :
              /\ i \in DOMAIN disk'.rows
              /\ disk'.rows[i] = IF disk'.column THEN "explicit" ELSE "none"
        BY <1>0, <2>4, FileFields DEF FileOK, RecordIsTrue, Versions
      <3>4. disk'.column => \A i \in DOMAIN disk'.rows : disk'.rows[i] # "none"
        BY <1>0, <2>4, FileFields DEF FileOK, Versions
      <3> QED BY <1>0, <2>4, <2>5, <3>1, <3>2, <3>3, <3>4 DEF FileOK, RecordIsTrue
    <2>7. Connection(p, c)
      BY <1>8 DEF Commit
    <2>8. conn'[p] = c
      BY <1>0, <2>7 DEF Connection
    <2>9. ConnectionOK(p)'
      BY <1>0, <2>1, <2>2, <2>4, <2>8, StageFits
    <2> QED BY <1>0, <1>8, <2>4, <2>6, <2>7, <2>9, NextStageOK, FileWritten DEF Commit
  <1>9. CASE Check(p)
    <2> DEFINE c == [conn[p] EXCEPT !.pc = "open"]
    <2>1. /\ c \in Connections /\ c.pc = "open" /\ c.lock = conn[p].lock
      BY <1>0 DEF Connections
    <2>2. Connection(p, c)
      BY <1>9 DEF Check
    <2> HIDE DEF c
    <2>3. conn'[p] = c
      BY <1>0, <2>2 DEF Connection
    <2>4. ConnectionOK(p)' /\ c.lock = "none"
      BY <1>0, <1>9, <2>1, <2>3 DEF Check, ConnectionOK
    <2> QED BY <1>0, <1>9, <2>1, <2>2, <2>4, ConnectionMoves DEF Check
  <1>10. CASE Fault(p)
    <2>1. faults' \in 0..MaxFaults
      BY <1>0, <1>10, OpenBounds DEF Fault
    <2> QED BY <1>0, <1>10, <2>1, BackToClosed DEF Fault
  <1>11. CASE StoreRow(p)
    <2>1. PICK i \in NewRows \ DOMAIN disk.rows :
            disk' = [disk EXCEPT !.rows = [j \in DOMAIN disk.rows \cup {i} |->
                       IF j = i THEN "inferred" ELSE disk.rows[j]]]
      BY <1>11 DEF StoreRow
    <2> DEFINE g == [j \in DOMAIN disk.rows \cup {i} |-> IF j = i THEN "inferred" ELSE disk.rows[j]]
    <2>2. g \in [DOMAIN disk.rows \cup {i} -> RowConfidence]
      BY <1>0, FileFields DEF RowConfidence
    <2>3. DOMAIN disk.rows \cup {i} \in SUBSET (OldRows \cup NewRows)
      BY <1>0, FileFields
    <2>4. g \in UNION {[T -> RowConfidence] : T \in SUBSET (OldRows \cup NewRows)}
      BY <2>2, <2>3, FileRows
    <2>5. /\ DOMAIN g = DOMAIN disk.rows \cup {i} /\ g[i] = "inferred"
          /\ \A j \in DOMAIN disk.rows : g[j] = disk.rows[j]
      OBVIOUS
    <2> HIDE DEF g
    <2>6. disk' = [disk EXCEPT !.rows = g]
      BY <2>1 DEF g
    <2>7. /\ disk' \in Files /\ disk'.log = disk.log /\ disk'.tables = disk.tables
          /\ disk'.column = disk.column /\ disk'.versions = disk.versions
          /\ disk'.rows = g
      BY <1>0, <2>4, <2>6 DEF Files
    <2>8. UNCHANGED <<conn, faults, first>>
      BY <1>11 DEF StoreRow
    <2>9. FileOK'
      BY <1>0, <2>5, <2>7, <2>8 DEF FileOK, RecordIsTrue, Applied
    <2>10. conn[p].lock = "none" /\ Free(p)
      BY <1>0, <1>11 DEF StoreRow, ConnectionOK
    <2>11. ConnectionOK(p)'
      BY <1>0, <2>7, <2>8, <2>10 DEF ConnectionOK
    <2>12. Connection(p, conn[p])
      BY <1>0, <2>8 DEF Connection
    <2> QED BY <1>0, <2>7, <2>8, <2>9, <2>10, <2>11, <2>12, FileWritten
  <1> QED
    BY <1>1, <1>2, <1>3, <1>4, <1>5, <1>6, <1>7, <1>8, <1>9, <1>10, <1>11 DEF OpenStep

-----------------------------------------------------------------------------
(* Migrations: the theorems *)

\* The invariant holds in every state.
THEOREM MigrationsInvariance == MigrationSpec => []MigrationInv
  <1>1. MigrationInv /\ [MigrationNext]_migrationVars => MigrationInv'
    <2> SUFFICES ASSUME MigrationInv, [MigrationNext]_migrationVars PROVE MigrationInv'
      OBVIOUS
    <2>1. CASE MigrationNext
      BY <2>1, StepOK DEF MigrationNext
    <2>2. CASE UNCHANGED migrationVars
      BY <2>2 DEF migrationVars, MigrationInv, FileOK, RecordIsTrue, Applied, ConnectionOK, OneWriter
    <2> QED BY <2>1, <2>2
  <1> QED BY <1>1, MigrationInvInit, PTL DEF MigrationSpec

\* The file, the connections and the bound keep their types.
THEOREM MigrationsTyped == MigrationSpec => []MigrationTypeOK
  <1>1. MigrationInv => MigrationTypeOK
    BY DEF MigrationInv, FileOK, MigrationTypeOK
  <1> QED BY <1>1, MigrationsInvariance, PTL

\* Whatever ends whenever: what schema_migrations records has happened, and
\* the memories of the old file are all there with the default confidence.
THEOREM RecordAlwaysTrue == MigrationSpec => []RecordIsTrue
  <1>1. MigrationInv => RecordIsTrue
    BY DEF MigrationInv, FileOK
  <1> QED BY <1>1, MigrationsInvariance, PTL

\* Whoever has opened the file finds both migrations applied and recorded.
THEOREM OpenIsMigrated == MigrationSpec => []OpenMeansMigrated
  <1>1. MigrationInv => OpenMeansMigrated
    <2> SUFFICES ASSUME MigrationInv, NEW p \in Openers, conn[p].pc = "open"
                 PROVE  /\ disk.tables /\ disk.column /\ disk.versions = Versions
                        /\ \A i \in DOMAIN disk.rows : disk.rows[i] # "none"
      BY DEF OpenMeansMigrated
    <2>1. disk.versions = Versions
      BY DEF MigrationInv, ConnectionOK
    <2>2. disk.tables /\ disk.column
      BY <2>1 DEF MigrationInv, FileOK, RecordIsTrue, Applied, Versions
    <2> QED BY <2>1, <2>2 DEF MigrationInv, FileOK
  <1> QED BY <1>1, MigrationsInvariance, PTL

-----------------------------------------------------------------------------
(* InMemoryVectorStore *)

Scored(map) == {[id |-> i, score |-> map[i]] : i \in DOMAIN map}

\* What the map holds is what the callers were told, finitely many valid vectors.
MapOK(map) ==
  /\ DOMAIN map \subseteq Uuids /\ IsFiniteSet(DOMAIN map)
  /\ map = [i \in DOMAIN map |-> map[i]]
  /\ \A i \in DOMAIN map : map[i] \in Scores

StoreInv == MapOK(data) /\ told = data /\ HitsAreBest

\* Scored entries have one order.
LEMMA BetterOrders ==
  ASSUME NEW S \in SUBSET Hit, NEW R, R = {ab \in S \X S : Better(ab[1], ab[2])}
  PROVE  Orders(R, S) /\ \A a, b \in S : <<a, b>> \in R <=> Better(a, b)
<1>1. \A a, b \in S : <<a, b>> \in R <=> Better(a, b)
  OBVIOUS
<1>2. ASSUME NEW a \in S
      PROVE  a.id \in Nat /\ a.score \in Nat /\ a = [id |-> a.id, score |-> a.score]
  <2>1. a \in Hit
    OBVIOUS
  <2>2. a.id \in Uuids /\ a.score \in Scores /\ a = [id |-> a.id, score |-> a.score]
    BY <2>1 DEF Hit
  <2> QED BY <2>2, StoreAssumption
<1>3. \A a, b \in S : a # b => a.id # b.id \/ a.score # b.score
  BY <1>2
<1>4. \A a \in S : ~Better(a, a)
  BY <1>2 DEF Better
<1>5. \A a, b \in S : a # b => Better(a, b) \/ Better(b, a)
  BY <1>2, <1>3 DEF Better
<1>6. \A a, b, c \in S : Better(a, b) /\ Better(b, c) => Better(a, c)
  BY <1>2 DEF Better
<1> HIDE DEF Better
<1> QED BY <1>1, <1>4, <1>5, <1>6 DEF Orders

\* The sort lists every scored entry once, the best first.
LEMMA SortedHits ==
  ASSUME NEW S \in SUBSET Hit, IsFiniteSet(S), NEW r, r = Sorted(S, Better)
  PROVE  /\ r \in Bijection(1..Cardinality(S), S) /\ Len(r) = Cardinality(S)
         /\ \A i, j \in 1..Cardinality(S) : i < j => Better(r[i], r[j])
<1> DEFINE n == Cardinality(S)
           R == {ab \in S \X S : Better(ab[1], ab[2])}
<1>1. Orders(R, S) /\ \A a, b \in S : <<a, b>> \in R <=> Better(a, b)
  BY BetterOrders
<1> HIDE DEF R
<1>2. PICK f \in Bijection(1..n, S) : \A i, j \in 1..n : i < j => <<f[i], f[j]>> \in R
  BY <1>1, Arrangement
<1>3. /\ f \in [1..n -> S]
      /\ \A i, j \in DOMAIN f : i < j => Better(f[i], f[j])
  BY <1>1, <1>2 DEF Bijection, Injection
<1>4. /\ r \in [1..n -> S]
      /\ \A i, j \in DOMAIN r : i < j => Better(r[i], r[j])
  BY <1>3 DEF Sorted
<1>5. \A i, j \in 1..n : i < j => <<r[i], r[j]>> \in R
  BY <1>1, <1>4
<1> QED BY <1>1, <1>4, <1>5, InOrder

\* There are as many scored entries as entries.
LEMMA AllScored ==
  ASSUME NEW map, MapOK(map)
  PROVE  /\ Scored(map) \subseteq Hit /\ IsFiniteSet(Scored(map))
         /\ Cardinality(Scored(map)) = Cardinality(DOMAIN map)
         /\ Cardinality(DOMAIN map) \in Nat
<1> DEFINE D == DOMAIN map
           score == [i \in D |-> [id |-> i, score |-> map[i]]]
<1>1. Scored(map) \subseteq Hit
  BY DEF MapOK, Scored, Hit
<1>2. score \in Bijection(D, Scored(map))
  <2>1. score \in [D -> Scored(map)]
    BY DEF Scored
  <2>2. \A i, j \in D : score[i] = score[j] => i = j
    OBVIOUS
  <2>3. \A h \in Scored(map) : \E i \in D : score[i] = h
    BY DEF Scored
  <2> QED BY <2>1, <2>2, <2>3 DEF Bijection, Injection, Surjection, IsInjective
<1>3. IsFiniteSet(D)
  BY DEF MapOK
<1> HIDE DEF score
<1> QED BY <1>1, <1>2, <1>3, FS_Bijection, FS_CardinalityType DEF ExistsBijection

\* replace_all fills a map with valid vectors.
LEMMA FilledOK ==
  ASSUME NEW entries \in Batches, AllValid(entries)
  PROVE  MapOK(Filled(entries))
<1> DEFINE n == Len(entries)
           D == {entries[k].id : k \in DOMAIN entries}
           K(i) == {k \in DOMAIN entries : entries[k].id = i}
<1>1. entries \in Seq(Entry) /\ n \in Nat /\ DOMAIN entries = 1..n
  BY StoreAssumption
<1>2. ASSUME NEW k \in 1..n
      PROVE  entries[k].id \in Uuids /\ entries[k].vector \in Scores
  <2>1. entries[k] \in Entry
    BY <1>1
  <2>2. entries[k].vector # Bad
    BY <1>1 DEF AllValid, Valid
  <2> QED BY <2>1, <2>2 DEF Entry, Vectors
<1>3. ASSUME NEW i \in D PROVE Filled(entries)[i] \in Scores
  <2>1. K(i) \subseteq 1..n /\ K(i) # {}
    BY <1>1
  <2>2. Max(K(i)) \in 1..n
    <3> HIDE DEF K
    <3>1. 1..n \subseteq 0..n
      OBVIOUS
    <3> QED BY <1>1, <2>1, <3>1, MaxOf
  <2> QED BY <1>2, <2>2 DEF Filled
<1>4. IsFiniteSet(D)
  <2> DEFINE ids == [k \in 1..n |-> entries[k].id]
  <2>1. ids \in Surjection(1..n, D)
    BY <1>1 DEF Surjection
  <2>2. IsFiniteSet(1..n)
    BY <1>1, FS_Interval
  <2> HIDE DEF ids, D
  <2> QED BY <2>1, <2>2, FS_Surjection
<1>5. DOMAIN Filled(entries) = D /\ D \subseteq Uuids
  BY <1>1, <1>2 DEF Filled
<1>6. Filled(entries) = [i \in DOMAIN Filled(entries) |-> Filled(entries)[i]]
  BY DEF Filled
<1> HIDE DEF D
<1> QED BY <1>3, <1>4, <1>5, <1>6 DEF MapOK

\* A search answers with the best.
LEMMA SearchIsBest ==
  ASSUME StoreInv, Search PROVE HitsAreBest'
<1> DEFINE S == Scored(data)
           n == Cardinality(S)
           all == Sorted(S, Better)
<1>1. /\ S \subseteq Hit /\ IsFiniteSet(S) /\ n = Cardinality(DOMAIN data) /\ n \in Nat
  BY AllScored DEF StoreInv
<1>2. PICK k \in 0..MaxHits :
        /\ asked' = k
        /\ hits' = SubSeq(all, 1, IF k < Len(all) THEN k ELSE Len(all))
  BY DEF Search, Scored
<1>3. /\ all \in Bijection(1..n, S) /\ Len(all) = n
      /\ \A i, j \in 1..n : i < j => Better(all[i], all[j])
  <2> HIDE DEF S
  <2> QED BY <1>1, SortedHits
<1>4. told' = told /\ told = data /\ k \in Nat /\ k <= MaxHits
  BY StoreAssumption DEF Search, StoreInv
<1> DEFINE m == IF k < n THEN k ELSE n
<1> HIDE DEF all
<1>5. /\ m \in Nat /\ m <= n /\ hits' = SubSeq(all, 1, m)
  BY <1>1, <1>2, <1>3, <1>4
<1>6. /\ all \in Seq(S) /\ \A i \in 1..n : all[i] \in S
      /\ \A i, j \in 1..n : all[i] = all[j] => i = j
      /\ \A h \in S : \E i \in 1..n : all[i] = h
  BY <1>1, <1>3 DEF Bijection, Injection, Surjection, IsInjective
<1>7. /\ Len(hits') = m /\ DOMAIN hits' = 1..m
      /\ \A i \in 1..m : hits'[i] = all[i]
  <2> HIDE DEF m, S
  <2>1. m <= Len(all)
    BY <1>3, <1>5
  <2> QED BY <1>5, <1>6, <2>1, SubSeqProperties
<1>8. \A h \in S : h.id \in DOMAIN data /\ h = [id |-> h.id, score |-> data[h.id]]
  BY DEF Scored
<1> HIDE DEF m, S, n
<1>9. /\ \A i \in 1..m : /\ hits'[i] \in S /\ hits'[i].id \in DOMAIN data
                         /\ hits'[i] = [id |-> hits'[i].id, score |-> data[hits'[i].id]]
      /\ \A i, j \in 1..m : hits'[i].id = hits'[j].id => i = j
  <2>1. 1..m \subseteq 1..n
    BY <1>1, <1>5
  <2>2. \A i \in 1..m : hits'[i] \in S /\ hits'[i] = all[i]
    BY <1>6, <1>7, <2>1
  <2>3. ASSUME NEW i \in 1..m, NEW j \in 1..m, hits'[i].id = hits'[j].id PROVE i = j
    <3>1. hits'[i] = hits'[j]
      BY <1>8, <2>2, <2>3
    <3> QED BY <1>6, <2>1, <2>2, <3>1
  <2> QED BY <1>8, <2>2, <2>3
<1> DEFINE found == {hits'[i].id : i \in DOMAIN hits'}
<1>10. m = Cardinality(found)
  <2> DEFINE ids == [i \in 1..m |-> hits'[i].id]
  <2>1. ids \in Bijection(1..m, found)
    BY <1>7, <1>9 DEF Bijection, Injection, Surjection, IsInjective
  <2>2. IsFiniteSet(1..m) /\ Cardinality(1..m) = m
    BY <1>5, FS_Interval
  <2> HIDE DEF ids, found
  <2> QED BY <2>1, <2>2, FS_Bijection DEF ExistsBijection
<1>11. \A i \in 2..m : Better(hits'[i - 1], hits'[i])
  BY <1>1, <1>3, <1>5, <1>7
<1>12. ASSUME NEW i \in DOMAIN data \ found, NEW j \in 1..m
       PROVE  Better(hits'[j], [id |-> i, score |-> data[i]])
  <2>1. PICK l \in 1..n : all[l] = [id |-> i, score |-> data[i]]
    BY <1>6 DEF S, Scored
  <2>2. l \notin 1..m
    BY <1>7, <2>1
  <2> QED BY <1>1, <1>3, <1>5, <1>7, <2>1, <2>2
<1>13. m = IF Cardinality(DOMAIN data) < k THEN Cardinality(DOMAIN data) ELSE k
  BY <1>1, <1>4 DEF m
<1> QED BY <1>2, <1>4, <1>7, <1>9, <1>10, <1>11, <1>12, <1>13 DEF HitsAreBest

LEMMA StoreInvInit == StoreInit => StoreInv
<1> SUFFICES ASSUME StoreInit PROVE StoreInv
  OBVIOUS
<1>1. DOMAIN data = {} /\ data = [i \in DOMAIN data |-> data[i]] /\ told = data
  BY DEF StoreInit
<1> QED BY <1>1, FS_EmptySet DEF StoreInit, StoreInv, MapOK, HitsAreBest

LEMMA StoreInvNext == StoreInv /\ [StoreNext]_storeVars => StoreInv'
<1> SUFFICES ASSUME StoreInv, [StoreNext]_storeVars PROVE StoreInv'
  OBVIOUS
<1>1. ASSUME Answered PROVE HitsAreBest'
  BY <1>1 DEF Answered, HitsAreBest
<1>2. CASE Insert
  <2>1. PICK id \in Uuids, v \in Vectors :
          IF Valid(v) THEN data' = With(data, id, v) /\ told' = With(told, id, v)
                      ELSE UNCHANGED <<data, told>>
    BY <1>2 DEF Insert
  <2>2. CASE Valid(v)
    <3>1. IsFiniteSet(DOMAIN data \cup {id})
      BY FS_AddElement DEF StoreInv, MapOK
    <3>2. MapOK(With(data, id, v))
      BY <2>2, <3>1 DEF StoreInv, MapOK, With, Valid, Vectors
    <3> QED BY <1>1, <1>2, <2>1, <2>2, <3>2 DEF StoreInv, Insert
  <2> QED BY <1>1, <1>2, <2>1, <2>2 DEF StoreInv, Insert
<1>3. CASE Delete
  <2>1. PICK id \in Uuids :
          /\ data' = [i \in DOMAIN data \ {id} |-> data[i]]
          /\ told' = [i \in DOMAIN told \ {id} |-> told[i]]
    BY <1>3 DEF Delete
  <2>2. IsFiniteSet(DOMAIN data \ {id})
    BY FS_RemoveElement DEF StoreInv, MapOK
  <2>3. MapOK(data')
    BY <2>1, <2>2 DEF StoreInv, MapOK
  <2> QED BY <1>1, <1>3, <2>1, <2>3 DEF StoreInv, Delete
<1>4. CASE Replace
  <2>1. PICK entries \in Batches :
          /\ data' = Replaced(entries)
          /\ told' = IF AllValid(entries) THEN Filled(entries) ELSE told
    BY <1>4 DEF Replace
  <2>2. MapOK(data') /\ told' = data'
    BY <2>1, FilledOK DEF Replaced, StoreInv
  <2> QED BY <1>1, <1>4, <2>2 DEF StoreInv, Replace
<1>5. CASE Search
  BY <1>5, SearchIsBest DEF Search, StoreInv
<1>6. CASE UNCHANGED storeVars
  BY <1>6 DEF storeVars, StoreInv, HitsAreBest, Better
<1> QED BY <1>2, <1>3, <1>4, <1>5, <1>6 DEF StoreNext

\* Whatever vectors came and went, in whatever order, whichever of them were
\* refused: a search returns the k best of those that are there, best first
\* (in_memory.rs 72-125).
THEOREM SearchesFindTheBest == StoreSpec => []HitsAreBest
<1>1. StoreInv => HitsAreBest
  BY DEF StoreInv
<1> QED BY <1>1, StoreInvInit, StoreInvNext, PTL DEF StoreSpec

-----------------------------------------------------------------------------
(* SentenceBuffer: trimming pieces of a text *)

\* What is not whitespace in a piece of a text.
Ink(s, a, b) == {i \in a + 1..b : s[i] # Space}

LEMMA InkedSlice ==
  ASSUME NEW s \in Text, NEW a \in Nat, NEW b \in Nat, a <= b, b <= Len(s)
  PROVE  Inked(SubSeq(s, a + 1, b)) = {i - a : i \in Ink(s, a, b)}
<1> DEFINE u == SubSeq(s, a + 1, b)
<1>1. /\ u \in Text /\ Len(u) = b - a /\ DOMAIN u = 1..b - a
      /\ \A i \in 1..b - a : u[i] = s[a + i]
  BY Slice, LenProperties DEF Text
<1> HIDE DEF u
<1>2. ASSUME NEW i \in Inked(u) PROVE i \in {j - a : j \in Ink(s, a, b)}
  <2>1. i \in 1..b - a /\ s[a + i] # Space
    BY <1>1 DEF Inked
  <2>2. a + i \in a + 1..b /\ i = (a + i) - a
    BY <2>1
  <2> QED BY <2>1, <2>2 DEF Ink
<1>3. ASSUME NEW i \in Ink(s, a, b) PROVE i - a \in Inked(u)
  <2>1. i \in a + 1..b /\ s[i] # Space
    BY DEF Ink
  <2>2. i - a \in 1..b - a /\ a + (i - a) = i
    BY <2>1
  <2> QED BY <1>1, <2>1, <2>2 DEF Inked
<1>4. Inked(u) = {i - a : i \in Ink(s, a, b)}
  BY <1>2, <1>3
<1> QED BY <1>4 DEF u

\* The bounds of what is not whitespace move with the piece.
LEMMA MinShift ==
  ASSUME NEW a \in Nat, NEW b \in Nat, NEW K \in SUBSET (a + 1..b), K # {}
  PROVE  /\ Min(K) \in a + 1..b /\ Max(K) \in a + 1..b /\ Min(K) <= Max(K)
         /\ Min(K) \in K /\ Max(K) \in K /\ \A k \in K : Min(K) <= k /\ k <= Max(K)
         /\ Min({k - a : k \in K}) = Min(K) - a /\ Max({k - a : k \in K}) = Max(K) - a
<1> DEFINE T == {k - a : k \in K}
<1>1. K \in SUBSET Nat /\ K \in SUBSET (0..b)
  OBVIOUS
<1>2. Min(K) \in K /\ \A k \in K : Min(K) <= k
  BY <1>1, MinOf
<1>3. Max(K) \in K /\ \A k \in K : k <= Max(K)
  BY <1>1, MaxOf
<1>4. \A k \in K : k - a \in Nat /\ k - a \in 0..b
  OBVIOUS
<1>5. T \in SUBSET Nat /\ T \in SUBSET (0..b) /\ T # {}
  BY <1>4
<1> HIDE DEF T
<1>6. Min(T) \in T /\ \A k \in T : Min(T) <= k
  BY <1>5, MinOf
<1>7. Max(T) \in T /\ \A k \in T : k <= Max(T)
  BY <1>5, MaxOf
<1>8. Min(T) = Min(K) - a
  <2>1. PICK k \in K : Min(T) = k - a
    BY <1>6 DEF T
  <2>2. Min(T) <= Min(K) - a
    BY <1>2, <1>6 DEF T
  <2>3. Min(K) <= k
    BY <1>2
  <2>4. Min(K) \in a + 1..b /\ k \in a + 1..b
    BY <1>2
  <2> QED BY <2>1, <2>2, <2>3, <2>4
<1>9. Max(T) = Max(K) - a
  <2>1. PICK k \in K : Max(T) = k - a
    BY <1>7 DEF T
  <2>2. Max(K) - a <= Max(T)
    BY <1>3, <1>7 DEF T
  <2>3. k <= Max(K)
    BY <1>3
  <2>4. Max(K) \in a + 1..b /\ k \in a + 1..b
    BY <1>3
  <2> QED BY <2>1, <2>2, <2>3, <2>4
<1>10. Min(K) \in a + 1..b /\ Max(K) \in a + 1..b
  BY <1>2, <1>3
<1> QED BY <1>2, <1>3, <1>8, <1>9, <1>10 DEF T

LEMMA TrimSlice ==
  ASSUME NEW s \in Text, NEW a \in Nat, NEW b \in Nat, a <= b, b <= Len(s)
  PROVE  Trim(SubSeq(s, a + 1, b)) =
           IF Ink(s, a, b) = {} THEN <<>> ELSE SubSeq(s, Min(Ink(s, a, b)), Max(Ink(s, a, b)))
<1> DEFINE u == SubSeq(s, a + 1, b)
           K == Ink(s, a, b)
<1>1. Inked(u) = {i - a : i \in K}
  BY InkedSlice
<1>2. CASE K = {}
  <2>1. Inked(u) = {}
    BY <1>1, <1>2
  <2> QED BY <1>2, <2>1 DEF Trim
<1>3. CASE K # {}
  <2>1. K \in SUBSET (a + 1..b)
    BY DEF Ink
  <2> HIDE DEF K
  <2>2. Inked(u) # {} /\ Trim(u) = SubSeq(u, Min(K) - a, Max(K) - a)
    <3>1. Min(Inked(u)) = Min(K) - a /\ Max(Inked(u)) = Max(K) - a
      BY <1>1, <1>3, <2>1, MinShift
    <3>2. Inked(u) # {}
      BY <1>1, <1>3
    <3> QED BY <3>1, <3>2 DEF Trim
  <2> DEFINE x == Min(K) - a - 1
             y == Max(K) - a
  <2>3. Min(K) \in a + 1..b /\ Max(K) \in a + 1..b /\ Min(K) <= Max(K)
    BY <1>3, <2>1, MinShift
  <2>4. /\ x \in Nat /\ y \in Nat /\ x <= y /\ y <= b - a
        /\ x + 1 = Min(K) - a /\ a + x + 1 = Min(K) /\ a + y = Max(K)
    BY <2>3
  <2> HIDE DEF x, y
  <2>5. SubSeq(u, x + 1, y) = SubSeq(s, a + x + 1, a + y)
    BY <2>4, SliceOfSlice DEF Text
  <2>6. Trim(u) = SubSeq(s, Min(K), Max(K))
    BY <2>2, <2>4, <2>5 DEF y
  <2> QED BY <1>3, <2>6 DEF K
<1> QED BY <1>2, <1>3

LEMMA TrimStartSlice ==
  ASSUME NEW s \in Text, NEW a \in Nat, NEW b \in Nat, a <= b, b <= Len(s)
  PROVE  \E t \in a..b : /\ TrimStart(SubSeq(s, a + 1, b)) = SubSeq(s, t + 1, b)
                         /\ \A j \in a + 1..t : s[j] = Space
<1> DEFINE u == SubSeq(s, a + 1, b)
           K == Ink(s, a, b)
<1>1. Inked(u) = {i - a : i \in K} /\ Len(u) = b - a
  BY InkedSlice, Slice DEF Text
<1>2. CASE K = {}
  <2>1. Inked(u) = {}
    BY <1>1, <1>2
  <2>2. SubSeq(s, b + 1, b) = <<>>
    BY SubSeqEmpty
  <2>3. \A j \in a + 1..b : s[j] = Space
    BY <1>2 DEF Ink
  <2>4. b \in a..b
    OBVIOUS
  <2> QED BY <2>1, <2>2, <2>3, <2>4 DEF TrimStart
<1>3. CASE K # {}
  <2>1. K \in SUBSET (a + 1..b)
    BY DEF Ink
  <2>2. \A j \in a + 1..b : j \notin K => s[j] = Space
    BY DEF Ink
  <2> HIDE DEF K
  <2>3. Inked(u) # {} /\ TrimStart(u) = SubSeq(u, Min(K) - a, b - a)
    <3>1. Min(Inked(u)) = Min(K) - a
      BY <1>1, <1>3, <2>1, MinShift
    <3>2. Inked(u) # {}
      BY <1>1, <1>3
    <3> QED BY <1>1, <3>1, <3>2 DEF TrimStart
  <2> DEFINE x == Min(K) - a - 1
             t == Min(K) - 1
  <2>4. Min(K) \in a + 1..b /\ \A k \in K : Min(K) <= k
    BY <1>3, <2>1, MinShift
  <2>5. /\ x \in Nat /\ b - a \in Nat /\ x <= b - a /\ b - a <= b - a
        /\ x + 1 = Min(K) - a /\ a + x + 1 = t + 1 /\ a + (b - a) = b
        /\ t \in a..b
    BY <2>4
  <2>6. ASSUME NEW j \in a + 1..t PROVE s[j] = Space
    <3>1. j < Min(K) /\ j \in a + 1..b /\ j \in Nat /\ Min(K) \in Nat
      BY <2>4
    <3>2. j \notin K
      BY <2>4, <3>1
    <3> QED BY <2>2, <3>1, <3>2
  <2> HIDE DEF x, t
  <2>7. SubSeq(u, x + 1, b - a) = SubSeq(s, a + x + 1, a + (b - a))
    BY <2>5, SliceOfSlice DEF Text
  <2>8. TrimStart(u) = SubSeq(s, t + 1, b)
    BY <2>3, <2>5, <2>7
  <2> QED BY <2>5, <2>6, <2>8
<1> QED BY <1>2, <1>3

\* Whitespace in front does not count.
LEMMA TrimSame ==
  ASSUME NEW s \in Text, NEW a \in Nat, NEW t \in Nat, NEW b \in Nat, a <= t, t <= b, b <= Len(s),
         \A j \in a + 1..t : s[j] = Space
  PROVE  Trim(SubSeq(s, a + 1, b)) = Trim(SubSeq(s, t + 1, b))
<1>1. Ink(s, a, b) \subseteq Ink(s, t, b)
  <2>1. ASSUME NEW i \in Ink(s, a, b) PROVE i \in t + 1..b /\ s[i] # Space
    <3>1. i \in a + 1..b /\ s[i] # Space
      BY DEF Ink
    <3>2. i \notin a + 1..t
      BY <3>1
    <3> QED BY <3>1, <3>2
  <2> QED BY <2>1 DEF Ink
<1>2. Ink(s, t, b) \subseteq Ink(s, a, b)
  BY DEF Ink
<1>3. Ink(s, a, b) = Ink(s, t, b)
  BY <1>1, <1>2
<1>4. a <= b
  OBVIOUS
<1> QED BY <1>3, <1>4, TrimSlice

-----------------------------------------------------------------------------
(* SentenceBuffer: what it has reached *)

\* The piece that ends at k.
Piece(k) == Trim(SubSeq(fed, EndBefore(k) + 1, k))

\* The stops that end a sentence for a buffer whose text begins after t.
Open(t) == {e \in t + 1..Len(fed) : fed[e] = Stop /\ (e = Len(fed) \/ fed[e + 1] = Space)}

\* The buffer has returned the sentences up to the end c, and holds the text
\* after t, with nothing but whitespace between.
Reached(c, t) ==
  /\ c \in {0} \cup Ends /\ c <= t /\ t <= Len(fed)
  /\ \A j \in c + 1..t : fed[j] = Space
  /\ pending = SubSeq(fed, t + 1, Len(fed))
  /\ {e \in Ends : e > c} = Open(t)
  /\ Len(sentences) = Rank(c)
  /\ \A k \in Ends : k <= c => sentences[Rank(k)] = Piece(k)

SentenceInv ==
  /\ fed \in Text /\ sentences \in Seq(Text)
  /\ cuts \subseteq 0..Len(fed) /\ (fed # <<>> => Len(fed) \in cuts)
  /\ finished => ~feeding /\ SplitsExactly
  /\ ~finished => \E c, t \in Nat : Reached(c, t) /\ (~feeding => Open(t) = {})

\* Ends are places in the text; every one has its rank.
LEMMA EndsAreFinite ==
  ASSUME SentenceInv
  PROVE  /\ Len(fed) \in Nat /\ DOMAIN fed = 1..Len(fed)
         /\ Ends \subseteq 1..Len(fed) /\ IsFiniteSet(Ends)
         /\ \A k : IsFiniteSet({e \in Ends : e <= k}) /\ Rank(k) \in Nat
<1>1. Len(fed) \in Nat /\ DOMAIN fed = 1..Len(fed)
  BY LenProperties DEF SentenceInv, Text
<1>2. Ends \subseteq 1..Len(fed)
  BY <1>1 DEF Ends
<1>3. IsFiniteSet(Ends)
  <2>1. IsFiniteSet(1..Len(fed))
    BY <1>1, FS_Interval
  <2> QED BY <1>2, <2>1, FS_Subset
<1>4. ASSUME NEW k PROVE IsFiniteSet({e \in Ends : e <= k}) /\ Rank(k) \in Nat
  <2>1. {e \in Ends : e <= k} \subseteq Ends
    OBVIOUS
  <2>2. IsFiniteSet({e \in Ends : e <= k})
    BY <1>3, <2>1, FS_Subset
  <2> QED BY <2>2, FS_CardinalityType DEF Rank
<1> QED BY <1>1, <1>2, <1>3, <1>4

\* The first end has no end before it, the next the one before.
LEMMA NextEnd ==
  ASSUME SentenceInv, NEW c \in {0} \cup Ends, NEW k \in Ends, c < k,
         \A e \in Ends : c < e => k <= e
  PROVE  /\ Rank(k) = Rank(c) + 1 /\ EndBefore(k) = c
         /\ \A e \in Ends : e <= k <=> e <= c \/ e = k
<1>1. PICK n \in Nat : n = Len(fed) /\ Ends \subseteq 1..n
  BY EndsAreFinite
<1>2. c \in Nat /\ k \in Nat /\ c < k
  BY <1>1
<1>3. ASSUME NEW e \in Ends PROVE (e <= k <=> e <= c \/ e = k) /\ (e < k <=> e <= c)
  <2>1. e \in Nat /\ (c < e => k <= e)
    BY <1>1
  <2> QED BY <1>2, <2>1
<1> DEFINE D == {e \in Ends : e <= c}
           E == {e \in Ends : e <= k}
<1>4. E = D \cup {k} /\ k \notin D
  <2>1. ~(k <= c)
    BY <1>2
  <2> QED BY <1>3, <2>1
<1>5. IsFiniteSet(D)
  BY EndsAreFinite
<1> HIDE DEF D, E
<1>6. Cardinality(E) = Cardinality(D) + 1
  BY <1>4, <1>5, FS_AddElement
<1>7. Rank(k) = Rank(c) + 1
  BY <1>6 DEF Rank, D, E
<1> DEFINE B == {0} \cup {e \in Ends : e < k}
<1>8. c \in B /\ \A e \in B : e <= c
  BY <1>1, <1>2, <1>3
<1>9. B \in SUBSET (0..n)
  <2>1. 1..n \subseteq 0..n /\ 0 \in 0..n
    OBVIOUS
  <2> QED BY <1>1, <2>1
<1>10. B # {}
  BY <1>8
<1> HIDE DEF B
<1>11. Max(B) \in B /\ \A e \in B : e <= Max(B)
  BY <1>9, <1>10, MaxOf
<1>12. Max(B) = c
  <2>1. Max(B) <= c /\ c <= Max(B) /\ Max(B) \in 0..n
    BY <1>8, <1>9, <1>11
  <2> QED BY <1>2, <2>1
<1> QED BY <1>3, <1>7, <1>12 DEF EndBefore, B

\* Ranks count from one.
LEMMA RankUpTo ==
  ASSUME SentenceInv, NEW c \in Nat, NEW e \in Ends, e <= c
  PROVE  Rank(e) \in 1..Rank(c)
<1> DEFINE D == {d \in Ends : d <= e}
           E == {d \in Ends : d <= c}
<1>1. Ends \subseteq Nat
  BY EndsAreFinite
<1>2. e \in D /\ D \subseteq E
  <2>1. ASSUME NEW d \in Ends, d <= e PROVE d <= c
    <3>1. d \in Nat /\ e \in Nat
      BY <1>1
    <3> QED BY <2>1, <3>1
  <2>2. e <= e
    BY <1>1
  <2> QED BY <2>1, <2>2
<1>3. IsFiniteSet(D) /\ IsFiniteSet(E)
  BY EndsAreFinite
<1> HIDE DEF D, E
<1>4. /\ Cardinality(D) \in Nat /\ Cardinality(E) \in Nat /\ Cardinality(D) <= Cardinality(E)
      /\ Cardinality(D) # 0
  BY <1>2, <1>3, FS_CardinalityType, FS_Subset, FS_EmptySet
<1> QED BY <1>4 DEF Rank, D, E

LEMMA SentenceInvInit == SentenceInit => SentenceInv
<1> SUFFICES ASSUME SentenceInit PROVE SentenceInv
  OBVIOUS
<1>1. /\ pending = <<>> /\ sentences = <<>> /\ feeding = FALSE /\ fed = <<>> /\ cuts = {}
      /\ finished = FALSE
  BY DEF SentenceInit
<1>2. Len(fed) = 0 /\ fed \in Text /\ sentences \in Seq(Text) /\ Len(sentences) = 0 /\ DOMAIN fed = {}
  BY <1>1 DEF Text
<1>3. Ends = {} /\ Open(0) = {}
  BY <1>1, <1>2 DEF Ends, Open
<1>4. Rank(0) = 0
  BY <1>3, FS_EmptySet DEF Rank
<1>5. SubSeq(fed, 0 + 1, Len(fed)) = <<>>
  BY <1>2, SubSeqEmpty
<1>6. Reached(0, 0)
  BY <1>1, <1>2, <1>3, <1>4, <1>5 DEF Reached
<1> QED BY <1>1, <1>2, <1>3, <1>6 DEF SentenceInv

\* What the buffer has left is the last piece.
LEMMA LastPiece ==
  ASSUME SentenceInv, ~feeding, ~finished
  PROVE  LET last == Trim(SubSeq(fed, Max({0} \cup Ends) + 1, Len(fed))) IN
         /\ Len(sentences) = Cardinality(Ends)
         /\ \A k \in Ends : sentences[Rank(k)] = Piece(k)
         /\ Trim(pending) = last
<1>1. PICK n \in Nat : n = Len(fed) /\ Ends \subseteq 1..n /\ fed \in Text
  BY EndsAreFinite DEF SentenceInv
<1>2. PICK c \in Nat, t \in Nat : Reached(c, t) /\ Open(t) = {}
  BY DEF SentenceInv
<1>3. \A e \in Ends : e <= c
  <2>1. {e \in Ends : e > c} = {}
    BY <1>2 DEF Reached
  <2>2. ASSUME NEW e \in Ends PROVE e <= c
    <3>1. e \in Nat /\ ~(e > c)
      BY <1>1, <2>1
    <3> QED BY <3>1
  <2> QED BY <2>2
<1>4. {e \in Ends : e <= c} = Ends
  BY <1>3
<1>5. Rank(c) = Cardinality(Ends)
  BY <1>4 DEF Rank
<1>6. Max({0} \cup Ends) = c
  <2> DEFINE B == {0} \cup Ends
  <2>1. B \in SUBSET (0..n) /\ c \in B /\ (\A e \in B : e <= c) /\ B # {}
    BY <1>1, <1>2, <1>3 DEF Reached
  <2> HIDE DEF B
  <2>2. Max(B) \in B /\ \A e \in B : e <= Max(B)
    BY <2>1, MaxOf
  <2>3. Max(B) <= c /\ c <= Max(B) /\ Max(B) \in 0..n
    BY <2>1, <2>2
  <2>4. Max(B) = c
    BY <2>3
  <2> QED BY <2>4 DEF B
<1>7. Trim(pending) = Trim(SubSeq(fed, c + 1, Len(fed)))
  <2>1. /\ pending = SubSeq(fed, t + 1, n) /\ c <= t /\ t <= n
        /\ \A j \in c + 1..t : fed[j] = Space
    BY <1>1, <1>2 DEF Reached
  <2>2. n <= Len(fed)
    BY <1>1
  <2>3. Trim(SubSeq(fed, c + 1, n)) = Trim(SubSeq(fed, t + 1, n))
    BY <1>1, <2>1, <2>2, TrimSame
  <2> QED BY <1>1, <2>1, <2>3
<1>8. Len(sentences) = Rank(c) /\ \A k \in Ends : k <= c => sentences[Rank(k)] = Piece(k)
  BY <1>2 DEF Reached
<1> QED BY <1>3, <1>5, <1>6, <1>7, <1>8

LEMMA SentenceInvSplits == SentenceInv => SplitsExactly
<1> SUFFICES ASSUME SentenceInv PROVE SplitsExactly
  OBVIOUS
<1>1. CASE finished
  BY <1>1 DEF SentenceInv
<1>2. CASE ~finished
  BY <1>2, LastPiece DEF SplitsExactly, Piece
<1> QED BY <1>1, <1>2

LEMMA FinishKeeps ==
  ASSUME SentenceInv, Finish PROVE SentenceInv'
<1>1. /\ ~finished /\ ~feeding /\ finished' = TRUE /\ UNCHANGED <<sentences, feeding, fed, cuts>>
      /\ rest' = IF Trim(pending) = <<>> THEN <<>> ELSE <<Trim(pending)>>
  BY DEF Finish
<1>2. Ends' = Ends
  BY <1>1 DEF Ends
<1>3. \A k : Rank(k)' = Rank(k) /\ EndBefore(k)' = EndBefore(k)
  BY <1>2 DEF Rank, EndBefore
<1>4. SplitsExactly'
  BY <1>1, <1>2, <1>3, LastPiece DEF SplitsExactly, Piece
<1> QED BY <1>1, <1>4 DEF SentenceInv

\* The boundaries of what the buffer holds are the stops that are open.
LEMMA OpenBoundaries ==
  ASSUME SentenceInv, NEW c \in Nat, NEW t \in Nat, Reached(c, t)
  PROVE  /\ Boundaries(pending) \subseteq 1..Len(fed) - t
         /\ Open(t) = {t + b : b \in Boundaries(pending)}
<1>1. PICK n \in Nat : n = Len(fed)
  BY EndsAreFinite
<1>2. t <= n /\ n <= Len(fed) /\ pending = SubSeq(fed, t + 1, n) /\ fed \in Text
  BY <1>1 DEF Reached, SentenceInv
<1>3. /\ pending \in Text /\ Len(pending) = n - t
      /\ \A i \in 1..n - t : pending[i] = fed[t + i]
  BY <1>2, Slice DEF Text
<1>4. DOMAIN pending = 1..n - t
  BY <1>3, LenProperties DEF Text
<1>5. Boundaries(pending) =
        {i \in 1..n - t : pending[i] = Stop /\ (i = n - t \/ pending[i + 1] = Space)}
  BY <1>3, <1>4 DEF Boundaries
<1>6. ASSUME NEW b \in Boundaries(pending) PROVE t + b \in Open(t)
  <2>1. /\ b \in 1..n - t /\ fed[t + b] = Stop
        /\ b = n - t \/ pending[b + 1] = Space
    BY <1>3, <1>5
  <2>2. t + b \in t + 1..n
    BY <2>1, <1>2
  <2>3. CASE b = n - t
    <3>1. t + b = n
      BY <2>3, <2>1
    <3> QED BY <1>1, <2>1, <2>2, <3>1 DEF Open
  <2>4. CASE b # n - t
    <3>1. b + 1 \in 1..n - t /\ t + (b + 1) = (t + b) + 1
      BY <2>1, <2>4
    <3>2. fed[(t + b) + 1] = Space
      BY <1>3, <2>1, <2>4, <3>1
    <3> QED BY <1>1, <2>1, <2>2, <3>2 DEF Open
  <2> QED BY <2>3, <2>4
<1>7. ASSUME NEW e \in Open(t) PROVE e - t \in Boundaries(pending) /\ e = t + (e - t)
  <2>1. e \in t + 1..n /\ fed[e] = Stop /\ (e = n \/ fed[e + 1] = Space)
    BY <1>1 DEF Open
  <2>2. e - t \in 1..n - t /\ e = t + (e - t) /\ (e = n <=> e - t = n - t)
    BY <2>1
  <2>3. pending[e - t] = Stop
    BY <1>3, <2>1, <2>2
  <2>4. CASE e = n
    BY <1>5, <2>2, <2>3, <2>4
  <2>5. CASE e # n
    <3>1. (e - t) + 1 \in 1..n - t /\ t + ((e - t) + 1) = e + 1
      BY <2>1, <2>5
    <3>2. pending[(e - t) + 1] = Space
      BY <1>3, <2>1, <2>5, <3>1
    <3> QED BY <1>5, <2>2, <2>3, <3>2
  <2> QED BY <2>2, <2>4, <2>5
<1>8. Open(t) = {t + b : b \in Boundaries(pending)}
  BY <1>6, <1>7
<1> QED BY <1>1, <1>5, <1>8

\* A feed that has found its last sentence.
LEMMA FedKeeps ==
  ASSUME SentenceInv, Fed PROVE SentenceInv'
<1>1. /\ feeding /\ Boundaries(pending) = {} /\ UNCHANGED <<pending, sentences, fed, cuts, finished>>
      /\ ~finished
  BY DEF Fed, SentenceInv
<1>2. PICK c \in Nat, t \in Nat : Reached(c, t)
  BY <1>1 DEF SentenceInv
<1>3. Reached(c, t)'
  <2>1. Ends' = Ends /\ Open(t)' = Open(t)
    BY <1>1 DEF Ends, Open
  <2>2. \A k : Rank(k)' = Rank(k) /\ EndBefore(k)' = EndBefore(k)
    BY <2>1 DEF Rank, EndBefore
  <2>3. \A k : Piece(k)' = Piece(k)
    BY <1>1, <2>2 DEF Piece
  <2> QED BY <1>1, <1>2, <2>1, <2>2, <2>3 DEF Reached
<1>4. Open(t)' = {}
  <2>1. Open(t) = {}
    BY <1>1, <1>2, OpenBoundaries
  <2> QED BY <1>1, <2>1 DEF Open
<1> QED BY <1>1, <1>3, <1>4 DEF SentenceInv

\* One sentence is cut off.
LEMMA CutKeeps ==
  ASSUME SentenceInv, CutSentence PROVE SentenceInv'
<1>1. /\ feeding /\ Boundaries(pending) # {} /\ ~finished
      /\ UNCHANGED <<feeding, fed, cuts, finished>>
  BY DEF CutSentence, SentenceInv
<1>2. PICK c \in Nat, t \in Nat : Reached(c, t)
  BY <1>1 DEF SentenceInv
<1>3. PICK n \in Nat : n = Len(fed) /\ Ends \subseteq 1..n /\ fed \in Text /\ DOMAIN fed = 1..n
  BY EndsAreFinite DEF SentenceInv
<1>4. /\ c <= t /\ t <= n /\ n <= Len(fed) /\ c \in {0} \cup Ends
      /\ (\A j \in c + 1..t : fed[j] = Space)
      /\ pending = SubSeq(fed, t + 1, n) /\ {e \in Ends : e > c} = Open(t)
  BY <1>2, <1>3 DEF Reached
<1>5. PICK b \in 1..n - t : /\ b = Min(Boundaries(pending)) /\ b \in Boundaries(pending)
                            /\ \A i \in Boundaries(pending) : b <= i
  <2>1. Boundaries(pending) \subseteq 1..n - t
    BY <1>2, <1>3, OpenBoundaries
  <2>2. Boundaries(pending) \in SUBSET Nat
    BY <2>1
  <2> QED BY <1>1, <2>1, <2>2, MinOf
<1>k. PICK k \in Nat : k = t + b
  OBVIOUS
<1>6. /\ k \in Open(t) /\ k \in t + 1..n /\ k - t = b
      /\ \A e \in Open(t) : k <= e
  <2>1. Open(t) = {t + i : i \in Boundaries(pending)} /\ Boundaries(pending) \subseteq 1..n - t
    BY <1>2, <1>3, OpenBoundaries
  <2>2. ASSUME NEW i \in Boundaries(pending) PROVE k <= t + i
    <3>1. i \in 1..n - t /\ b <= i
      BY <1>5, <2>1
    <3> QED BY <1>k, <3>1
  <2>3. k \in t + 1..n /\ k - t = b
    BY <1>k, <1>4
  <2> QED BY <1>k, <1>5, <2>1, <2>2, <2>3
<1>7. k \in Ends /\ c < k /\ \A e \in Ends : c < e => k <= e
  <2>1. k \in Ends /\ k > c
    BY <1>4, <1>6
  <2>2. ASSUME NEW e \in Ends, c < e PROVE k <= e
    <3>1. e > c
      BY <2>2
    <3> QED BY <1>4, <1>6, <3>1
  <2> QED BY <2>1, <2>2
<1>8. /\ Rank(k) = Rank(c) + 1 /\ EndBefore(k) = c
      /\ \A e \in Ends : e <= k <=> e <= c \/ e = k
  BY <1>4, <1>7, NextEnd
<1> DEFINE sentence == Trim(SubSeq(pending, 1, b))
<1>9. sentence = Piece(k)
  <2>1. SubSeq(pending, 0 + 1, b) = SubSeq(fed, t + 0 + 1, t + b)
    <3>1. 0 <= b /\ b <= n - t /\ b \in Nat /\ 0 \in Nat
      OBVIOUS
    <3> QED BY <1>3, <1>4, <3>1, SliceOfSlice DEF Text
  <2>2. 0 + 1 = 1 /\ t + 0 + 1 = t + 1
    OBVIOUS
  <2>3. sentence = Trim(SubSeq(fed, t + 1, k))
    BY <1>k, <2>1, <2>2
  <2>4. c <= t /\ t <= k /\ k <= n
    BY <1>4, <1>6
  <2>5. k <= Len(fed)
    BY <1>3, <2>4
  <2>6. Trim(SubSeq(fed, c + 1, k)) = Trim(SubSeq(fed, t + 1, k))
    <3>1. fed \in Text /\ k \in Nat /\ \A j \in c + 1..t : fed[j] = Space
      BY <1>3, <1>4, <1>k
    <3> QED BY <2>4, <2>5, <3>1, TrimSame
  <2> QED BY <1>8, <2>3, <2>6 DEF Piece
<1>10. sentence \in Text /\ sentence # <<>>
  <2>1. Stop # Space /\ fed[k] = Stop
    BY <1>6 DEF Open, Stop, Space
  <2> DEFINE K == Ink(fed, c, k)
  <2>2. k \in K
    <3>1. k \in c + 1..k
      BY <1>7
    <3> QED BY <2>1, <3>1 DEF Ink
  <2>3. K \in SUBSET (c + 1..k)
    BY DEF Ink
  <2>4. k <= n /\ c <= k
    BY <1>6, <1>7
  <2>5. k <= Len(fed)
    BY <1>3, <2>4
  <2>6. Piece(k) = SubSeq(fed, Min(K), Max(K))
    BY <1>3, <1>8, <2>2, <2>4, <2>5, TrimSlice DEF Piece
  <2> HIDE DEF K
  <2>7. Min(K) \in c + 1..k /\ Max(K) \in c + 1..k /\ Min(K) <= Max(K)
    BY <2>2, <2>3, MinShift
  <2>x. PICK x \in Nat : Min(K) = x + 1
    <3>1. Min(K) - 1 \in Nat /\ Min(K) = (Min(K) - 1) + 1
      BY <2>7
    <3> QED BY <3>1
  <2>y. PICK y \in Nat : y = Max(K)
    BY <2>7
  <2>8. x <= y /\ y <= n /\ y - x # 0
    BY <2>7, <2>x, <2>y, <2>4
  <2>9. y <= Len(fed)
    BY <1>3, <2>8
  <2>10. SubSeq(fed, x + 1, y) \in Text /\ Len(SubSeq(fed, x + 1, y)) = y - x
    BY <1>3, <2>8, <2>9, Slice DEF Text
  <2>11. SubSeq(fed, x + 1, y) # <<>>
    BY <2>8, <2>10, EmptySeq
  <2> QED BY <1>9, <2>6, <2>x, <2>y, <2>10, <2>11
<1>11. sentences' = Append(sentences, sentence)
  BY <1>5, <1>10 DEF CutSentence
<1>12. PICK u \in k..n : /\ pending' = SubSeq(fed, u + 1, n)
                         /\ \A j \in k + 1..u : fed[j] = Space
  <2>1. Len(pending) = n - t
    BY <1>3, <1>4, Slice DEF Text
  <2>2. pending' = TrimStart(SubSeq(pending, b + 1, n - t))
    BY <1>5, <2>1 DEF CutSentence
  <2>3. b <= n - t /\ n - t \in Nat /\ b \in Nat /\ t + (n - t) = n /\ n - t <= n - t
    BY <1>4
  <2>4. SubSeq(pending, b + 1, n - t) = SubSeq(fed, t + b + 1, t + (n - t))
    BY <1>3, <1>4, <2>3, SliceOfSlice DEF Text
  <2>5. pending' = TrimStart(SubSeq(fed, k + 1, n))
    BY <1>k, <2>2, <2>3, <2>4
  <2>6. k <= n
    BY <1>6
  <2> QED BY <1>3, <1>4, <2>5, <2>6, TrimStartSlice
<1> HIDE DEF sentence
<1>13. Ends' = Ends /\ Open(u)' = Open(u) /\ fed' = fed
  BY <1>1 DEF Ends, Open
<1>14. \A e : Rank(e)' = Rank(e) /\ EndBefore(e)' = EndBefore(e)
  BY <1>13 DEF Rank, EndBefore
<1>15. \A e : Piece(e)' = Piece(e)
  BY <1>13, <1>14 DEF Piece
<1>16. {e \in Ends : e > k} = Open(u)
  <2>1. ASSUME NEW e \in Ends, e > k PROVE e \in Open(u)
    <3>1. e \in 1..n /\ e > c
      BY <1>3, <1>7, <2>1
    <3>2. e \in Open(t)
      BY <1>4, <3>1
    <3>3. fed[e] = Stop /\ Stop # Space
      BY <3>2 DEF Open, Stop, Space
    <3>4. e \notin k + 1..u
      BY <1>12, <3>3
    <3>5. e \in u + 1..n
      BY <2>1, <3>1, <3>4
    <3> QED BY <1>3, <3>2, <3>5 DEF Open
  <2>2. ASSUME NEW e \in Open(u) PROVE e \in Ends /\ e > k
    <3>1. e \in u + 1..n
      BY <1>3 DEF Open
    <3>2. e > k /\ e \in t + 1..n
      BY <1>6, <3>1
    <3>3. e \in Open(t)
      BY <1>3, <3>2 DEF Open
    <3> QED BY <1>4, <3>2, <3>3
  <2> QED BY <2>1, <2>2
<1>17. sentences \in Seq(Text) /\ Len(sentences) = Rank(c) /\ Rank(c) \in Nat
  BY <1>2, EndsAreFinite DEF SentenceInv, Reached
<1>18. /\ sentences' \in Seq(Text) /\ Len(sentences') = Rank(k) /\ sentences'[Rank(k)] = Piece(k)
       /\ \A i \in 1..Rank(c) : sentences'[i] = sentences[i]
  BY <1>8, <1>9, <1>10, <1>11, <1>17, AppendProperties
<1>19. ASSUME NEW e \in Ends, e <= k PROVE sentences'[Rank(e)] = Piece(e)
  <2>1. CASE e = k
    BY <1>18, <2>1
  <2>2. CASE e # k
    <3>1. e <= c
      BY <1>8, <1>19, <2>2
    <3>2. sentences[Rank(e)] = Piece(e)
      BY <1>2, <3>1 DEF Reached
    <3>3. Rank(e) \in 1..Rank(c)
      BY <1>4, <3>1, RankUpTo
    <3> QED BY <1>18, <3>2, <3>3
  <2> QED BY <2>1, <2>2
<1>20. Reached(k, u)'
  <2>1. k <= u /\ u <= n
    OBVIOUS
  <2> QED BY <1>3, <1>7, <1>12, <1>13, <1>14, <1>15, <1>16, <1>18, <1>19, <2>1 DEF Reached
<1>21. u \in Nat
  OBVIOUS
<1> QED BY <1>1, <1>13, <1>18, <1>20, <1>21 DEF SentenceInv

\* What comes in is behind what was there.
LEMMA FeedKeeps ==
  ASSUME SentenceInv, Feed PROVE SentenceInv'
<1>1. /\ ~finished /\ ~feeding /\ feeding' = TRUE /\ UNCHANGED <<sentences, rest, finished>>
  BY DEF Feed
<1>2. PICK chunk \in Text : pending' = pending \o chunk /\ fed' = fed \o chunk
  BY ChunkAssumption DEF Feed
<1>3. PICK n \in Nat : n = Len(fed) /\ Ends \subseteq 1..n /\ fed \in Text /\ DOMAIN fed = 1..n
  BY EndsAreFinite DEF SentenceInv
<1>m. PICK m \in Nat : m = Len(chunk)
  BY LenProperties DEF Text
<1>p. PICK p \in Nat : p = n + m
  OBVIOUS
<1>4. /\ fed' \in Text /\ Len(fed') = p /\ DOMAIN fed' = 1..p
      /\ \A i \in 1..n : fed'[i] = fed[i]
      /\ \A i \in 1..m : fed'[n + i] = chunk[i]
  <2>1. /\ fed' \in Text /\ Len(fed') = p
        /\ \A i \in 1..n : fed'[i] = fed[i]
        /\ \A i \in 1..m : fed'[n + i] = chunk[i]
    BY <1>2, <1>3, <1>m, <1>p, ConcatProperties DEF Text
  <2> QED BY <2>1, LenProperties DEF Text
<1>5. cuts' = cuts \cup {p} /\ cuts \subseteq 0..n /\ (n # 0 => n \in cuts)
  <2>1. cuts' = cuts \cup {p}
    BY <1>4 DEF Feed
  <2>2. n # 0 => fed # <<>>
    BY <1>3, EmptySeq
  <2> QED BY <1>3, <2>1, <2>2 DEF SentenceInv
<1>6. PICK c \in Nat, t \in Nat : Reached(c, t) /\ Open(t) = {}
  BY <1>1 DEF SentenceInv
<1>7. /\ c <= t /\ t <= n /\ n <= p /\ c \in {0} \cup Ends
      /\ (\A j \in c + 1..t : fed[j] = Space)
      /\ pending = SubSeq(fed, t + 1, n) /\ {e \in Ends : e > c} = {}
      /\ Len(sentences) = Rank(c)
      /\ \A k \in Ends : k <= c => sentences[Rank(k)] = Piece(k)
  BY <1>3, <1>6, <1>p DEF Reached
<1>8. ASSUME NEW k \in Ends PROVE k <= c
  <2>1. ~(k > c) /\ k \in Nat
    BY <1>3, <1>7
  <2> QED BY <2>1
<1>9. Ends = {k \in 1..n : fed[k] = Stop /\ (k \in cuts \/ fed[k + 1] = Space)}
  BY <1>3 DEF Ends
<1>10. Ends' = {k \in 1..p : fed'[k] = Stop /\ (k \in cuts' \/ fed'[k + 1] = Space)}
  BY <1>4 DEF Ends
<1>11. ASSUME NEW k \in 1..n PROVE k \in Ends' <=> k \in Ends
  <2>1. k \in 1..p /\ fed'[k] = fed[k]
    BY <1>4, <1>7
  <2>2. CASE k = n
    BY <1>5, <1>9, <1>10, <2>1, <2>2
  <2>3. CASE k # n
    <3>1. k + 1 \in 1..n /\ k # p
      BY <2>3, <1>7
    <3>2. fed'[k + 1] = fed[k + 1] /\ (k \in cuts' <=> k \in cuts)
      BY <1>4, <1>5, <3>1
    <3> QED BY <1>9, <1>10, <2>1, <3>2
  <2> QED BY <2>2, <2>3
<1>12. ASSUME NEW k \in n + 1..p
       PROVE  k \in Ends' <=> fed'[k] = Stop /\ (k = p \/ fed'[k + 1] = Space)
  <2>1. k \in 1..p /\ k \notin cuts
    BY <1>5
  <2> QED BY <1>5, <1>10, <2>1
<1>13. ASSUME NEW k \in 1..n PROVE fed[k] = Stop /\ fed[k] # Space /\ k > c => k < n /\ fed'[k + 1] # Space
  <2>1. SUFFICES ASSUME fed[k] = Stop, k > c PROVE k < n /\ fed'[k + 1] # Space
    OBVIOUS
  <2>2. k \notin Ends
    BY <1>8, <2>1
  <2>3. k \notin cuts /\ fed[k + 1] # Space
    BY <1>9, <2>1, <2>2
  <2>4. k # n
    BY <1>5, <2>3
  <2>5. k < n /\ k + 1 \in 1..n
    BY <2>4
  <2> QED BY <1>4, <2>3, <2>5
<1>14. {e \in Ends' : e > c} = Open(t)'
  <2>1. Open(t)' = {e \in t + 1..p : fed'[e] = Stop /\ (e = p \/ fed'[e + 1] = Space)}
    BY <1>4 DEF Open
  <2>2. ASSUME NEW e \in Ends', e > c PROVE e \in Open(t)'
    <3>1. e \in 1..p /\ e \in Nat
      BY <1>10
    <3>2. e \notin 1..n
      BY <1>8, <1>11, <2>2, <3>1
    <3>3. e \in n + 1..p /\ e \in t + 1..p
      BY <1>7, <3>1, <3>2
    <3> QED BY <1>12, <2>1, <3>3
  <2>3. ASSUME NEW e \in Open(t)' PROVE e \in Ends' /\ e > c
    <3>1. e \in t + 1..p /\ fed'[e] = Stop /\ (e = p \/ fed'[e + 1] = Space)
      BY <2>1
    <3>2. e > c
      BY <1>7, <3>1
    <3>3. CASE e \in 1..n
      <4>1. fed[e] = Stop /\ Stop # Space
        BY <1>4, <3>1, <3>3 DEF Stop, Space
      <4>2. e < n /\ fed'[e + 1] # Space
        BY <1>13, <3>2, <3>3, <4>1
      <4>3. e # p
        BY <1>7, <4>2, <3>3
      <4> QED BY <3>1, <4>2, <4>3
    <3>4. CASE e \notin 1..n
      <4>1. e \in n + 1..p
        BY <1>7, <3>1, <3>4
      <4> QED BY <1>12, <3>1, <3>2, <4>1
    <3> QED BY <3>3, <3>4
  <2> QED BY <2>2, <2>3
<1>15. {e \in Ends' : e <= c} = Ends
  <2>1. ASSUME NEW e \in Ends', e <= c PROVE e \in Ends
    <3>1. e \in 1..n
      BY <1>7, <1>10, <2>1
    <3> QED BY <1>11, <3>1
  <2>2. ASSUME NEW e \in Ends PROVE e \in Ends' /\ e <= c
    BY <1>3, <1>8, <1>11
  <2> QED BY <2>1, <2>2
<1>16. ASSUME NEW k \in Nat, k <= c
       PROVE  {e \in Ends' : e <= k} = {e \in Ends : e <= k} /\ {e \in Ends' : e < k} = {e \in Ends : e < k}
  <2>1. ASSUME NEW e \in Ends', e <= k PROVE e \in Ends
    <3>1. e \in Nat
      BY <1>10
    <3>2. e <= c
      BY <1>16, <2>1, <3>1
    <3> QED BY <1>15, <3>2
  <2>2. Ends \subseteq Ends'
    BY <1>15
  <2>3. ASSUME NEW e \in Ends', e < k PROVE e \in Ends
    <3>1. e \in Nat
      BY <1>10
    <3>2. e <= k
      BY <2>3, <3>1
    <3> QED BY <2>1, <3>2
  <2> QED BY <2>1, <2>2, <2>3
<1>17. ASSUME NEW k \in Nat, k <= c PROVE Rank(k)' = Rank(k) /\ EndBefore(k)' = EndBefore(k)
  BY <1>16, <1>17 DEF Rank, EndBefore
<1>18. ASSUME NEW k \in Ends PROVE Piece(k)' = Piece(k)
  <2>1. k \in 1..n /\ k <= c /\ k \in Nat
    BY <1>3, <1>8
  <2> DEFINE B == {0} \cup {e \in Ends : e < k}
  <2>2. B \in SUBSET (0..n) /\ B # {}
    <3>1. 1..n \subseteq 0..n /\ 0 \in 0..n
      OBVIOUS
    <3> QED BY <1>3, <3>1
  <2>3. Max(B) \in B
    <3> HIDE DEF B
    <3> QED BY <2>2, MaxOf
  <2>4. PICK a \in Nat : a = EndBefore(k) /\ a <= k
    <3>1. Max(B) \in Nat /\ Max(B) <= k
      <4>1. Max(B) = 0 \/ (Max(B) \in 1..n /\ Max(B) < k)
        BY <1>3, <2>3
      <4> QED BY <2>1, <4>1
    <3> QED BY <3>1 DEF EndBefore
  <2>5. EndBefore(k)' = a
    BY <1>17, <2>1, <2>4
  <2>6. SubSeq(fed', a + 1, k) = SubSeq(fed, a + 1, k)
    <3>1. k <= n /\ k <= p
      BY <1>7, <2>1
    <3>2. k <= Len(fed) /\ k <= Len(fed')
      BY <1>3, <1>4, <3>1
    <3> DEFINE v == SubSeq(fed', a + 1, k)
               w == SubSeq(fed, a + 1, k)
    <3>3. /\ v \in Text /\ Len(v) = k - a
          /\ \A i \in 1..k - a : v[i] = fed'[a + i]
      <4>1. fed' \in Text
        BY <1>4
      <4> QED BY <2>1, <2>4, <3>2, <4>1, TextSlice
    <3>4. /\ w \in Text /\ Len(w) = k - a
          /\ \A i \in 1..k - a : w[i] = fed[a + i]
      <4>1. fed \in Text
        BY <1>3
      <4> QED BY <2>1, <2>4, <3>2, <4>1, TextSlice
    <3> HIDE DEF v, w
    <3>5. ASSUME NEW i \in 1..k - a PROVE v[i] = w[i]
      <4>1. a + i \in 1..n
        BY <2>1, <2>4
      <4> QED BY <1>4, <3>3, <3>4, <4>1
    <3>6. v = w
      BY <3>3, <3>4, <3>5, SeqEqual DEF Text
    <3> QED BY <3>6 DEF v, w
  <2> QED BY <2>4, <2>5, <2>6 DEF Piece
<1>19. pending' = SubSeq(fed', t + 1, p)
  <2> DEFINE v == pending \o chunk
             w == SubSeq(fed', t + 1, p)
  <2>1. n <= Len(fed) /\ p <= Len(fed') /\ t <= p
    BY <1>3, <1>4, <1>7
  <2>2. /\ pending \in Text /\ Len(pending) = n - t
        /\ \A i \in 1..n - t : pending[i] = fed[t + i]
    BY <1>3, <1>7, <2>1, Slice DEF Text
  <2>3. /\ w \in Text /\ Len(w) = p - t
        /\ \A i \in 1..p - t : w[i] = fed'[t + i]
    BY <1>4, <2>1, Slice DEF Text
  <2>q. PICK q \in Nat : q = n - t
    BY <1>7
  <2>4. /\ v \in Text /\ Len(v) = q + m
        /\ \A i \in 1..q : v[i] = pending[i]
        /\ \A i \in 1..m : v[q + i] = chunk[i]
    <3>1. /\ v \in Text /\ Len(v) = Len(pending) + Len(chunk)
          /\ \A i \in 1..Len(pending) : v[i] = pending[i]
          /\ \A i \in 1..Len(chunk) : v[Len(pending) + i] = chunk[i]
      <4> DEFINE C == {Stop, Space, Letter}
      <4>1. pending \in Seq(C) /\ chunk \in Seq(C)
        BY <2>2 DEF Text
      <4> HIDE DEF C
      <4>2. /\ v \in Seq(C) /\ Len(v) = Len(pending) + Len(chunk)
            /\ \A i \in 1..Len(pending) : v[i] = pending[i]
            /\ \A i \in 1..Len(chunk) : v[Len(pending) + i] = chunk[i]
        BY <4>1, ConcatProperties
      <4> QED BY <4>2 DEF C, Text
    <3>2. Len(pending) = q /\ Len(chunk) = m
      BY <1>m, <2>2, <2>q
    <3> QED BY <3>1, <3>2
  <2> HIDE DEF v, w
  <2>5. ASSUME NEW i \in 1..q + m PROVE v[i] = w[i]
    <3>1. w[i] = fed'[t + i]
      BY <1>p, <2>3, <2>q
    <3>2. CASE i \in 1..q
      <4>1. t + i \in 1..n
        BY <2>q, <3>2
      <4> QED BY <1>4, <2>2, <2>4, <2>q, <3>1, <3>2, <4>1
    <3>3. CASE i \notin 1..q
      <4>1. i - q \in 1..m /\ q + (i - q) = i /\ n + (i - q) = t + i
        BY <2>q, <3>3
      <4>2. v[i] = chunk[i - q] /\ fed'[t + i] = chunk[i - q]
        BY <1>4, <2>4, <4>1
      <4> QED BY <3>1, <4>2
    <3> QED BY <3>2, <3>3
  <2>6. Len(w) = q + m
    BY <1>p, <2>3, <2>q
  <2>7. v = w
    BY <2>3, <2>4, <2>5, <2>6, SeqEqual DEF Text
  <2> QED BY <1>2, <2>7 DEF v, w
<1>20. Reached(c, t)'
  <2>1. c \in {0} \cup Ends'
    BY <1>7, <1>15
  <2>2. t <= p
    BY <1>7
  <2>3. ASSUME NEW j \in c + 1..t PROVE fed'[j] = Space
    <3>1. j \in 1..n
      BY <1>7
    <3> QED BY <1>4, <1>7, <3>1
  <2>4. Len(sentences') = Rank(c)'
    BY <1>1, <1>7, <1>17
  <2>5. ASSUME NEW k \in Ends', k <= c PROVE sentences'[Rank(k)'] = Piece(k)'
    <3>1. k \in Ends /\ k \in Nat
      <4>1. k \in Ends
        BY <1>15, <2>5
      <4> QED BY <1>3, <4>1
    <3> QED BY <1>1, <1>7, <1>17, <1>18, <2>5, <3>1
  <2> QED BY <1>4, <1>7, <1>14, <1>19, <2>1, <2>2, <2>3, <2>4, <2>5 DEF Reached
<1>21. cuts' \subseteq 0..Len(fed') /\ Len(fed') \in cuts'
  BY <1>4, <1>5, <1>7
<1> QED BY <1>1, <1>4, <1>20, <1>21 DEF SentenceInv

LEMMA SentenceInvNext == SentenceInv /\ [SentenceNext]_sentenceVars => SentenceInv'
<1> SUFFICES ASSUME SentenceInv, [SentenceNext]_sentenceVars PROVE SentenceInv'
  OBVIOUS
<1>1. CASE SentenceNext
  BY <1>1, FeedKeeps, CutKeeps, FedKeeps, FinishKeeps DEF SentenceNext
<1>2. CASE UNCHANGED sentenceVars
  <2>1. UNCHANGED <<pending, sentences, feeding, rest, fed, cuts, finished>>
    BY <1>2 DEF sentenceVars
  <2>2. Ends' = Ends /\ \A t : Open(t)' = Open(t)
    BY <2>1 DEF Ends, Open
  <2>3. \A k : Rank(k)' = Rank(k) /\ EndBefore(k)' = EndBefore(k)
    BY <2>2 DEF Rank, EndBefore
  <2>4. \A k : Piece(k)' = Piece(k)
    BY <2>1, <2>3 DEF Piece
  <2>5. \A c, t : Reached(c, t) => Reached(c, t)'
    BY <2>1, <2>2, <2>3, <2>4 DEF Reached
  <2>6. SplitsExactly => SplitsExactly'
    BY <2>1, <2>2, <2>3 DEF SplitsExactly
  <2>7. ~finished => \E c, t \in Nat : Reached(c, t)' /\ (~feeding => Open(t)' = {})
    BY <2>2, <2>5 DEF SentenceInv
  <2> QED BY <2>1, <2>6, <2>7 DEF SentenceInv
<1> QED BY <1>1, <1>2

\* Whatever text comes in whatever chunks, it is cut into its sentences.
THEOREM SentencesSplitExactly == SentenceSpec => []SplitsExactly
<1>1. SentenceInit => SentenceInv
  BY SentenceInvInit
<1>2. SentenceInv /\ [SentenceNext]_sentenceVars => SentenceInv'
  BY SentenceInvNext
<1>3. SentenceInv => SplitsExactly
  BY SentenceInvSplits
<1> QED BY <1>1, <1>2, <1>3, PTL DEF SentenceSpec

-----------------------------------------------------------------------------
(* Clustering *)

\* A sorted set of numbers starts with the least of them.
LEMMA SortedNumbers ==
  ASSUME NEW S \in SUBSET Nat, IsFiniteSet(S), S # {}, NEW s, s = Ascending(S)
  PROVE  /\ s \in Seq(S) /\ s # <<>> /\ ToSet(s) = S
         /\ \A x \in S : Head(s) <= x
<1> DEFINE n == Cardinality(S)
           R == {ab \in S \X S : ab[1] < ab[2]}
<1>1. \A a, b \in S : <<a, b>> \in R <=> a < b
  OBVIOUS
<1> HIDE DEF R
<1>2. Orders(R, S)
  BY <1>1 DEF Orders
<1>3. PICK f \in Bijection(1..n, S) : \A i, j \in 1..n : i < j => <<f[i], f[j]>> \in R
  BY <1>2, Arrangement
<1>4. f \in [1..n -> S] /\ \A i, j \in DOMAIN f : i < j => f[i] < f[j]
  BY <1>1, <1>3 DEF Bijection, Injection
<1>5. s \in [1..n -> S] /\ \A i, j \in DOMAIN s : i < j => s[i] < s[j]
  BY <1>4 DEF Sorted, Ascending
<1>6. \A i, j \in 1..n : i < j => <<s[i], s[j]>> \in R
  BY <1>1, <1>5
<1>7. s \in Bijection(1..n, S) /\ Len(s) = n
  BY <1>2, <1>5, <1>6, InOrder
<1>8. n \in Nat /\ n # 0
  BY FS_CardinalityType, FS_EmptySet
<1>9. s \in Seq(S) /\ s # <<>> /\ Head(s) = s[1] /\ DOMAIN s = 1..n
  BY <1>5, <1>7, <1>8
<1>10. ToSet(s) = S
  BY <1>5, <1>7 DEF ToSet, Bijection, Surjection
<1>11. ASSUME NEW x \in S PROVE s[1] <= x
  <2>1. PICK i \in 1..n : s[i] = x
    BY <1>7 DEF Bijection, Surjection
  <2>2. 1 \in 1..n /\ (i = 1 \/ 1 < i)
    BY <1>8
  <2>3. s[1] \in S
    BY <1>5, <2>2
  <2>4. s[1] \in Nat /\ x \in Nat
    BY <2>3
  <2>5. 1 < i => s[1] < s[i]
    BY <1>5, <2>2
  <2> QED BY <2>1, <2>2, <2>4, <2>5
<1> QED BY <1>9, <1>10, <1>11

\* The entry a cluster was begun with, and all of its entries.
Anchor(c) == Head(clusters[c])

Members(c) == ToSet(clusters[c])

\* What is true of a cluster: its members have no earlier anchor they are
\* similar to.
ClusterOK(c) ==
  /\ Anchor(c) \in Nat /\ Anchor(c) < anchor /\ Members(c) \subseteq assigned
  /\ \A i \in Members(c) :
       /\ Anchor(c) <= i
       /\ i # Anchor(c) => {Anchor(c), i} \in similar
       /\ \A d \in 1..Len(clusters) : Anchor(d) < i /\ {Anchor(d), i} \in similar
            => i # Anchor(c) /\ Anchor(c) <= Anchor(d)

\* The loop up to the anchor: every entry before it has its one cluster, whose
\* head is the first anchor it is similar to; an entry without a cluster is
\* similar to no anchor so far.
GreedyInv ==
  /\ anchor \in 1..size + 1
  /\ assigned \subseteq 1..size /\ 1..anchor - 1 \subseteq assigned
  /\ clusters \in Seq(Seq(1..size) \ {<<>>})
  /\ \A c \in 1..Len(clusters) : ClusterOK(c)
  /\ \A i \in assigned : \E c \in 1..Len(clusters) : i \in Members(c)
  /\ \A c, d \in 1..Len(clusters) : c # d => Members(c) \cap Members(d) = {}
  /\ \A i \in (1..size) \ assigned : \A d \in 1..Len(clusters) : {Anchor(d), i} \notin similar

Chars == Nat \X Nat

\* A summary as ClustersAreGreedy wants it.
SummaryOK(s) ==
  /\ Len(s.summary_content) <= SummaryChars
  /\ {char[1] : char \in ToSet(s.summary_content)} \subseteq ToSet(s.original_ids) \cup {0}
  /\ Len(s.summary_content) < SummaryChars =>
       \A i \in ToSet(s.original_ids) :
         ToSet(Characters(i)) \subseteq ToSet(s.summary_content)

\* The members whose contents the summary under construction has.
Pushed == {clusters[turn][k] : k \in 1..member - 1}

Building ==
  /\ member <= Len(clusters[turn]) + 1
  /\ TooSmall(clusters[turn]) => member = 1 /\ text = <<>>
  /\ \A char \in ToSet(text) : char[1] \in Pushed \cup {0}
  /\ \A i \in Pushed : ToSet(Characters(i)) \subseteq ToSet(text)

Summary == [summary_content : Seq(Chars), original_ids : Seq(1..size)]

\* The loop over the clusters: it starts when the other one has ended.
SummaryInv ==
  /\ content \in [1..size -> Nat]
  /\ turn \in Nat \ {0} /\ member \in Nat \ {0} /\ text \in Seq(Chars)
  /\ anchor <= size => turn = 1 /\ member = 1 /\ text = <<>>
  /\ turn <= Len(clusters) => Building
  /\ summaries \in Seq(Summary)
  /\ \A s \in ToSet(summaries) : SummaryOK(s)

ClusterInv == size \in Nat /\ GreedyInv /\ SummaryInv

LEMMA ClusterInvInit == ClusterInit => ClusterInv
<1> SUFFICES ASSUME ClusterInit PROVE ClusterInv
  OBVIOUS
<1>1. anchor = 1 /\ assigned = {} /\ clusters = <<>>
      /\ turn = 1 /\ member = 1 /\ text = <<>> /\ summaries = <<>>
  BY DEF ClusterInit
<1>2. size \in Nat /\ content \in [1..size -> Lengths] /\ Lengths \subseteq Nat
  BY ClusteringAssumption DEF ClusterInit
<1>3. content \in [1..size -> Nat]
  BY <1>2
<1>4. GreedyInv
  BY <1>1, <1>2 DEF GreedyInv
<1>5. SummaryInv
  BY <1>1, <1>3 DEF SummaryInv, ToSet
<1> QED BY <1>2, <1>4, <1>5 DEF ClusterInv

\* A new cluster gathers the entries that had to wait for this anchor.
LEMMA NewClusterGreedy ==
  ASSUME ClusterInv, NewCluster PROVE GreedyInv'
<1> DEFINE S == {anchor} \cup Joining
           s == Ascending(S)
           New == Seq(1..size) \ {<<>>}
<1>1. size \in Nat /\ anchor \in 1..size /\ anchor \notin assigned /\ assigned \subseteq 1..size
      /\ 1..anchor - 1 \subseteq assigned /\ clusters \in Seq(New)
  BY DEF ClusterInv, GreedyInv, NewCluster
<1>2. S \subseteq 1..size /\ S # {} /\ anchor \in S /\ \A x \in S : anchor <= x
  BY <1>1 DEF Joining
<1>3. s \in New /\ ToSet(s) = S /\ Head(s) = anchor
  <2>1. IsFiniteSet(S)
    <3>1. IsFiniteSet(1..size)
      BY <1>1, FS_Interval
    <3> HIDE DEF S
    <3> QED BY <1>2, <3>1, FS_Subset
  <2>2. S \subseteq Nat
    BY <1>1, <1>2
  <2> HIDE DEF S
  <2>3. s \in Seq(S) /\ s # <<>> /\ ToSet(s) = S /\ \A x \in S : Head(s) <= x
    BY <1>2, <2>1, <2>2, SortedNumbers
  <2> HIDE DEF s
  <2>4. Head(s) \in S
    BY <2>3, HeadTailProperties
  <2>5. Head(s) <= anchor /\ anchor <= Head(s) /\ Head(s) \in Nat /\ anchor \in Nat
    BY <1>2, <2>2, <2>3, <2>4
  <2>6. Head(s) = anchor
    BY <2>5
  <2>7. s \in Seq(1..size)
    BY <1>2, <2>3, SeqMonotonic
  <2> QED BY <2>3, <2>6, <2>7
<1>4. /\ clusters' = Append(clusters, s) /\ anchor' = anchor + 1 /\ size' = size /\ similar' = similar
      /\ assigned' = assigned \cup S
  BY DEF NewCluster
<1> HIDE DEF s, New
<1>n. PICK n \in Nat : n = Len(clusters)
  BY <1>1, LenProperties
<1>5. /\ clusters' \in Seq(New) /\ Len(clusters') = n + 1 /\ clusters'[n + 1] = s
      /\ \A c \in 1..n : clusters'[c] = clusters[c]
  BY <1>1, <1>3, <1>4, <1>n, AppendProperties
<1>6. /\ Members(n + 1)' = S /\ Anchor(n + 1)' = anchor
      /\ \A c \in 1..n : Members(c)' = Members(c) /\ Anchor(c)' = Anchor(c)
  BY <1>3, <1>5 DEF Members, Anchor
<1>7. \A i \in S : i # anchor => i \notin assigned /\ {anchor, i} \in similar
  BY DEF Joining
<1>8. \A i \in (1..size) \ (assigned \cup S) : {anchor, i} \notin similar
  BY <1>1 DEF Joining
<1> HIDE DEF S
<1>9. /\ anchor' \in 1..size' + 1
      /\ assigned' \subseteq 1..size' /\ 1..anchor' - 1 \subseteq assigned'
  BY <1>1, <1>2, <1>4
<1>10. /\ \A c \in 1..n : ClusterOK(c)
       /\ \A i \in assigned : \E c \in 1..n : i \in Members(c)
       /\ \A c, d \in 1..n : c # d => Members(c) \cap Members(d) = {}
       /\ \A i \in (1..size) \ assigned : \A d \in 1..n : {Anchor(d), i} \notin similar
  BY <1>n DEF ClusterInv, GreedyInv
<1>11. \A i \in assigned' : \E c \in 1..n + 1 : i \in Members(c)'
  <2>1. ASSUME NEW i \in assigned PROVE \E c \in 1..n + 1 : i \in Members(c)'
    <3>1. PICK c \in 1..n : i \in Members(c)
      BY <1>10
    <3>2. c \in 1..n + 1 /\ i \in Members(c)'
      BY <1>5, <1>6, <3>1
    <3> QED BY <3>2
  <2>2. ASSUME NEW i \in S PROVE \E c \in 1..n + 1 : i \in Members(c)'
    <3>1. n + 1 \in 1..n + 1
      OBVIOUS
    <3> QED BY <1>6, <3>1
  <2> QED BY <1>4, <2>1, <2>2
<1>12. \A c \in 1..n + 1 : c \in 1..n \/ c = n + 1
  OBVIOUS
<1>13. \A c \in 1..n : Members(c) \cap S = {}
  <2>1. ASSUME NEW c \in 1..n PROVE Members(c) \subseteq assigned
    BY <1>10 DEF ClusterOK
  <2> QED BY <1>1, <1>7, <2>1
<1>14. \A c, d \in 1..n + 1 : c # d => Members(c)' \cap Members(d)' = {}
  BY <1>6, <1>10, <1>12, <1>13
<1>15. ASSUME NEW c \in 1..n + 1
       PROVE  /\ Anchor(c)' \in Nat /\ Anchor(c)' < anchor' /\ Members(c)' \subseteq assigned'
              /\ \A i \in Members(c)' :
                   /\ Anchor(c)' <= i
                   /\ i # Anchor(c)' => {Anchor(c)', i} \in similar'
                   /\ \A d \in 1..n + 1 : Anchor(d)' < i /\ {Anchor(d)', i} \in similar'
                        => i # Anchor(c)' /\ Anchor(c)' <= Anchor(d)'
  <2>1. CASE c = n + 1
    <3>1. ASSUME NEW i \in S
          PROVE  /\ anchor <= i /\ (i # anchor => {anchor, i} \in similar)
                 /\ \A d \in 1..n + 1 : Anchor(d)' < i /\ {Anchor(d)', i} \in similar
                      => i # anchor /\ anchor <= Anchor(d)'
      <4>1. ASSUME NEW d \in 1..n PROVE {Anchor(d), i} \notin similar
        <5>1. i \in (1..size) \ assigned
          BY <1>1, <1>2, <1>7
        <5> QED BY <1>10, <5>1
      <4>2. anchor \in Nat /\ i \in Nat
        BY <1>1, <1>2
      <4> QED BY <1>2, <1>6, <1>7, <1>12, <4>1, <4>2
    <3>2. anchor \in Nat /\ anchor < anchor + 1
      BY <1>1
    <3> QED BY <1>4, <1>6, <2>1, <3>1, <3>2
  <2>2. CASE c \in 1..n
    <3>1. ClusterOK(c)
      BY <1>10, <2>2
    <3>2. Anchor(c) \in Nat /\ Anchor(c) < anchor /\ anchor \in Nat /\ Members(c) \subseteq assigned
      BY <1>1, <3>1 DEF ClusterOK
    <3>3. ASSUME NEW i \in Members(c)
          PROVE  /\ Anchor(c) <= i /\ (i # Anchor(c) => {Anchor(c), i} \in similar)
                 /\ \A d \in 1..n + 1 : Anchor(d)' < i /\ {Anchor(d)', i} \in similar
                      => i # Anchor(c) /\ Anchor(c) <= Anchor(d)'
      <4>1. /\ Anchor(c) <= i /\ (i # Anchor(c) => {Anchor(c), i} \in similar)
            /\ \A d \in 1..n : Anchor(d) < i /\ {Anchor(d), i} \in similar
                  => i # Anchor(c) /\ Anchor(c) <= Anchor(d)
        BY <1>n, <3>1 DEF ClusterOK
      <4>2. i \in Nat
        <5>1. i \in 1..size
          BY <1>1, <3>2
        <5> QED BY <5>1
      <4>3. anchor < i => i # Anchor(c) /\ Anchor(c) <= anchor
        BY <3>2, <4>2
      <4> QED BY <1>6, <1>12, <4>1, <4>3
    <3>4. Anchor(c) < anchor + 1 /\ Members(c) \subseteq assigned'
      BY <1>4, <3>2
    <3>5. Anchor(c)' = Anchor(c) /\ Members(c)' = Members(c)
      BY <1>6, <2>2
    <3> QED BY <1>4, <3>2, <3>3, <3>4, <3>5
  <2> QED BY <1>12, <2>1, <2>2
<1>16. ASSUME NEW c \in 1..n + 1 PROVE ClusterOK(c)'
  BY <1>5, <1>15 DEF ClusterOK
<1>17. ASSUME NEW i \in (1..size') \ assigned', NEW d \in 1..n + 1
       PROVE  {Anchor(d)', i} \notin similar'
  <2>1. i \in (1..size) \ assigned /\ i \in (1..size) \ (assigned \cup S)
    BY <1>4
  <2> QED BY <1>4, <1>6, <1>8, <1>10, <1>12, <2>1
<1>18. clusters' \in Seq(Seq(1..size') \ {<<>>}) /\ Len(clusters') = n + 1
  BY <1>4, <1>5 DEF New
<1> QED BY <1>9, <1>11, <1>14, <1>16, <1>17, <1>18 DEF GreedyInv

\* The characters of a content name its entry.
LEMMA CharactersOf ==
  ASSUME ClusterInv, NEW i \in 1..size
  PROVE  Characters(i) \in Seq(Chars) /\ \A char \in ToSet(Characters(i)) : char[1] = i
<1>1. content[i] \in Nat /\ i \in Nat
  BY DEF ClusterInv, SummaryInv
<1>2. \A k \in 1..content[i] : Characters(i)[k] = <<i, k>>
  BY DEF Characters
<1>3. Characters(i) \in Seq(Chars)
  BY <1>1 DEF Characters, Chars
<1> QED BY <1>2, <1>3 DEF ToSet, Characters

\* A cut-off summary is short, has nothing new, and lacks something only if full.
LEMMA CutOff ==
  ASSUME NEW C, NEW s \in Seq(C)
  PROVE  /\ Cut(s) \in Seq(C) /\ Len(Cut(s)) <= SummaryChars /\ ToSet(Cut(s)) \subseteq ToSet(s)
         /\ Len(Cut(s)) < SummaryChars => ToSet(s) \subseteq ToSet(Cut(s))
<1>l. PICK l \in Nat : l = Len(s) /\ DOMAIN s = 1..l
  BY LenProperties
<1>0. SummaryChars \in Nat
  BY ClusteringAssumption
<1>m. PICK m \in Nat : m = IF l < SummaryChars THEN l ELSE SummaryChars
  BY <1>0
<1>1. m <= l /\ m <= SummaryChars /\ (m < SummaryChars => m = l)
  BY <1>0, <1>m
<1>2. Cut(s) = SubSeq(s, 1, m)
  BY <1>l, <1>m DEF Cut
<1>3. ASSUME NEW i \in 1..m PROVE s[i] \in C
  <2>1. i \in 1..l
    BY <1>1
  <2> QED BY <1>l, <2>1, ElementOfSeq
<1>4. /\ Cut(s) \in Seq(C) /\ Len(Cut(s)) = m
      /\ \A i \in 1..m : Cut(s)[i] = s[i]
  <2>1. 1 \in Int /\ m \in Int
    OBVIOUS
  <2>2. /\ Cut(s) \in Seq(C)
        /\ Len(Cut(s)) = IF 1 <= m THEN m - 1 + 1 ELSE 0
        /\ \A i \in 1..m - 1 + 1 : Cut(s)[i] = s[1 + i - 1]
    BY <1>2, <1>3, <2>1, SubSeqProperties
  <2> QED BY <2>2
<1>5. DOMAIN Cut(s) = 1..m
  BY <1>4, LenProperties
<1>6. ToSet(Cut(s)) \subseteq ToSet(s)
  <2>1. ASSUME NEW i \in 1..m PROVE Cut(s)[i] = s[i] /\ i \in DOMAIN s
    BY <1>l, <1>1, <1>4
  <2> QED BY <1>5, <2>1 DEF ToSet
<1>7. m < SummaryChars => ToSet(s) \subseteq ToSet(Cut(s))
  <2>1. m < SummaryChars => DOMAIN s = 1..m
    BY <1>l, <1>1
  <2> QED BY <1>4, <1>5, <2>1 DEF ToSet
<1> QED BY <1>1, <1>4, <1>6, <1>7

\* A cluster of the sequence is a sequence of entries.
LEMMA ClusterIsSeq ==
  ASSUME GreedyInv, NEW c \in 1..Len(clusters)
  PROVE  clusters[c] \in Seq(1..size) /\ clusters[c] # <<>>
<1>1. clusters \in Seq(Seq(1..size) \ {<<>>})
  BY DEF GreedyInv
<1>2. clusters[c] \in Seq(1..size) \ {<<>>}
  BY <1>1, ElementOfSeq
<1> QED BY <1>2

\* A summary that has not been begun has nothing.
LEMMA FreshBuilding ==
  ASSUME GreedyInv', turn' \in Nat \ {0}, turn' <= Len(clusters'), member' = 1, text' = <<>>
  PROVE  Building'
<1>1. clusters' \in Seq(Seq(1..size') \ {<<>>})
  BY DEF GreedyInv
<1>2. Len(clusters') \in Nat
  BY <1>1, LenProperties
<1>3. turn' \in 1..Len(clusters')
  BY <1>2
<1>4. clusters'[turn'] \in Seq(1..size') \ {<<>>}
  BY <1>1, <1>3, ElementOfSeq
<1>5. Len(clusters'[turn']) \in Nat
  BY <1>4, LenProperties
<1>6. Pushed' = {} /\ ToSet(text') = {}
  BY DEF Pushed, ToSet
<1> QED BY <1>5, <1>6 DEF Building

\* What a summary promises says nothing of what the loops change.
LEMMA SummaryOKStays ==
  ASSUME content' = content, NEW s, SummaryOK(s) PROVE SummaryOK(s)'
<1>1. \A i : Characters(i)' = Characters(i)
  BY DEF Characters
<1> QED BY <1>1 DEF SummaryOK

\* The greedy loop does not touch the summaries.
LEMMA GreedyKeepsSummaries ==
  ASSUME ClusterInv, GreedyInv', PassOver \/ NewCluster PROVE SummaryInv'
<1>1. /\ UNCHANGED <<size, content, turn, member, text, summaries>> /\ anchor <= size
  BY DEF PassOver, NewCluster, summaryVars
<1>2. turn = 1 /\ member = 1 /\ text = <<>>
  BY <1>1 DEF ClusterInv, SummaryInv
<1>3. turn' <= Len(clusters') => Building'
  <2>1. turn' \in Nat \ {0} /\ member' = 1 /\ text' = <<>>
    BY <1>1, <1>2
  <2> QED BY <2>1, FreshBuilding
<1>4. \A s \in ToSet(summaries) : SummaryOK(s)'
  BY <1>1, SummaryOKStays DEF ClusterInv, SummaryInv
<1>5. summaries' \in Seq(Summary')
  BY <1>1 DEF ClusterInv, SummaryInv, Summary
<1>6. ToSet(summaries)' = ToSet(summaries)
  BY <1>1 DEF ToSet
<1> QED BY <1>1, <1>2, <1>3, <1>4, <1>5, <1>6 DEF ClusterInv, SummaryInv

\* The loop over the clusters does not touch them.
LEMMA GreedyStays ==
  ASSUME GreedyInv, UNCHANGED <<size, similar, greedyVars>> PROVE GreedyInv'
<1>1. UNCHANGED <<size, similar, anchor, assigned, clusters>>
  BY DEF greedyVars
<1>2. \A c : Anchor(c)' = Anchor(c) /\ Members(c)' = Members(c)
  BY <1>1 DEF Anchor, Members
<1>3. \A c : ClusterOK(c)' <=> ClusterOK(c)
  BY <1>1, <1>2 DEF ClusterOK
<1> QED BY <1>1, <1>2, <1>3 DEF GreedyInv

\* An entry that is passed over has its cluster.
LEMMA PassOverGreedy ==
  ASSUME ClusterInv, PassOver PROVE GreedyInv'
<1>1. /\ UNCHANGED <<size, similar, assigned, clusters>> /\ anchor' = anchor + 1
      /\ anchor \in assigned /\ anchor <= size
  BY DEF PassOver
<1>2. size \in Nat /\ anchor \in 1..size + 1 /\ 1..anchor - 1 \subseteq assigned
  BY DEF ClusterInv, GreedyInv
<1>3. \A c : Anchor(c)' = Anchor(c) /\ Members(c)' = Members(c)
  BY <1>1 DEF Anchor, Members
<1>4. ASSUME NEW c, ClusterOK(c) PROVE ClusterOK(c)'
  <2>1. Anchor(c) \in Nat /\ Anchor(c) < anchor /\ anchor \in Nat
    BY <1>2, <1>4 DEF ClusterOK
  <2>2. Anchor(c) < anchor + 1
    BY <2>1
  <2>3. /\ Members(c) \subseteq assigned
        /\ \A i \in Members(c) :
             /\ Anchor(c) <= i
             /\ i # Anchor(c) => {Anchor(c), i} \in similar
             /\ \A d \in 1..Len(clusters) : Anchor(d) < i /\ {Anchor(d), i} \in similar
                  => i # Anchor(c) /\ Anchor(c) <= Anchor(d)
    BY <1>4 DEF ClusterOK
  <2> QED BY <1>1, <1>3, <2>1, <2>2, <2>3 DEF ClusterOK
<1>5. anchor' \in 1..size' + 1 /\ 1..anchor' - 1 \subseteq assigned'
  BY <1>1, <1>2
<1> QED BY <1>1, <1>3, <1>4, <1>5 DEF ClusterInv, GreedyInv

\* A member's content is pushed.
LEMMA PushKeeps ==
  ASSUME ClusterInv, PushContent PROVE SummaryInv'
<1> DEFINE cluster == clusters[turn]
           start == IF member > 1 THEN text \o Separator ELSE text
           i == cluster[member]
<1>1. /\ turn \in Nat \ {0} /\ member \in Nat \ {0} /\ turn <= Len(clusters)
      /\ member <= Len(cluster) /\ anchor > size /\ clusters \in Seq(Seq(1..size) \ {<<>>})
      /\ text \in Seq(Chars) /\ Building /\ GreedyInv
  BY DEF ClusterInv, SummaryInv, GreedyInv, PushContent
<1>2. cluster \in Seq(1..size) /\ Len(cluster) \in Nat
  <2>1. Len(clusters) \in Nat
    BY <1>1, LenProperties
  <2>2. turn \in 1..Len(clusters)
    BY <1>1, <2>1
  <2>3. cluster \in Seq(1..size)
    BY <1>1, <2>2, ClusterIsSeq
  <2> QED BY <2>3, LenProperties
<1>3. i \in 1..size
  <2> HIDE DEF cluster
  <2>1. member \in 1..Len(cluster)
    BY <1>1, <1>2
  <2> QED BY <1>2, <2>1, ElementOfSeq
<1>4. /\ text' = start \o Characters(i) /\ member' = member + 1
      /\ UNCHANGED <<size, content, clusters, turn, summaries, anchor>>
  BY DEF PushContent, greedyVars
<1>5. Separator \in Seq(Chars) /\ \A char \in ToSet(Separator) : char[1] = 0
  BY DEF Separator, Chars, ToSet
<1>6. start \in Seq(Chars) /\ ToSet(text) \subseteq ToSet(start)
      /\ \A char \in ToSet(start) : char \in ToSet(text) \/ char[1] = 0
  <2>1. CASE member > 1
    <3>1. start = text \o Separator
      BY <2>1
    <3> HIDE DEF start
    <3> QED BY <1>1, <1>5, <3>1, Joined
  <2>2. CASE ~(member > 1)
    BY <1>1, <2>2
  <2> QED BY <2>1, <2>2
<1> HIDE DEF start
<1>7. Characters(i) \in Seq(Chars) /\ \A char \in ToSet(Characters(i)) : char[1] = i
  BY <1>3, CharactersOf
<1>8. text' \in Seq(Chars) /\ ToSet(text') = ToSet(start) \cup ToSet(Characters(i))
  BY <1>4, <1>6, <1>7, Joined
<1>9. Pushed' = Pushed \cup {i}
  <2>1. 1..member' - 1 = (1..member - 1) \cup {member}
    BY <1>1, <1>4
  <2> QED BY <1>4, <2>1 DEF Pushed
<1> HIDE DEF i
<1>10. /\ \A char \in ToSet(text) : char[1] \in Pushed \cup {0}
       /\ \A k \in Pushed : ToSet(Characters(k)) \subseteq ToSet(text)
  BY <1>1 DEF Building
<1>11. \A char \in ToSet(text') : char[1] \in Pushed' \cup {0}
  BY <1>6, <1>7, <1>8, <1>9, <1>10
<1>12. \A k \in Pushed' : ToSet(Characters(k)) \subseteq ToSet(text')
  BY <1>6, <1>8, <1>9, <1>10
<1>13. \A k : Characters(k)' = Characters(k)
  BY <1>4 DEF Characters
<1>14. member' <= Len(clusters'[turn']) + 1 /\ member' \in Nat \ {0}
  <2>1. clusters'[turn'] = cluster
    BY <1>4
  <2> HIDE DEF cluster
  <2> QED BY <1>1, <1>2, <1>4, <2>1
<1>15. Building'
  <2>1. ~TooSmall(clusters'[turn'])
    BY <1>4 DEF PushContent, TooSmall
  <2>2. ~TooSmall(clusters[turn])'
    BY <2>1 DEF TooSmall
  <2> QED BY <1>11, <1>12, <1>13, <1>14, <2>2 DEF Building
<1>16. \A s \in ToSet(summaries) : SummaryOK(s)'
  BY <1>4, SummaryOKStays DEF ClusterInv, SummaryInv
<1>17. summaries' \in Seq(Summary') /\ ToSet(summaries)' = ToSet(summaries)
  BY <1>4 DEF ClusterInv, SummaryInv, Summary, ToSet
<1>18. content' \in [1..size' -> Nat] /\ turn' \in Nat \ {0} /\ ~(anchor' <= size')
  <2>1. size \in Nat /\ anchor \in 1..size + 1 /\ content \in [1..size -> Nat]
    BY DEF ClusterInv, SummaryInv, GreedyInv
  <2>2. anchor \in Nat
    BY <2>1
  <2>3. anchor > size /\ UNCHANGED <<size, content, turn, anchor>> /\ turn \in Nat \ {0}
    BY <1>1, <1>4
  <2> QED BY <2>1, <2>2, <2>3
<1> QED BY <1>8, <1>14, <1>15, <1>16, <1>17, <1>18 DEF SummaryInv

\* A summary is finished.
LEMMA SummarizeKeeps ==
  ASSUME ClusterInv, GreedyInv', Summarize PROVE SummaryInv'
<1> DEFINE cluster == clusters[turn]
           s == [summary_content |-> Cut(text), original_ids |-> cluster]
<1>1. /\ turn \in Nat \ {0} /\ member \in Nat \ {0} /\ turn <= Len(clusters)
      /\ member > Len(cluster) /\ anchor > size /\ clusters \in Seq(Seq(1..size) \ {<<>>})
      /\ text \in Seq(Chars) /\ Building /\ GreedyInv
  BY DEF ClusterInv, SummaryInv, GreedyInv, Summarize
<1>2. cluster \in Seq(1..size) /\ Len(cluster) \in Nat
  <2>1. Len(clusters) \in Nat
    BY <1>1, LenProperties
  <2>2. turn \in 1..Len(clusters)
    BY <1>1, <2>1
  <2>3. cluster \in Seq(1..size)
    BY <1>1, <2>2, ClusterIsSeq
  <2> QED BY <2>3, LenProperties
<1>3. Pushed = ToSet(cluster)
  <2>1. Pushed = {cluster[k] : k \in 1..member - 1} /\ member <= Len(cluster) + 1
    BY <1>1 DEF Pushed, Building
  <2> HIDE DEF cluster
  <2>2. DOMAIN cluster = 1..Len(cluster)
    BY <1>2, LenProperties
  <2>3. member - 1 = Len(cluster)
    BY <1>1, <1>2, <2>1
  <2> QED BY <2>1, <2>2, <2>3 DEF ToSet
<1>4. /\ summaries' = Append(summaries, s)
      /\ turn' = turn + 1 /\ member' = 1 /\ text' = <<>>
      /\ UNCHANGED <<size, content, clusters, anchor>>
  BY DEF Summarize, greedyVars
<1> HIDE DEF cluster
<1>5. /\ \A char \in ToSet(text) : char[1] \in ToSet(cluster) \cup {0}
      /\ \A i \in ToSet(cluster) : ToSet(Characters(i)) \subseteq ToSet(text)
  BY <1>1, <1>3 DEF Building
<1> DEFINE c == Cut(text)
<1>6. /\ c \in Seq(Chars) /\ Len(c) <= SummaryChars /\ ToSet(c) \subseteq ToSet(text)
      /\ Len(c) < SummaryChars => ToSet(text) \subseteq ToSet(c)
  BY <1>1, CutOff
<1>7. s.summary_content = c /\ s.original_ids = cluster
  OBVIOUS
<1>8. s \in Summary'
  BY <1>2, <1>4, <1>6 DEF Summary
<1> HIDE DEF c, s
<1>9. SummaryOK(s)
  BY <1>5, <1>6, <1>7 DEF SummaryOK
<1>10. summaries \in Seq(Summary') /\ \A r \in ToSet(summaries) : SummaryOK(r)
  BY <1>4 DEF ClusterInv, SummaryInv, Summary
<1>11. summaries' \in Seq(Summary') /\ ToSet(summaries') = ToSet(summaries) \cup {s}
  <2>1. Append(summaries, s) = summaries \o <<s>>
    BY <1>8, <1>10, AppendIsConcat
  <2>2. <<s>> \in Seq(Summary') /\ ToSet(<<s>>) = {s}
    BY <1>8 DEF ToSet
  <2>3. summaries' = summaries \o <<s>>
    BY <1>4, <2>1
  <2> DEFINE C == Summary'
             one == <<s>>
  <2>3a. summaries \in Seq(C) /\ one \in Seq(C)
    BY <1>10, <2>2
  <2> HIDE DEF C, one
  <2>3b. summaries \o one \in Seq(C) /\ ToSet(summaries \o one) = ToSet(summaries) \cup ToSet(one)
    BY <2>3a, Joined
  <2>4. /\ summaries \o <<s>> \in Seq(Summary')
        /\ ToSet(summaries \o <<s>>) = ToSet(summaries) \cup ToSet(<<s>>)
    BY <2>3b DEF C, one
  <2> QED BY <2>2, <2>3, <2>4
<1>12. \A r \in ToSet(summaries') : SummaryOK(r)'
  <2>1. \A r \in ToSet(summaries') : SummaryOK(r)
    BY <1>9, <1>10, <1>11
  <2> QED BY <1>4, <2>1, SummaryOKStays
<1>13. turn' \in Nat \ {0} /\ member' \in Nat \ {0} /\ text' \in Seq(Chars)
  BY <1>1, <1>4
<1>14. turn' <= Len(clusters') => Building'
  BY <1>4, <1>13, FreshBuilding
<1>15. content' \in [1..size' -> Nat] /\ ~(anchor' <= size')
  <2>1. size \in Nat /\ anchor \in 1..size + 1 /\ content \in [1..size -> Nat]
    BY DEF ClusterInv, SummaryInv, GreedyInv
  <2>2. anchor \in Nat
    BY <2>1
  <2>3. anchor > size /\ UNCHANGED <<size, content, anchor>>
    BY <1>1, <1>4
  <2> QED BY <2>1, <2>2, <2>3
<1> QED BY <1>11, <1>12, <1>13, <1>14, <1>15 DEF SummaryInv

\* Clusters that are too small are passed by.
LEMMA SkipSmallKeeps ==
  ASSUME ClusterInv, GreedyInv', SkipSmall PROVE SummaryInv'
<1>1. /\ turn' = turn + 1 /\ turn <= Len(clusters) /\ TooSmall(clusters[turn]) /\ anchor > size
      /\ UNCHANGED <<size, content, clusters, anchor, member, text, summaries>>
  BY DEF SkipSmall, greedyVars
<1>2. turn \in Nat \ {0} /\ member = 1 /\ text = <<>> /\ GreedyInv /\ size \in Nat
  BY <1>1 DEF ClusterInv, SummaryInv, Building
<1>3. turn' \in Nat \ {0} /\ member' = 1 /\ text' = <<>>
  BY <1>1, <1>2
<1>4. turn' <= Len(clusters') => Building'
  BY <1>3, FreshBuilding
<1>5. \A s \in ToSet(summaries) : SummaryOK(s)'
  BY <1>1, SummaryOKStays DEF ClusterInv, SummaryInv
<1>6. summaries' \in Seq(Summary') /\ ToSet(summaries)' = ToSet(summaries)
  BY <1>1 DEF ClusterInv, SummaryInv, Summary, ToSet
<1>7. content' \in [1..size' -> Nat] /\ ~(anchor' <= size') /\ text' \in Seq(Chars)
  <2>1. content \in [1..size -> Nat] /\ text \in Seq(Chars)
    BY DEF ClusterInv, SummaryInv
  <2>2. anchor \in 1..size + 1 /\ size \in Nat
    BY <1>2 DEF GreedyInv
  <2>3. ~(anchor <= size)
    BY <1>1, <2>2
  <2> QED BY <1>1, <2>1, <2>3
<1> QED BY <1>3, <1>4, <1>5, <1>6, <1>7 DEF SummaryInv

LEMMA ClusterInvNext == ClusterInv /\ [ClusterNext]_clusterVars => ClusterInv'
<1> SUFFICES ASSUME ClusterInv, [ClusterNext]_clusterVars PROVE ClusterInv'
  OBVIOUS
<1>1. CASE PassOver \/ NewCluster
  <2>1. GreedyInv'
    BY <1>1, PassOverGreedy, NewClusterGreedy
  <2>2. size' = size
    BY <1>1 DEF PassOver, NewCluster
  <2> QED BY <1>1, <2>1, <2>2, GreedyKeepsSummaries DEF ClusterInv
<1>2. CASE SkipSmall \/ PushContent \/ Summarize
  <2>1. UNCHANGED <<size, similar, greedyVars>>
    BY <1>2 DEF SkipSmall, PushContent, Summarize
  <2>2. GreedyInv'
    BY <2>1, GreedyStays DEF ClusterInv
  <2> QED BY <1>2, <2>1, <2>2, SkipSmallKeeps, PushKeeps, SummarizeKeeps DEF ClusterInv
<1>3. CASE UNCHANGED clusterVars
  <2>1. UNCHANGED <<size, similar, content, greedyVars, turn, member, text, summaries>>
    BY <1>3 DEF clusterVars, summaryVars
  <2>2. GreedyInv'
    BY <2>1, GreedyStays DEF ClusterInv
  <2>3. UNCHANGED <<size, content, clusters, anchor, turn, member, text, summaries>>
    BY <2>1 DEF greedyVars
  <2>4. Building => Building'
    BY <2>3 DEF Building, Pushed, Characters
  <2>5. \A s \in ToSet(summaries) : SummaryOK(s)'
    BY <2>3, SummaryOKStays DEF ClusterInv, SummaryInv
  <2>6. summaries' \in Seq(Summary') /\ ToSet(summaries)' = ToSet(summaries)
    BY <2>3 DEF ClusterInv, SummaryInv, Summary, ToSet
  <2> QED BY <2>2, <2>3, <2>4, <2>5, <2>6 DEF ClusterInv, SummaryInv
<1> QED BY <1>1, <1>2, <1>3 DEF ClusterNext

\* When the greedy loop has ended, every entry is at home.
LEMMA GreedyAtTheEnd ==
  ASSUME ClusterInv, anchor > size, NEW i \in 1..size
  PROVE  LET before == {a \in Anchors : a < i /\ {a, i} \in similar}
             home   == {c \in DOMAIN clusters : i \in ToSet(clusters[c])}
         IN  /\ Cardinality(home) = 1
             /\ i \in Anchors <=> before = {}
             /\ \A c \in home : before # {} =>
                  Head(clusters[c]) \in before /\ \A a \in before : Head(clusters[c]) <= a
<1> DEFINE before == {a \in Anchors : a < i /\ {a, i} \in similar}
           home   == {c \in DOMAIN clusters : i \in ToSet(clusters[c])}
<1>n. PICK n \in Nat : n = Len(clusters) /\ DOMAIN clusters = 1..n
  <2>1. clusters \in Seq(Seq(1..size) \ {<<>>})
    BY DEF ClusterInv, GreedyInv
  <2> QED BY <2>1, LenProperties
<1>1. i \in assigned /\ i \in Nat
  <2>1. anchor \in 1..size + 1 /\ size \in Nat /\ 1..anchor - 1 \subseteq assigned
    BY DEF ClusterInv, GreedyInv
  <2>2. anchor = size + 1
    BY <2>1
  <2>3. i \in 1..anchor - 1
    BY <2>1, <2>2
  <2> QED BY <2>1, <2>3
<1>2. PICK c \in 1..n : i \in Members(c)
  BY <1>1, <1>n DEF ClusterInv, GreedyInv
<1>3. home = {c}
  <2>1. \A d \in 1..n : d # c => i \notin Members(d)
    BY <1>2, <1>n DEF ClusterInv, GreedyInv
  <2>2. home = {d \in 1..n : i \in Members(d)}
    BY <1>n DEF Members
  <2> QED BY <1>2, <2>1, <2>2
<1>4. Anchors = {Anchor(d) : d \in 1..n}
  BY <1>n DEF Anchors, Anchor
<1>5. /\ Anchor(c) \in Nat /\ Anchor(c) <= i
      /\ i # Anchor(c) => {Anchor(c), i} \in similar
      /\ \A d \in 1..n : Anchor(d) < i /\ {Anchor(d), i} \in similar
           => i # Anchor(c) /\ Anchor(c) <= Anchor(d)
  BY <1>2, <1>n DEF ClusterInv, GreedyInv, ClusterOK
<1>6. \A a \in before : i # Anchor(c) /\ Anchor(c) <= a
  BY <1>4, <1>5
<1>7. i # Anchor(c) => Anchor(c) \in before
  BY <1>1, <1>4, <1>5
<1>8. i \in Anchors => i = Anchor(c)
  <2>1. ASSUME NEW d \in 1..n, i = Anchor(d) PROVE d = c
    <3>1. Anchor(d) \in Members(d)
      <4>1. clusters[d] \in Seq(1..size) /\ clusters[d] # <<>>
        BY <1>n, ClusterIsSeq DEF ClusterInv
      <4>2. 1 \in DOMAIN clusters[d] /\ Head(clusters[d]) = clusters[d][1]
        BY <4>1, LenProperties, EmptySeq
      <4> QED BY <4>2 DEF Anchor, Members, ToSet
    <3> QED BY <1>2, <1>n, <2>1, <3>1 DEF ClusterInv, GreedyInv
  <2> QED BY <1>4, <2>1
<1>9. i = Anchor(c) => i \in Anchors
  BY <1>4
<1>10. Cardinality(home) = 1
  BY <1>3, FS_Singleton
<1>11. i \in Anchors <=> before = {}
  BY <1>6, <1>7, <1>8, <1>9
<1>12. ASSUME NEW d \in home, before # {}
       PROVE  Head(clusters[d]) \in before /\ \A a \in before : Head(clusters[d]) <= a
  <2>1. Head(clusters[d]) = Anchor(c)
    BY <1>3 DEF Anchor
  <2> HIDE DEF before
  <2> QED BY <1>6, <1>7, <1>12, <2>1
<1> QED BY <1>10, <1>11, <1>12

LEMMA ClusterInvGreedy == ClusterInv => ClustersAreGreedy
<1> SUFFICES ASSUME ClusterInv PROVE ClustersAreGreedy
  OBVIOUS
<1>1. \A s \in ToSet(summaries) : SummaryOK(s)
  BY DEF ClusterInv, SummaryInv
<1> QED BY <1>1, GreedyAtTheEnd DEF ClustersAreGreedy, SummaryOK

\* However many memories there are, whichever of them are similar and however
\* long they are, the clusters are greedy and the summaries complete.
THEOREM ClusteringIsGreedy == ClusterSpec => []ClustersAreGreedy
<1>1. ClusterInit => ClusterInv
  BY ClusterInvInit
<1>2. ClusterInv /\ [ClusterNext]_clusterVars => ClusterInv'
  BY ClusterInvNext
<1>3. ClusterInv => ClustersAreGreedy
  BY ClusterInvGreedy
<1> QED BY <1>1, <1>2, <1>3, PTL DEF ClusterSpec
=============================================================================
