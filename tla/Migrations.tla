----------------------------- MODULE Migrations -----------------------------
(***************************************************************************)
(* run_migrations (migrations.rs 5-119): what MemoryEngine::open does to   *)
(* the database file before anything else, by several processes at once.   *)
(*                                                                         *)
(* Each migration is a transaction that begins with a read and writes only *)
(* if there is something to do.  SQLite keeps others out by file locks:    *)
(* readers share, one connection may reserve the file to write, and its    *)
(* commit waits until the readers have left.  A reader that wants to write *)
(* while another connection has the file reserved is told BUSY at once;    *)
(* any other wait ends by itself or in a timeout.                          *)
(***************************************************************************)
EXTENDS Integers

CONSTANTS
  Openers,    \* processes that open the file
  OldRows,    \* memories in a file of the release before migration 2
  NewRows,    \* memories stored after an open
  MaxOpens,   \* bound: opens per process
  MaxFaults   \* bound: ends of a process, timeouts and I/O errors

ASSUME FileAssumption == OldRows \cap NewRows = {}
ASSUME OpenBounds == MaxOpens \in Nat /\ MaxFaults \in Nat

VARIABLES
  disk,    \* the committed file
  conn,    \* per process: its connection
  faults,  \* bound: faults so far
  first    \* history: the file as it was found

migrationVars == <<disk, conn, faults, first>>

Versions == {1, 2}

\* A row without the column has no confidence.
RowConfidence == {"none", "explicit", "inferred"}

\* log is the table schema_migrations, versions what it records; tables are
\* memories, embeddings and their indexes; column is memories.confidence.
Files == [log : BOOLEAN, tables : BOOLEAN, column : BOOLEAN, versions : SUBSET Versions,
          rows : UNION {[S -> RowConfidence] : S \in SUBSET (OldRows \cup NewRows)}]

EmptyFile == [log |-> FALSE, tables |-> FALSE, column |-> FALSE, versions |-> {},
              rows |-> [i \in {} |-> "none"]]

\* What the release with migration 1 only leaves behind.
FirstRelease == [log |-> TRUE, tables |-> TRUE, column |-> FALSE, versions |-> {1},
                 rows |-> [i \in OldRows |-> "none"]]

\* at is the migration it is about, saw what that migration has read.
Connections == [pc : {"closed", "log", "read", "write", "commit", "check", "open"},
                at : Versions, lock : {"none", "shared", "reserved", "pending"},
                saw : Files, opens : 0..MaxOpens]

Closed(n) == [pc |-> "closed", at |-> 1, lock |-> "none", saw |-> EmptyFile, opens |-> n]

MigrationTypeOK ==
  /\ disk \in Files /\ first \in Files
  /\ conn \in [Openers -> Connections]
  /\ faults \in 0..MaxFaults

MigrationInit ==
  /\ disk \in {EmptyFile, FirstRelease}
  /\ first = disk
  /\ conn = [p \in Openers |-> Closed(0)]
  /\ faults = 0

-----------------------------------------------------------------------------
(* The locks of SQLite *)

Others(p) == Openers \ {p}

\* Nobody waits to commit: a read may begin.
Readable(p) == \A o \in Others(p) : conn[o].lock # "pending"

\* Nobody has reserved the file.
Reservable(p) == \A o \in Others(p) : conn[o].lock \notin {"reserved", "pending"}

\* Nobody reads or writes: a commit goes through.
Free(p) == \A o \in Others(p) : conn[o].lock = "none"

Connection(p, c) == conn' = [conn EXCEPT ![p] = c]

-----------------------------------------------------------------------------
(* run_migrations *)

Connect(p) ==
  /\ conn[p].pc = "closed" /\ conn[p].opens < MaxOpens
  /\ Connection(p, [Closed(conn[p].opens + 1) EXCEPT !.pc = "log"])
  /\ UNCHANGED <<disk, faults, first>>

\* (mutant: without IF NOT EXISTS, an existing table is an error)
EnsureLog_IfExists(p) ==
  /\ conn[p].pc = "log"
  /\ Connection(p, IF disk.log THEN Closed(conn[p].opens)
                               ELSE [conn[p] EXCEPT !.pc = "read"])
  /\ IF disk.log THEN Readable(p) ELSE Free(p)
  /\ disk' = [disk EXCEPT !.log = TRUE]
  /\ UNCHANGED <<faults, first>>

\* CREATE TABLE IF NOT EXISTS schema_migrations: a transaction of its own, which
\* only reads the schema if the table is there.
EnsureLog(p) ==
  /\ conn[p].pc = "log"
  /\ IF disk.log THEN Readable(p) ELSE Free(p)
  /\ disk' = [disk EXCEPT !.log = TRUE]
  /\ Connection(p, [conn[p] EXCEPT !.pc = "read"])
  /\ UNCHANGED <<faults, first>>

\* The transaction of the next migration begins with a SELECT or a PRAGMA.
Read(p) ==
  /\ conn[p].pc = "read" /\ Readable(p)
  /\ Connection(p, [conn[p] EXCEPT !.pc = "write", !.lock = "shared", !.saw = disk])
  /\ UNCHANGED <<disk, faults, first>>

\* (mutant: both migrations look for the record of the first)
Recorded_AsFirst(n, file) == 1 \in file.versions

Recorded(n, file) == n \in file.versions

Applied(n, file) == IF n = 1 THEN file.tables ELSE file.column

\* (mutant: a file without tables is recorded as up to date)
Migrated_AllAtOnce(n, file) ==
  [file EXCEPT !.versions = IF Recorded(n, file) THEN @ ELSE Versions,
               !.tables = TRUE, !.column = @ \/ n = 2,
               !.rows = IF n = 2 /\ ~file.column THEN [i \in DOMAIN @ |-> "explicit"] ELSE @]

\* The file after migration n: CREATE TABLE IF NOT EXISTS or ALTER TABLE, whose
\* new column is 'explicit' in every row, and the record if it is missing.
Migrated(n, file) ==
  [file EXCEPT !.versions = IF Recorded(n, file) THEN @ ELSE @ \cup {n},
               !.tables = TRUE, !.column = @ \/ n = 2,
               !.rows = IF n = 2 /\ ~file.column THEN [i \in DOMAIN @ |-> "explicit"] ELSE @]

\* After migration 1 comes 2, then the foreign key check.
NextStage(c) == IF c.at = 1 THEN [c EXCEPT !.pc = "read", !.at = 2, !.lock = "none"]
                        ELSE [c EXCEPT !.pc = "check", !.lock = "none"]

\* Nothing to write: the transaction ends.
Skip(p) ==
  /\ conn[p].pc = "write"
  /\ Migrated(conn[p].at, conn[p].saw) = conn[p].saw
  /\ Connection(p, NextStage(conn[p]))
  /\ UNCHANGED <<disk, faults, first>>

\* The first statement that writes reserves the file.
Reserve(p) ==
  /\ conn[p].pc = "write"
  /\ Migrated(conn[p].at, conn[p].saw) # conn[p].saw
  /\ Reservable(p)
  /\ Connection(p, [conn[p] EXCEPT !.pc = "commit", !.lock = "reserved"])
  /\ UNCHANGED <<disk, faults, first>>

\* BUSY: open fails, the transaction is rolled back as it is dropped.
ReserveBusy(p) ==
  /\ conn[p].pc = "write"
  /\ Migrated(conn[p].at, conn[p].saw) # conn[p].saw
  /\ ~Reservable(p)
  /\ Connection(p, Closed(conn[p].opens))
  /\ UNCHANGED <<disk, faults, first>>

\* The commit finds readers and lets no more in.
AwaitReaders(p) ==
  /\ conn[p].pc = "commit" /\ conn[p].lock = "reserved" /\ ~Free(p)
  /\ Connection(p, [conn[p] EXCEPT !.lock = "pending"])
  /\ UNCHANGED <<disk, faults, first>>

Commit(p) ==
  /\ conn[p].pc = "commit" /\ Free(p)
  /\ disk' = Migrated(conn[p].at, conn[p].saw)
  /\ Connection(p, NextStage(conn[p]))
  /\ UNCHANGED <<faults, first>>

\* PRAGMA foreign_key_check finds nothing; open goes on and returns Ok.
Check(p) ==
  /\ conn[p].pc = "check" /\ Readable(p)
  /\ Connection(p, [conn[p] EXCEPT !.pc = "open"])
  /\ UNCHANGED <<disk, faults, first>>

\* The process ends, a wait times out, or the file cannot be read or written.
Fault(p) ==
  /\ conn[p].pc # "closed" /\ faults < MaxFaults
  /\ faults' = faults + 1
  /\ Connection(p, Closed(conn[p].opens))
  /\ UNCHANGED <<disk, first>>

\* The engine stores a memory, naming the column confidence; its locks last
\* for this step only.
StoreRow(p) ==
  /\ conn[p].pc = "open" /\ Free(p)
  /\ \E i \in NewRows \ DOMAIN disk.rows :
       disk' = [disk EXCEPT !.rows = [j \in DOMAIN @ \cup {i} |->
                  IF j = i THEN "inferred" ELSE @[j]]]
  /\ UNCHANGED <<conn, faults, first>>

OpenStep(p) ==
  \/ Connect(p) \/ EnsureLog(p) \/ Read(p) \/ Skip(p) \/ Reserve(p) \/ ReserveBusy(p)
  \/ AwaitReaders(p) \/ Commit(p) \/ Check(p)

MigrationNext == \E p \in Openers : OpenStep(p) \/ Fault(p) \/ StoreRow(p)

MigrationSpec == MigrationInit /\ [][MigrationNext]_migrationVars

-----------------------------------------------------------------------------
(* Properties *)

\* What schema_migrations records has happened, wherever the process ended and
\* whoever else was migrating; and no memory of the old file is lost or has
\* another confidence than the default.
RecordIsTrue ==
  /\ \A n \in disk.versions : Applied(n, disk)
  /\ disk.log \/ disk.versions = {}
  /\ \A i \in DOMAIN first.rows :
       /\ i \in DOMAIN disk.rows
       /\ disk.rows[i] = IF disk.column THEN "explicit" ELSE "none"

\* Who has opened the file finds both migrations applied and recorded, and
\* every memory with a confidence.
OpenMeansMigrated ==
  \A p \in Openers : conn[p].pc = "open" =>
    /\ disk.tables /\ disk.column /\ disk.versions = Versions
    /\ \A i \in DOMAIN disk.rows : disk.rows[i] # "none"

\* Openers do not keep each other out: without a fault one of them gets in.
SomebodyOpens == <>(faults > 0 \/ \E p \in Openers : conn[p].pc = "open")
=============================================================================
