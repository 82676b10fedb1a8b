------------------------------ MODULE MCParts ------------------------------
(***************************************************************************)
(* The parts that share no state with the engine nor with each other, in   *)
(* one run: a behaviour exercises one of them, the others stay at rest.    *)
(***************************************************************************)
EXTENDS Migrations, SentenceBuffer, Clustering, InMemoryVectorStore

VARIABLE part  \* the one exercised

partsVars == <<part, migrationVars, sentenceVars, clusterVars, storeVars>>

ClusterRest ==
  /\ size = 0 /\ similar = {} /\ content = <<>>
  /\ anchor = 1 /\ assigned = {} /\ clusters = <<>>
  /\ turn = 1 /\ member = 1 /\ text = <<>> /\ summaries = <<>>

MigrationRest ==
  /\ disk = EmptyFile /\ first = disk /\ faults = 0
  /\ conn = [p \in Openers |-> Closed(0)]

PartsInit ==
  /\ part \in {"migrations", "sentences", "clusters", "store"}
  /\ IF part = "migrations" THEN MigrationInit ELSE MigrationRest
  /\ IF part = "clusters" THEN ClusterInit ELSE ClusterRest
  /\ SentenceInit
  /\ StoreInit

Migrate(p) ==
  /\ part = "migrations" /\ (OpenStep(p) \/ Fault(p) \/ StoreRow(p))
  /\ UNCHANGED <<part, sentenceVars, clusterVars, storeVars>>
Listen ==
  /\ part = "sentences" /\ SentenceNext
  /\ UNCHANGED <<part, migrationVars, clusterVars, storeVars>>
Compact ==
  /\ part = "clusters" /\ ClusterNext
  /\ UNCHANGED <<part, migrationVars, sentenceVars, storeVars>>
Remember ==
  /\ part = "store" /\ StoreNext
  /\ UNCHANGED <<part, migrationVars, sentenceVars, clusterVars>>

PartsNext == (\E p \in Openers : Migrate(p)) \/ Listen \/ Compact \/ Remember

\* SQLite's busy handler polls, and a process that opens the file goes on.
GoesOn(p) ==
  /\ part = "migrations" /\ OpenStep(p)
  /\ UNCHANGED <<part, sentenceVars, clusterVars, storeVars>>

PartsSpec ==
  /\ PartsInit /\ [][PartsNext]_partsVars
  /\ \A p \in Openers : WF_partsVars(GoesOn(p))

\* Somebody opens, of those who try.
OpenedInTheEnd == part = "migrations" => SomebodyOpens

-----------------------------------------------------------------------------
(* The instance *)

\* Texts of up to two characters.
ShortTexts == UNION {[1..n -> {Stop, Space, Letter}] : n \in 0..2}

\* Up to two entries for replace_all.
ShortBatches == UNION {[1..n -> Entry] : n \in 0..2}
=============================================================================
