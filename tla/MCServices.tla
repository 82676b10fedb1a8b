----------------------------- MODULE MCServices -----------------------------
(***************************************************************************)
(* The two background tasks, which share no variable, in one run: a        *)
(* behaviour exercises the maintenance loop or the stream ingestor, the    *)
(* other one stays at rest.                                                *)
(***************************************************************************)
EXTENDS Maintenance, StreamIngestor

VARIABLE service  \* the one exercised

servicesVars == <<service, maintenanceVars, ingestVars>>

ServicesInit ==
  /\ service \in {"maintenance", "ingest"}
  /\ MaintenanceInit
  /\ IngestInit

Maintain ==
  /\ service = "maintenance" /\ MaintenanceNext
  /\ UNCHANGED <<service, ingestVars>>
Ingest ==
  /\ service = "ingest" /\ IngestNext
  /\ UNCHANGED <<service, maintenanceVars>>

ServicesNext == Maintain \/ Ingest

\* The fairness of each: only the ingestor's task has a step to take at rest.
ServicesSpec ==
  /\ ServicesInit /\ [][ServicesNext]_servicesVars
  /\ LoopFairness
  /\ WF_ingestVars(service = "ingest" /\ Task) /\ Woken
=============================================================================
