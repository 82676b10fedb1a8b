-------------------------- MODULE MaintenanceProofs --------------------------
(***************************************************************************)
(* Theorems about Maintenance, for any number of starts.                   *)
(***************************************************************************)
EXTENDS Maintenance, TLAPS

\* A run that can still clear the flag: its loop is alive, or its handle can
\* still be shut down.
Engaged(r) == Alive(r) \/ handle[r] \in {"held", "awaiting"}

\* Runs start one after the other; the flag is set as long as the engaged one
\* must not be joined by another.
IInv ==
  /\ MaintenanceTypeOK
  /\ \A r \in Runs :
       /\ Alive(r) => flag
       /\ handle[r] = "held" /\ loop[r] # "done" => flag
       /\ handle[r] = "held" /\ loop[r] \in {"leaving", "done"} => ~engine
       /\ loop[r] = "unused" <=> handle[r] = "none"
       /\ tokens[r] => handle[r] \notin {"none", "held"}
       /\ handle[r] = "closed" => loop[r] \in {"done", "panicked"}
  /\ \A r, s \in Runs : Engaged(r) /\ Engaged(s) => r = s

\* The invariant holds initially.
LEMMA IInvInit == MaintenanceInit => IInv
  BY DEF MaintenanceInit, IInv, MaintenanceTypeOK, LoopStates, HandleStates, Engaged, Alive

\* Every step keeps the invariant, provided nobody starts a loop while a
\* shutdown is awaiting the previous one.
LEMMA IInvNext ==
  ASSUME ~Overlapping, IInv, [MaintenanceNext]_maintenanceVars
  PROVE  IInv'
  <1> USE DEF IInv, MaintenanceTypeOK, LoopStates, HandleStates, Engaged, Alive
  <1>1. CASE DropEngine
    BY <1>1 DEF DropEngine
  <1>2. ASSUME NEW r \in Runs, Start(r) PROVE IInv'
    <2>1. \A s \in Runs : ~Engaged(s)
      BY <1>2 DEF Start
    <2> QED BY <1>2, <2>1 DEF Start, Move
  <1>3. ASSUME NEW r \in Runs, EngineGone(r) PROVE IInv'
    BY <1>3 DEF EngineGone, Move, Upgradable
  <1>4. ASSUME NEW r \in Runs, TickFires(r) PROVE IInv'
    BY <1>4 DEF TickFires, Move
  <1>5. ASSUME NEW r \in Runs, WorkEnds(r) PROVE IInv'
    BY <1>5 DEF WorkEnds, Move
  <1>6. ASSUME NEW r \in Runs, LoopPanic(r) PROVE IInv'
    BY <1>6 DEF LoopPanic, Move
  <1>7. ASSUME NEW r \in Runs, LoopSeesCancel(r) PROVE IInv'
    BY <1>7 DEF LoopSeesCancel, Move
  <1>8. ASSUME NEW r \in Runs, Leave(r) PROVE IInv'
    BY <1>8 DEF Leave, Move
  <1>9. ASSUME NEW r \in Runs, Shutdown(r) PROVE IInv'
    BY <1>9 DEF Shutdown
  <1>10. ASSUME NEW r \in Runs, LoopJoined(r) PROVE IInv'
    BY <1>10 DEF LoopJoined
  <1>11. ASSUME NEW r \in Runs, DropHandle(r) PROVE IInv'
    BY <1>11 DEF DropHandle
  <1>12. CASE UNCHANGED maintenanceVars
    BY <1>12 DEF maintenanceVars
  <1> QED
    BY <1>1, <1>2, <1>3, <1>4, <1>5, <1>6, <1>7, <1>8, <1>9, <1>10, <1>11, <1>12
    DEF MaintenanceNext, LoopStep

\* With start_maintenance and shutdown called one after the other, at most one
\* loop is active per engine, whatever panics, is dropped or tokens.
THEOREM OneLoop == ASSUME ~Overlapping PROVE MaintenanceSpec => []AtMostOneLoop
  <1>1. IInv => AtMostOneLoop
    BY DEF IInv, AtMostOneLoop, Engaged
  <1>2. IInv /\ [MaintenanceNext]_maintenanceVars => IInv'
    BY IInvNext
  <1> QED BY <1>1, <1>2, IInvInit, PTL DEF MaintenanceSpec

\* Every step of every schedule, overlapping starts included, is type correct.
LEMMA TypeNext ==
  ASSUME MaintenanceTypeOK, [MaintenanceNext]_maintenanceVars
  PROVE  MaintenanceTypeOK'
  <1> USE DEF MaintenanceTypeOK, LoopStates, HandleStates
  <1>1. CASE DropEngine
    BY <1>1 DEF DropEngine
  <1>2. ASSUME NEW r \in Runs, Start(r) PROVE MaintenanceTypeOK'
    BY <1>2 DEF Start, Move
  <1>3. ASSUME NEW r \in Runs, LoopStep(r) PROVE MaintenanceTypeOK'
    BY <1>3 DEF LoopStep, EngineGone, TickFires, WorkEnds, LoopPanic, LoopSeesCancel, Leave, Move
  <1>4. ASSUME NEW r \in Runs, Shutdown(r) \/ LoopJoined(r) \/ DropHandle(r) PROVE MaintenanceTypeOK'
    BY <1>4 DEF Shutdown, LoopJoined, DropHandle
  <1>5. CASE UNCHANGED maintenanceVars
    BY <1>5 DEF maintenanceVars
  <1> QED BY <1>1, <1>2, <1>3, <1>4, <1>5 DEF MaintenanceNext

\* Type correctness.
THEOREM TypeCorrect == MaintenanceSpec => []MaintenanceTypeOK
  <1>1. MaintenanceInit => MaintenanceTypeOK
    BY DEF MaintenanceInit, MaintenanceTypeOK, LoopStates, HandleStates
  <1>2. MaintenanceTypeOK /\ [MaintenanceNext]_maintenanceVars => MaintenanceTypeOK'
    BY TypeNext
  <1> QED BY <1>1, <1>2, PTL DEF MaintenanceSpec

\* Once every handle is shut down the flag is clear, even when tasks panicked
\* and starts overlapped shutdowns: the engine can be maintained again.
THEOREM ShutdownFrees == MaintenanceSpec => []ClosedMeansStartable
  <1>1. MaintenanceInit => ClosedMeansStartable
    BY DEF MaintenanceInit, ClosedMeansStartable
  <1>2. MaintenanceTypeOK /\ ClosedMeansStartable /\ [MaintenanceNext]_maintenanceVars => ClosedMeansStartable'
    <2> SUFFICES ASSUME MaintenanceTypeOK, ClosedMeansStartable, [MaintenanceNext]_maintenanceVars
                 PROVE  ClosedMeansStartable'
      OBVIOUS
    <2> USE DEF MaintenanceTypeOK, ClosedMeansStartable
    <2>1. CASE DropEngine
      BY <2>1 DEF DropEngine
    <2>2. ASSUME NEW r \in Runs, Start(r) PROVE ClosedMeansStartable'
      BY <2>2 DEF Start
    <2>3. ASSUME NEW r \in Runs, LoopStep(r) PROVE ClosedMeansStartable'
      BY <2>3 DEF LoopStep, EngineGone, TickFires, WorkEnds, LoopPanic, LoopSeesCancel, Leave
    <2>4. ASSUME NEW r \in Runs, Shutdown(r) PROVE ClosedMeansStartable'
      BY <2>4 DEF Shutdown
    <2>5. ASSUME NEW r \in Runs, LoopJoined(r) PROVE ClosedMeansStartable'
      BY <2>5 DEF LoopJoined
    <2>6. ASSUME NEW r \in Runs, DropHandle(r) PROVE ClosedMeansStartable'
      BY <2>6 DEF DropHandle
    <2>7. CASE UNCHANGED maintenanceVars
      BY <2>7 DEF maintenanceVars
    <2> QED BY <2>1, <2>2, <2>3, <2>4, <2>5, <2>6, <2>7 DEF MaintenanceNext
  <1> QED BY <1>1, <1>2, TypeCorrect, PTL DEF MaintenanceSpec
=============================================================================
