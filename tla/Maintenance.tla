----------------------------- MODULE Maintenance -----------------------------
(***************************************************************************)
(* The background maintenance controller: start_maintenance (engine.rs)    *)
(* and MaintenanceHandle (maintenance.rs).                                 *)
(*                                                                         *)
(* maintenance_running is a shared flag.  start_maintenance claims it with *)
(* swap(true) and spawns a loop; the loop stores false when it leaves; and *)
(* MaintenanceHandle::shutdown cancels the loop, awaits its end and stores *)
(* false once more.  Each successful start is named by an element of       *)
(* Runs, which stands for the task, its token and its handle.              *)
(***************************************************************************)
EXTENDS Naturals

CONSTANTS
  Runs,           \* bound: successful starts
  Overlapping,    \* may start_maintenance be called while a shutdown awaits?
  LoopPanics      \* may the spawned task panic?

ASSUME MaintenanceAssumption ==
  Overlapping \in BOOLEAN /\ LoopPanics \in BOOLEAN

VARIABLES
  flag,      \* maintenance_running
  engine,    \* the callers hold an Arc<MemoryEngine>
  loop,      \* per run: where the spawned task is
  tokens,    \* per run: cancelled, its CancellationToken
  handle     \* per run: what became of the MaintenanceHandle

maintenanceVars == <<flag, engine, loop, tokens, handle>>

LoopStates   == {"unused", "waiting", "working", "leaving", "done", "panicked"}
HandleStates == {"none", "held", "awaiting", "closed", "dropped"}

MaintenanceTypeOK ==
  /\ flag \in BOOLEAN
  /\ engine \in BOOLEAN
  /\ loop \in [Runs -> LoopStates]
  /\ tokens \in [Runs -> BOOLEAN]
  /\ handle \in [Runs -> HandleStates]

MaintenanceInit ==
  /\ flag = FALSE
  /\ engine = TRUE
  /\ loop = [r \in Runs |-> "unused"]
  /\ tokens = [r \in Runs |-> FALSE]
  /\ handle = [r \in Runs |-> "none"]

\* (mutant: the task holds an Arc of its own instead of a Weak)
Upgradable_StrongRef == TRUE

\* weak.upgrade() succeeds: a caller or a working loop holds the engine.
Upgradable == engine \/ \E r \in Runs : loop[r] = "working"

\* Mutating the loop of run r only.
Move(r, state) == loop' = [loop EXCEPT ![r] = state]

\* (mutant: the flag is read and set without looking at the old value)
Start_NoSwap(r) ==
  /\ engine
  /\ loop[r] = "unused"
  /\ Overlapping \/ \A s \in Runs : handle[s] # "awaiting"
  /\ flag' = TRUE
  /\ Move(r, "waiting")
  /\ handle' = [handle EXCEPT ![r] = "held"]
  /\ UNCHANGED <<engine, tokens>>

\* start_maintenance found the flag clear: the task is spawned.  (With the
\* flag set it returns InvalidArgument and changes nothing.)
Start(r) ==
  /\ engine
  /\ loop[r] = "unused"
  /\ Overlapping \/ \A s \in Runs : handle[s] # "awaiting"
  /\ ~flag
  /\ flag' = TRUE
  /\ Move(r, "waiting")
  /\ handle' = [handle EXCEPT ![r] = "held"]
  /\ UNCHANGED <<engine, tokens>>

\* A tick with no engine left: the loop breaks.
EngineGone(r) ==
  /\ loop[r] = "waiting"
  /\ ~Upgradable
  /\ Move(r, "leaving")
  /\ UNCHANGED <<flag, engine, tokens, handle>>

\* A tick: purge_expired or compress_old_memories runs on an upgraded Arc ...
TickFires(r) ==
  /\ loop[r] = "waiting"
  /\ Upgradable
  /\ Move(r, "working")
  /\ UNCHANGED <<flag, engine, tokens, handle>>

\* ... and returns; errors are only logged.
WorkEnds(r) ==
  /\ loop[r] = "working"
  /\ Move(r, "waiting")
  /\ UNCHANGED <<flag, engine, tokens, handle>>

LoopPanic(r) ==
  /\ LoopPanics
  /\ loop[r] = "working"
  /\ Move(r, "panicked")
  /\ UNCHANGED <<flag, engine, tokens, handle>>

\* The select sees the token.
LoopSeesCancel(r) ==
  /\ loop[r] = "waiting"
  /\ tokens[r]
  /\ Move(r, "leaving")
  /\ UNCHANGED <<flag, engine, tokens, handle>>

\* The task clears the flag as its last act.
Leave(r) ==
  /\ loop[r] = "leaving"
  /\ flag' = FALSE
  /\ Move(r, "done")
  /\ UNCHANGED <<engine, tokens, handle>>

\* shutdown cancels and starts to await the task.
Shutdown(r) ==
  /\ handle[r] = "held"
  /\ tokens' = [tokens EXCEPT ![r] = TRUE]
  /\ handle' = [handle EXCEPT ![r] = "awaiting"]
  /\ UNCHANGED <<flag, engine, loop>>

\* (mutant: shutdown returns on a JoinError without clearing the flag)
LoopJoined_EarlyReturn(r) ==
  /\ handle[r] = "awaiting"
  /\ loop[r] \in {"done", "panicked"}
  /\ flag' = (flag /\ loop[r] = "panicked")
  /\ handle' = [handle EXCEPT ![r] = "closed"]
  /\ UNCHANGED <<engine, loop, tokens>>

\* (mutant: the join also waits for the flag to be cleared by the task)
LoopJoined_FlagAwaited(r) ==
  /\ handle[r] = "awaiting"
  /\ loop[r] \in {"done", "panicked"}
  /\ ~flag
  /\ handle' = [handle EXCEPT ![r] = "closed"]
  /\ UNCHANGED <<flag, engine, loop, tokens>>

\* The await is over, by a normal end or a panic: shutdown clears the flag.
LoopJoined(r) ==
  /\ handle[r] = "awaiting"
  /\ loop[r] \in {"done", "panicked"}
  /\ flag' = FALSE
  /\ handle' = [handle EXCEPT ![r] = "closed"]
  /\ UNCHANGED <<engine, loop, tokens>>

\* The handle, or the shutdown future awaiting the task, is dropped.
DropHandle(r) ==
  /\ handle[r] \in {"held", "awaiting"}
  /\ handle' = [handle EXCEPT ![r] = "dropped"]
  /\ UNCHANGED <<flag, engine, loop, tokens>>

\* The last Arc<MemoryEngine> of the callers is dropped.
DropEngine ==
  /\ engine
  /\ engine' = FALSE
  /\ UNCHANGED <<flag, loop, tokens, handle>>

\* What the spawned task does by itself.
LoopStep(r) ==
  \/ EngineGone(r) \/ TickFires(r) \/ WorkEnds(r) \/ LoopPanic(r)
  \/ LoopSeesCancel(r) \/ Leave(r)

MaintenanceNext ==
  \/ DropEngine
  \/ \E r \in Runs :
       Start(r) \/ LoopStep(r) \/ Shutdown(r) \/ LoopJoined(r) \/ DropHandle(r)

MaintenanceSpec == MaintenanceInit /\ [][MaintenanceNext]_maintenanceVars

\* The runtime polls the task and the shutdown future; purge and compression
\* return; and a select between a ready token and a ready timer is random, so
\* the token is not overlooked for ever (strong fairness).
LoopFairness ==
  \A r \in Runs :
    /\ WF_maintenanceVars(WorkEnds(r)) /\ WF_maintenanceVars(EngineGone(r))
    /\ WF_maintenanceVars(Leave(r)) /\ SF_maintenanceVars(LoopSeesCancel(r))
    /\ WF_maintenanceVars(LoopJoined(r))

MaintenanceFairSpec == MaintenanceSpec /\ LoopFairness

-----------------------------------------------------------------------------
(* Properties *)

Alive(r) == loop[r] \in {"waiting", "working", "leaving"}

\* At most one maintenance loop is active per engine: what the swap in
\* start_maintenance is there for.
AtMostOneLoop == \A r, s \in Runs : Alive(r) /\ Alive(s) => r = s

\* shutdown never leaves an engine that cannot be maintained again, even if
\* the task panicked: with no handle outstanding or dropped, the flag is clear.
ClosedMeansStartable ==
  (\A r \in Runs : handle[r] \in {"none", "closed"}) => ~flag

\* shutdown returns unless its future is dropped.
ShutdownReturns ==
  \A r \in Runs : (handle[r] = "awaiting") ~> (handle[r] \in {"closed", "dropped"})

\* A loop never outlives the engine by itself: when the callers have dropped
\* theirs it ends, cancelled or not.
LoopEndsWithEngine ==
  \A r \in Runs : (~engine /\ Alive(r)) ~> ~Alive(r)
=============================================================================
