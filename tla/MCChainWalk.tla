----------------------------- MODULE MCChainWalk -----------------------------
(***************************************************************************)
(* An instance of ChainWalk: a caller that stores and updates, the         *)
(* maintenance loop that purges, and one walk.                             *)
(***************************************************************************)
EXTENDS ChainWalk

CONSTANTS t1, t2

PurgeCalls == [t \in Tasks |-> IF t = t1 THEN {"store", "update"} ELSE {"purge"}]
TtlsExpiry == {Never, 1, 2}
=============================================================================
