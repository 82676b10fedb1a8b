------------------------- MODULE MCMemoryEngineDrift -------------------------
(* MemoryEngineDrift for TLC: one caller, every method, every failure. *)
EXTENDS MemoryEngineDrift

CONSTANT t1

AnyCall == [t \in Tasks |-> CallNames]
AnyTtl  == {Never, 1}
=============================================================================
