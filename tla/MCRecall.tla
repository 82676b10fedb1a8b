------------------------------ MODULE MCRecall ------------------------------
(***************************************************************************)
(* An instance of Recall and Queries: a writer, a reader that wants stale  *)
(* memories and no clutter, one that asks for superseded memories too.     *)
(***************************************************************************)
EXTENDS Queries

CONSTANTS r1, r2

Writing == [t \in Tasks |-> {"store", "update", "forget", "purge"}]

Asked == [r \in Readers |->
  {[NoQuery EXCEPT !.include_superseded = (r = r2),
                   !.no_clutter = (r = r1), !.only_stale = (r = r1)]}]

StaleAfterOne == [clutter \in BOOLEAN |-> 1]
=============================================================================
