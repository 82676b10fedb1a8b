------------------------------ MODULE ChainWalk ------------------------------
(***************************************************************************)
(* find_superseded_chain (engine.rs 827-859) over the storage core.        *)
(*                                                                         *)
(* The walk locks the connection for one version at a time, so versions    *)
(* are superseded, forgotten and purged between two of its steps.          *)
(***************************************************************************)
EXTENDS MemoryEngineProperties, Sequences

CONSTANTS
  Walkers,  \* concurrent callers of find_superseded_chain
  MaxHops   \* the guard: 10,000 in the code

ASSUME WalkAssumption == MaxHops \in Nat

VARIABLE walker  \* per caller: the walk it is in, or what its last walk returned

walkVars == <<vars, walker>>

\* A version as get() saw it.
Version == [id : Ids, next : Ids \cup {NoId}]
Walk    == [pc : {"idle", "walk"}, chain : Seq(Version), res : {"none", "ok", "err", "notfound", "cycle"}]

NoWalk == [pc |-> "idle", chain |-> <<>>, res |-> "none"]

WalkTypeOK == walker \in [Walkers -> Walk]

WalkInit == Init /\ walker = [w \in Walkers |-> NoWalk]

Walking(w, j) == walker' = [walker EXCEPT ![w] = j]

\* A step of the storage core; the end of the process ends the walks.
CoreStep ==
  /\ Next
  /\ walker' = IF up' THEN walker ELSE [w \in Walkers |-> NoWalk]

\* The chain read so far, its last version, and the id to look up next.
Chain(w)  == walker[w].chain
Newest(w) == Chain(w)[Len(Chain(w))]
NextId(w) == Newest(w).next

\* get(id)
Get(i) == [id |-> i, next |-> memories[i].superseded_by]

StartWalk(w) ==
  /\ up /\ walker[w].pc = "idle"
  /\ \E i \in KnownIds :
       Walking(w, IF i \in Rows
                  THEN [pc |-> "walk", res |-> "none", chain |-> <<Get(i)>>]
                  ELSE [NoWalk EXCEPT !.res = "notfound"])
  /\ UNCHANGED vars

\* (mutant: the guard allows one hop less)
TooLong_OffByOne(w) == Len(Chain(w)) >= MaxHops

\* The loop has run for every hop so far, the one it is about to make included.
TooLong(w) == Len(Chain(w)) > MaxHops

Hop(w) ==
  /\ walker[w].pc = "walk" /\ NextId(w) \in Rows /\ ~TooLong(w)
  /\ Walking(w, [walker[w] EXCEPT !.chain = Append(@, Get(NextId(w)))])
  /\ UNCHANGED vars

\* A get fails: the walk returns its error instead of the chain.
WalkFails(w) ==
  /\ up
  /\ walker[w].pc = "walk" => NextId(w) # NoId /\ ~TooLong(w)
  /\ Walking(w, [NoWalk EXCEPT !.res = "err"])
  /\ UNCHANGED vars

\* The guard gives up with Internal: "superseded_by cycle detected".
GiveUp(w) ==
  /\ walker[w].pc = "walk" /\ NextId(w) # NoId /\ TooLong(w)
  /\ Walking(w, [walker[w] EXCEPT !.pc = "idle", !.res = "cycle"])
  /\ UNCHANGED vars

\* (mutant: the walk stops at a version that has expired)
EndWalk_AtExpired(w) ==
  /\ walker[w].pc = "walk"
  /\ ~(NextId(w) \in Rows /\ ~Expired(NextId(w)))
  /\ Walking(w, [walker[w] EXCEPT !.pc = "idle", !.res = "ok"])
  /\ UNCHANGED vars

\* No successor, or one that is gone by now.
EndWalk(w) ==
  /\ walker[w].pc = "walk"
  /\ NextId(w) = NoId \/ (NextId(w) \notin Rows /\ ~TooLong(w))
  /\ Walking(w, [walker[w] EXCEPT !.pc = "idle", !.res = "ok"])
  /\ UNCHANGED vars

WalkStep(w) == StartWalk(w) \/ Hop(w) \/ WalkFails(w) \/ GiveUp(w) \/ EndWalk(w)

WalkNext == CoreStep \/ \E w \in Walkers : WalkStep(w)

WalkSpec == WalkInit /\ [][WalkNext]_walkVars

\* PurgingSpec of the storage core; nothing is asked of the walks.
WalkPurgingSpec == WalkSpec /\ Running /\ Maintained /\ WF_vars(Tick)

-----------------------------------------------------------------------------
(* Properties *)

\* Every version of a chain is the successor of the one before and younger, so
\* no version comes twice; and the guard trips only if more versions than it
\* has hops for were ever written, cycle or not.
ChainInOrder ==
  \A w \in Walkers :
    /\ \A k \in 2..Len(Chain(w)) :
         Chain(w)[k].id = Chain(w)[k - 1].next /\ Chain(w)[k - 1].id < Chain(w)[k].id
    /\ walker[w].res = "cycle" => issued > MaxHops + 1

\* A walk that returns Ok has reached the newest version, or the version it
\* ends with is itself gone by now: what a walk leaves out was removed together
\* with everything that pointed at it.
ChainReachesNewest ==
  \A w \in Walkers :
    walker[w].res = "ok" =>
      Newest(w).next = NoId \/ Newest(w).id \notin Rows
=============================================================================
