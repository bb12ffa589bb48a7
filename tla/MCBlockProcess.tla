-------------------------- MODULE MCBlockProcess --------------------------
(***************************************************************************)
(* A small DAG for BlockProcess: a on what the node has already, for which *)
(* g stands, b above a, c and d above b and g, and r that is refused when  *)
(* it is accepted.  A height is one above that of the main parent: for c   *)
(* that is b, for d a block of g, and d is no higher than its parent b.    *)
(***************************************************************************)
EXTENDS BlockProcess, TLC

CONSTANTS a, b, c, d, r, g, local, sync

AllParents == a :> {g} @@ b :> {a} @@ c :> {b, g} @@ d :> {b, g} @@ r :> {a}
AllHeights == a :> 1 @@ b :> 2 @@ c :> 3 @@ d :> 2 @@ r :> 2

MCParents == [x \in Blocks |-> AllParents[x]]
MCHeight == [x \in Blocks |-> AllHeights[x]]
=============================================================================
