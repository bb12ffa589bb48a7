---------------------------- MODULE DurableStore ----------------------------
(***************************************************************************)
(* What the callers of the block database (database.DB) rely on: a write   *)
(* transaction takes effect as a whole or not at all, and a crash goes     *)
(* back to the state after some earlier transaction, never to a mixture.   *)
(***************************************************************************)
CONSTANT States

VARIABLES
  current,    \* the state transactions see
  durable,    \* the state a crash goes back to
  tx          \* what the write transaction under way makes of current: one
              \* state, or none

vars == <<current, durable, tx>>

Init ==
  /\ current \in States
  /\ durable = current
  /\ tx = {}

Begin ==
  /\ tx = {}
  /\ \E s \in States : tx' = {s}
  /\ UNCHANGED <<current, durable>>

(* The effect is in memory only, or goes to disk after all that precedes. *)
Commit ==
  /\ \E s \in tx :
       /\ current' = s
       /\ durable' = durable \/ (durable = current /\ durable' = s)
  /\ tx' = {}

Abort ==
  /\ tx # {}
  /\ tx' = {}
  /\ UNCHANGED <<current, durable>>

Flush ==
  /\ durable' = current
  /\ UNCHANGED <<current, tx>>

Crash ==
  /\ current' = durable
  /\ tx' = {}
  /\ UNCHANGED durable

Next == Begin \/ Commit \/ Abort \/ Flush \/ Crash

Spec == Init /\ [][Next]_vars
=============================================================================
