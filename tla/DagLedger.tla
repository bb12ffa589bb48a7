----------------------------- MODULE DagLedger -----------------------------
(***************************************************************************)
(* What the block DAG promises the chain above it, without colours, layers *)
(* or orders: a growing DAG, and a ledger that lists its last block's past *)
(* and then that block, ancestors first.                                   *)
(***************************************************************************)
EXTENDS Integers, Sequences, Functions

CONSTANT Ids

VARIABLES dag,      \* block -> its parents
          ledger    \* the connected blocks, oldest first

Init ==
  /\ dag = [b \in {0} |-> {}]
  /\ ledger = <<0>>

PastIn(d, b) ==
  LET past[c \in DOMAIN d] == d[c] \cup UNION {past[p] : p \in d[c]}
  IN  past[b]

(* s lists b's past and then b, each once and no block before a parent.    *)
Linearizes(s, d, b) ==
  /\ IsInjective(s)
  /\ Range(s) = PastIn(d, b) \cup {b}
  /\ \A i, j \in 1..Len(s) : s[i] \in d[s[j]] => i < j

LastBlock == ledger[Len(ledger)]

Grow(b, ps) ==
  /\ b \notin DOMAIN dag
  /\ dag' = [c \in DOMAIN dag \cup {b} |-> IF c = b THEN ps ELSE dag[c]]

(* A block on top of the ledger is appended at once, after the blocks it   *)
(* brings in; nothing already in the ledger moves.                         *)
Extend(b, ps) ==
  /\ Grow(b, ps)
  /\ LastBlock \in ps
  /\ Linearizes(ledger', dag', b)
  /\ SubSeq(ledger', 1, Len(ledger)) = ledger

(* Any other block leaves the ledger alone or takes its end over. *)
Ignore(b, ps) ==
  /\ Grow(b, ps)
  /\ LastBlock \notin ps
  /\ ledger' = ledger

Switch(b, ps) ==
  /\ Grow(b, ps)
  /\ LastBlock \notin ps
  /\ Linearizes(ledger', dag', b)

Next ==
  \E b \in Ids, ps \in (SUBSET DOMAIN dag) \ {{}} :
    Extend(b, ps) \/ Ignore(b, ps) \/ Switch(b, ps)

Spec == Init /\ [][Next]_<<dag, ledger>>

=============================================================================
