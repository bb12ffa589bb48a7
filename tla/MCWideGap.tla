----------------------------- MODULE MCWideGap -----------------------------
(***************************************************************************)
(* One DAG, with the layer gap of the code, in which every block's parents *)
(* are tips no further apart than the gap allows.  Two chains grow from    *)
(* genesis: blocks 1..21 and blocks 22..32.  Block 33 merges them; block   *)
(* 34 builds on block 1 and the end of the second chain; block 35 merges   *)
(* 33 and 34.                                                              *)
(***************************************************************************)
EXTENDS Phantom

ParentsOfBlock(b) ==
  CASE b \in {1, 22} -> {0}
    [] b \in 2..21 \cup 23..32 -> {b - 1}
    [] b = 33 -> {21, 32}
    [] b = 34 -> {1, 32}
    [] b = 35 -> {33, 34}

NextWideGap ==
  /\ blockTotal < MaxBlocks
  /\ Antichain(ParentsOfBlock(blockTotal))
  /\ AddBlock(ParentsOfBlock(blockTotal), blockTotal)

SpecWideGap == Init /\ [][NextWideGap]_vars
=============================================================================
