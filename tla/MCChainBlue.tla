---------------------------- MODULE MCChainBlue ----------------------------
(***************************************************************************)
(* Block 6 has a transaction that spends the coinbase of block 4.          *)
(***************************************************************************)
EXTENDS ChainStore

CONSTANTS spend

MCTxs == {spend}
MCSpends == [t \in MCTxs |-> <<4>>]
MCBodies == [b \in 1..(MaxBlocks - 1) |-> IF b <= 5 THEN {<<>>} ELSE {<<spend>>}]

NextFalling == NextStore(MaxBlocks - blockTotal)

SpecFalling == InitStore /\ [][NextFalling]_<<vars, storeVars>>
=============================================================================
