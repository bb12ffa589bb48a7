---------------------------- MODULE MCChainState ----------------------------
(***************************************************************************)
(* t1 and t2 spend the genesis output both, t3 spends what t1 makes, and   *)
(* issue makes a token.  Blocks 1 and 2 can be in conflict, block 3 can    *)
(* repeat a transaction of block 1, and later ones depend on what was      *)
(* connected.                                                              *)
(***************************************************************************)
EXTENDS ChainStore

CONSTANTS t1, t2, t3, issue

MCTxs == {t1, t2, t3, issue}
MCSpends == [t \in MCTxs |->
               CASE t = t1 -> <<0>> [] t = t2 -> <<0>> [] t = t3 -> <<t1>> [] t = issue -> <<>>]
MCBodies ==
  SubSeq(<<{<<t1>>}, {<<t2>>}, {<<t1, t3>>, <<issue>>}, {<<t3, issue>>, <<issue, t2>>}, {<<t3>>}>>,
         1, MaxBlocks - 1)

NextFalling == NextStore(MaxBlocks - blockTotal)

SpecFalling == InitStore /\ [][NextFalling]_<<vars, storeVars>>

Ledger == INSTANCE DagLedger WITH
            Ids <- 0..(MaxBlocks - 1),
            dag <- LET bs == IF mode = "up" THEN blocks ELSE accepted.blocks
                   IN  [b \in DOMAIN bs |-> bs[b].parents],
            ledger <- IF mode = "up" THEN chain ELSE accepted.chain

(* With crashes and restarts, what a running node shows is still the       *)
(* abstract ledger: each block extends it, takes its end over or leaves it *)
(* alone, and a restart either finishes the interrupted block or shows the *)
(* ledger from before it.                                                  *)
ImplementsLedger == Ledger!Spec
=============================================================================
