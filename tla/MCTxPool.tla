------------------------------ MODULE MCTxPool ------------------------------
(***************************************************************************)
(* Four transactions: t1 spends a confirmed output, t2 an output of t1 and *)
(* another confirmed one, t4 an output of t2, and t3 is a rival of both t1 *)
(* and t2.                                                                 *)
(***************************************************************************)
EXTENDS TxPool

CONSTANTS t1, t2, t3, t4, base

MCTxs == {t1, t2, t3, t4}
MCSpends ==
  [t \in MCTxs |->
     CASE t = t1 -> {<<base, 0>>}
       [] t = t2 -> {<<t1, 0>>, <<base, 1>>}
       [] t = t3 -> {<<base, 0>>, <<base, 1>>}
       [] t = t4 -> {<<t2, 0>>}]
=============================================================================
