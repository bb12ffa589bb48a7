---------------------------- MODULE MCFlatFileDb ----------------------------
(* The genesis block and two more, in files of two records. *)
EXTENDS FlatFileDb, TLC

Symmetry == Permutations(Blocks \ {Genesis})
=============================================================================
