--------------------------- MODULE MCPhantomNodes ---------------------------
(***************************************************************************)
(* The first node creates blocks with falling hashes; every order of      *)
(* creation is enumerated, so two blocks neither of which is the other's   *)
(* ancestor compare either way in some behaviour.  Hashes that agree with  *)
(* no order of creation are left out, to keep the instance small.  The     *)
(* second node receives the blocks in every order.                         *)
(***************************************************************************)
EXTENDS PhantomNodes

Highest == {h \in Hashes : A!Fresh(h) /\ \A g \in Hashes : A!Fresh(g) => g <= h}

CreateFalling ==
  /\ \E ps \in (SUBSET DOMAIN blocksA) \ {{}}, h \in Highest :
       A!Antichain(ps) /\ A!AddBlock(ps, h)
  /\ UNCHANGED varsB

NextFalling == CreateFalling \/ Deliver

SpecFalling == Init /\ [][NextFalling]_<<varsA, varsB>>
=============================================================================
