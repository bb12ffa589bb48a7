---------------------------- MODULE PhantomProof ----------------------------
(***************************************************************************)
(* The links of the block DAG are consistent and the main chain is that of *)
(* the bluest block, whatever the constants, and whichever parents new     *)
(* blocks name.                                                            *)
(*                                                                         *)
(* LinkInv says of the links what LinksConsistent does.  The walks of the  *)
(* code are recursive functions, so the second part starts with a recursion *)
(* theorem, and shows of each walk that it ends and where.  MainInv then   *)
(* says of the main chain what MainChainFromBluest does, and of all blocks *)
(* that they are one higher than their main parent and have hashes of their *)
(* own.                                                                    *)
(***************************************************************************)
EXTENDS Phantom, TLAPS, WellFoundedInduction, FiniteSetTheorems

(* The leaves below are for Zenon, but for those that name another prover. *)
USE Zenon

LinkFields == {"parents", "children", "layer"}

(* LinksConsistent made inductive: the records have their link fields, a   *)
(* layer never exceeds the id (so that the parents have a highest layer),  *)
(* and ids are given without gaps.                                         *)
LinkInv ==
  /\ blockTotal \in Nat \ {0}
  /\ DOMAIN blocks = 0..(blockTotal - 1)
  /\ \A b \in DOMAIN blocks :
       /\ LinkFields \subseteq DOMAIN blocks[b]
       /\ blocks[b].parents \subseteq 0..(b - 1)
       /\ blocks[b].layer \in 0..b
  /\ LinksConsistent

(* cs is bs but for fields that are not links. *)
SameLinks(bs, cs) ==
  /\ DOMAIN cs = DOMAIN bs
  /\ \A b \in DOMAIN bs :
       /\ LinkFields \subseteq DOMAIN cs[b]
       /\ cs[b].parents = bs[b].parents
       /\ cs[b].children = bs[b].children
       /\ cs[b].layer = bs[b].layer

HasLinks(bs) == \A b \in DOMAIN bs : LinkFields \subseteq DOMAIN bs[b]

-----------------------------------------------------------------------------
(* A non-empty set of natural numbers has a least element. *)
LEMMA LeastNat ==
  ASSUME NEW T \in SUBSET Nat, T # {}
  PROVE  \E m \in T : \A n \in T : m <= n
<1>1. PICK m \in T : \A n \in T : ~(<<n, m>> \in OpToRel(<, Nat))
  BY NatLessThanWellFounded, WFMin
<1>2. ASSUME NEW n \in T PROVE m <= n
  <2>1. ~(<<n, m>> \in OpToRel(<, Nat))
    BY <1>1
  <2>2. ~(n < m)
    BY <2>1, SMT DEF OpToRel
  <2>. QED BY <2>2, SMT
<1>. QED BY <1>2, SMT

(* AddBlock's maxLayer is the highest layer among the parents. *)
LEMMA MaxLayerIsHighest ==
  ASSUME LinkInv, NEW ps \in SUBSET DOMAIN blocks, ps # {}
  PROVE  /\ \E p \in ps : maxLayer(ps) = blocks[p].layer
         /\ \A p \in ps : blocks[p].layer <= maxLayer(ps)
<1>. DEFINE L == {blocks[p].layer : p \in ps}
            T == {n \in Nat : \A p \in ps : blocks[p].layer <= n}
<1>1. \A p \in ps : blocks[p].layer \in Nat /\ blocks[p].layer <= blockTotal
  BY SMT DEF LinkInv
<1>2. blockTotal \in T
  BY <1>1, SMT DEF LinkInv
<1>3. PICK m \in T : \A n \in T : m <= n
  BY <1>2, LeastNat
<1>4. \E p \in ps : blocks[p].layer = m
  <2>1. SUFFICES ASSUME \A p \in ps : blocks[p].layer # m PROVE FALSE
    OBVIOUS
  <2>2. \A p \in ps : blocks[p].layer < m
    BY <2>1, <1>1, SMT
  <2>3. m - 1 \in T
    BY <2>2, <1>1, SMT
  <2>. QED BY <2>3, <1>3, SMT
<1>5. \E l \in L : \A p \in ps : blocks[p].layer <= l
  BY <1>4, SMT
<1>. QED BY <1>5 DEF maxLayer

-----------------------------------------------------------------------------
(* bs is blocks with a new childless block on ps. *)
Linked(bs, ps) ==
  /\ DOMAIN bs = 0..blockTotal
  /\ HasLinks(bs)
  /\ bs[blockTotal].parents = ps
  /\ bs[blockTotal].children = {}
  /\ bs[blockTotal].layer = maxLayer(ps) + 1
  /\ \A b \in DOMAIN blocks :
       /\ bs[b].parents = blocks[b].parents
       /\ bs[b].layer = blocks[b].layer
       /\ bs[b].children = IF b \in ps THEN blocks[b].children \cup {blockTotal}
                           ELSE blocks[b].children

(* linkBlock adds the new block with its parents and nothing else but its  *)
(* id among its parents' children.                                         *)
LEMMA LinkBlockLinks ==
  ASSUME LinkInv, NEW ps \in SUBSET DOMAIN blocks, ps # {}, NEW h
  PROVE  Linked(linkBlock(ps, h), ps)
<1>. DEFINE bs == linkBlock(ps, h)
            n  == blockTotal
<1>1. DOMAIN bs = 0..n
  BY SMT DEF linkBlock
<1>2. n \in Nat /\ n \in DOMAIN bs /\ n \notin DOMAIN blocks
  BY <1>1, SMT DEF LinkInv
<1>3. bs[n] = Block(h, ps, maxLayer(ps) + 1)
  BY <1>2, SMT DEF linkBlock
<1>4. /\ bs[n].parents = ps
      /\ bs[n].children = {}
      /\ bs[n].layer = maxLayer(ps) + 1
      /\ LinkFields \subseteq DOMAIN bs[n]
  BY <1>3, SMT DEF Block, LinkFields
<1>5. ASSUME NEW b \in DOMAIN blocks
      PROVE  /\ bs[b].parents = blocks[b].parents
             /\ bs[b].layer = blocks[b].layer
             /\ bs[b].children = IF b \in ps THEN blocks[b].children \cup {n}
                                 ELSE blocks[b].children
             /\ LinkFields \subseteq DOMAIN bs[b]
  <2>1. b \in 0..n /\ b # n
    BY SMT DEF LinkInv
  <2>2. bs[b] = [blocks[b] EXCEPT !.children =
                   IF b \in ps THEN @ \cup {n} ELSE @]
    BY <2>1, SMT DEF linkBlock
  <2>3. LinkFields \subseteq DOMAIN blocks[b]
    BY SMT DEF LinkInv
  <2>. QED BY <2>2, <2>3, SMT DEF LinkFields
<1>6. \A b \in DOMAIN bs : b = n \/ b \in DOMAIN blocks
  BY <1>1, SMT DEF LinkInv
<1>. QED BY <1>1, <1>4, <1>5, <1>6 DEF HasLinks, Linked

(* Colouring and ordering the new block leave the links alone. *)
LEMMA UpdateBlockColorLinks ==
  ASSUME NEW bs, HasLinks(bs), NEW b \in DOMAIN bs
  PROVE  SameLinks(bs, updateBlockColor(bs, b))
<1>. DEFINE tp   == getBluest(bs, bs[b].parents)
            set  == [bs EXCEPT ![b].mainParent = tp,
                               ![b].height = bs[tp].height + 1]
            diff == getDiffAnticone(set, b)
            blue == {c \in diff : coloringRule(set, getKChain(set, b), c)}
            n    == bs[tp].blueNum + 1 + Cardinality(blue)
            red  == diff \ blue
            h    == bs[tp].height + 1
            cs   == [set EXCEPT ![b].blueNum = n, ![b].blue = blue, ![b].red = red]
<1>1. updateBlockColor(bs, b) = cs
  BY SMT DEF updateBlockColor
<1>. HIDE DEF tp, diff, blue, n, red, h
<1>2. SameLinks(bs, set)
  BY SMT DEF HasLinks, SameLinks, LinkFields
<1>. HIDE DEF set
<1>3. SameLinks(set, cs)
  BY <1>2, SMT DEF SameLinks, LinkFields
<1>4. SameLinks(bs, cs)
  BY <1>2, <1>3, SMT DEF SameLinks
<1>. QED BY <1>1, <1>4, SMT

(* updateBlockOrder only writes the order of the diff anticone. *)
LEMMA UpdateBlockOrderLinks ==
  ASSUME NEW bs, HasLinks(bs), NEW b \in DOMAIN bs
  PROVE  SameLinks(bs, updateBlockOrder(bs, b))
<1>. DEFINE o == getDiffAnticoneOrder(bs, b)
<1>1. updateBlockOrder(bs, b) = [bs EXCEPT ![b].diffOrder = o]
  BY SMT DEF updateBlockOrder
<1>. HIDE DEF o
<1>. QED BY <1>1, SMT DEF HasLinks, SameLinks, LinkFields

(* So do the orders given along the main chain and taken from the blocks   *)
(* outside it.                                                             *)
LEMMA UpdateMainOrderLinks ==
  ASSUME NEW bs, HasLinks(bs), NEW ids, NEW start
  PROVE  SameLinks(bs, updateMainOrder(bs, ids, start))
<1>. DEFINE ord(b) == start + (CHOOSE i \in DOMAIN ids :
                        ids[i] = b /\ \A j \in DOMAIN ids : ids[j] = b => j <= i)
            in(b)  == b \in Range(ids)
            cs     == [b \in DOMAIN bs |-> IF in(b) THEN [bs[b] EXCEPT !.order = ord(b)]
                                           ELSE bs[b]]
<1>1. updateMainOrder(bs, ids, start) = cs
  BY SMT DEF updateMainOrder
<1>. HIDE DEF ord, in
<1>2. SameLinks(bs, cs)
  BY SMT DEF HasLinks, SameLinks, LinkFields
<1>. QED BY <1>1, <1>2, SMT

(* preUpdateVirtualBlock only takes orders away. *)
LEMMA PreUpdateVirtualBlockLinks ==
  ASSUME NEW bs, HasLinks(bs), NEW S
  PROVE  SameLinks(bs, preUpdateVirtualBlock(bs, S))
BY SMT DEF preUpdateVirtualBlock, HasLinks, SameLinks, LinkFields

(* A DAG with the same links as one that has link fields has them too. *)
LEMMA SameLinksHasLinks ==
  ASSUME NEW bs, NEW cs, SameLinks(bs, cs)
  PROVE  HasLinks(cs)
BY SMT DEF SameLinks, HasLinks

(* Steps of AddBlock that each keep the links keep them together. *)
LEMMA SameLinksTransitive ==
  ASSUME NEW bs, NEW cs, NEW ds, SameLinks(bs, cs), SameLinks(cs, ds)
  PROVE  SameLinks(bs, ds)
BY SMT DEF SameLinks

(* Whatever AddBlock does after linkBlock, the links stay as it left them. *)
LEMMA AddBlockLinks ==
  ASSUME LinkInv, NEW ps \in SUBSET DOMAIN blocks, ps # {}, NEW h, AddBlock(ps, h)
  PROVE  SameLinks(linkBlock(ps, h), blocks')
<1>. DEFINE bs == linkBlock(ps, h)
            cs == updateBlockColor(bs, blockTotal)
            ds == updateBlockOrder(cs, blockTotal)
<1>1. HasLinks(bs) /\ blockTotal \in DOMAIN bs
  <2>1. HasLinks(bs) /\ DOMAIN bs = 0..blockTotal
    BY LinkBlockLinks DEF Linked
  <2>. QED BY <2>1, SMT DEF LinkInv
<1>2. SameLinks(bs, cs)
  BY <1>1, UpdateBlockColorLinks, SMT
<1>3. HasLinks(cs) /\ blockTotal \in DOMAIN cs
  <2>1. HasLinks(cs)
    BY <1>2, SameLinksHasLinks, SMT
  <2>2. DOMAIN cs = DOMAIN bs
    BY <1>2, SMT DEF SameLinks
  <2>. QED BY <1>1, <2>1, <2>2, SMT
<1>4. SameLinks(cs, ds)
  BY <1>3, UpdateBlockOrderLinks, SMT
<1>5. SameLinks(bs, ds) /\ HasLinks(ds)
  BY <1>2, <1>4, SameLinksTransitive, SameLinksHasLinks, SMT
<1>6. coloured(ps, h) = ds
  BY SMT DEF coloured
<1>. HIDE DEF bs, cs, ds
<1>7. CASE KeepMainTip(ds)
  <2>1. \E S : blocks' = preUpdateVirtualBlock(ds, S)
    BY <1>7, SMT DEF KeepMainTip
  <2>2. SameLinks(ds, blocks')
    BY <2>1, <1>5, PreUpdateVirtualBlockLinks, SMT
  <2>3. SameLinks(bs, blocks')
    BY <2>2, <1>5, SameLinksTransitive, SMT
  <2>. QED BY <2>3, SMT DEF bs
<1>8. CASE MoveMainTip(ds)
  <2>1. \E ids, start, S :
          blocks' = preUpdateVirtualBlock(updateMainOrder(ds, ids, start), S)
    BY <1>8 DEF MoveMainTip
  <2>2. PICK ids, start, S :
          blocks' = preUpdateVirtualBlock(updateMainOrder(ds, ids, start), S)
    BY <2>1, SMT
  <2>3. SameLinks(ds, updateMainOrder(ds, ids, start))
    BY <1>5, UpdateMainOrderLinks, SMT
  <2>4. HasLinks(updateMainOrder(ds, ids, start))
    BY <2>3, SameLinksHasLinks, SMT
  <2>5. SameLinks(updateMainOrder(ds, ids, start), blocks')
    BY <2>2, <2>4, PreUpdateVirtualBlockLinks, SMT
  <2>6. SameLinks(bs, blocks')
    BY <1>5, <2>3, <2>5, SameLinksTransitive, SMT
  <2>. QED BY <2>6, SMT DEF bs
<1>9. KeepMainTip(ds) \/ MoveMainTip(ds)
  BY <1>6, SMT DEF AddBlock
<1>. QED BY <1>7, <1>8, <1>9, SMT DEF bs

-----------------------------------------------------------------------------
(* The genesis block alone is consistently linked (Phantom.Init). *)
LEMMA LinkInvInit == Init => LinkInv
<1>. SUFFICES ASSUME Init PROVE LinkInv
  OBVIOUS
<1>1. DOMAIN blocks = {0} /\ blockTotal = 1 /\ tips = {0}
  BY SMT DEF Init, GenesisId
<1>2. blocks[0] = [Block(0, {}, 0) EXCEPT !.order = 0]
  BY SMT DEF Init, GenesisId
<1>3. /\ blocks[0].parents = {} /\ blocks[0].children = {} /\ blocks[0].layer = 0
      /\ LinkFields \subseteq DOMAIN blocks[0]
  BY <1>2, SMT DEF Block, LinkFields
<1>4. LinksConsistent
  BY <1>1, <1>3, SMT DEF LinksConsistent, GenesisId
<1>. QED BY <1>1, <1>3, <1>4, SMT DEF LinkInv

(* A block with any parents the DAG holds keeps the links consistent. *)
LEMMA LinkInvAddBlock ==
  ASSUME LinkInv, NEW ps \in SUBSET DOMAIN blocks, ps # {}, NEW h, AddBlock(ps, h)
  PROVE  LinkInv'
<1>. DEFINE n  == blockTotal
            bs == linkBlock(ps, h)
<1>1. Linked(bs, ps)
  BY LinkBlockLinks, SMT
<1>2. SameLinks(bs, blocks')
  BY AddBlockLinks, SMT
<1>3. tips' = {b \in tips : bs[b].children = {}} \cup {n}
  BY SMT DEF AddBlock, updateTips
<1>4. /\ \E p \in ps : maxLayer(ps) = blocks[p].layer
      /\ \A p \in ps : blocks[p].layer <= maxLayer(ps)
  BY MaxLayerIsHighest, SMT
<1>. HIDE DEF bs
<1>5. n \in Nat \ {0} /\ blockTotal' = n + 1 /\ DOMAIN blocks = 0..(n - 1)
  BY SMT DEF AddBlock, LinkInv
<1>6. /\ DOMAIN blocks' = 0..n
      /\ \A b \in 0..n : /\ LinkFields \subseteq DOMAIN blocks'[b]
                         /\ blocks'[b].parents = bs[b].parents
                         /\ blocks'[b].children = bs[b].children
                         /\ blocks'[b].layer = bs[b].layer
  BY <1>1, <1>2, SMT DEF SameLinks, Linked
<1>7. /\ blocks'[n].parents = ps
      /\ blocks'[n].children = {}
      /\ blocks'[n].layer = maxLayer(ps) + 1
      /\ \A b \in 0..(n - 1) :
           /\ blocks'[b].parents = blocks[b].parents
           /\ blocks'[b].layer = blocks[b].layer
           /\ blocks'[b].children = IF b \in ps THEN blocks[b].children \cup {n}
                                    ELSE blocks[b].children
  <2>1. n \in 0..n /\ \A b \in 0..(n - 1) : b \in 0..n /\ b \in DOMAIN blocks
    BY <1>5, SMT
  <2>. QED BY <1>1, <1>6, <2>1, ZenonT(40) DEF Linked
<1>8. ASSUME NEW b \in 0..n
      PROVE  /\ blocks'[b].parents \subseteq 0..(b - 1)
             /\ blocks'[b].layer \in 0..b
  <2>1. \A c \in 0..(n - 1) : /\ blocks[c].parents \subseteq 0..(c - 1)
                              /\ blocks[c].layer \in 0..c
    BY <1>5, SMT DEF LinkInv
  <2>2. maxLayer(ps) + 1 \in 0..n
    BY <1>4, <1>5, <2>1, SMT
  <2>3. CASE b = n
    BY <2>3, <1>5, <1>7, <2>2, SMT
  <2>4. CASE b \in 0..(n - 1)
    BY <2>4, <1>7, <2>1
  <2>. QED BY <2>3, <2>4, <1>5, SMT
<1>9. ASSUME NEW b \in 0..n
      PROVE  blocks'[b].children = {c \in 0..n : b \in blocks'[c].parents}
  <2>1. CASE b = n
    BY <2>1, <1>7, <1>8, <1>5, SMT
  <2>2. CASE b \in 0..(n - 1)
    <3>1. blocks[b].children = {c \in 0..(n - 1) : b \in blocks[c].parents}
      BY <2>2, <1>5, SMT DEF LinkInv, LinksConsistent
    <3>2. blocks'[b].children = IF b \in ps THEN blocks[b].children \cup {n}
                                ELSE blocks[b].children
      BY <2>2, <1>7, SMT
    <3>3. \A c \in 0..(n - 1) : blocks'[c].parents = blocks[c].parents
      BY <1>7
    <3>4. 0..n = 0..(n - 1) \cup {n}
      BY <1>5, SMT
    <3>5. blocks'[n].parents = ps
      BY <1>7, SMT
    <3>. QED BY <3>1, <3>2, <3>3, <3>4, <3>5, SMT
  <2>. QED BY <2>1, <2>2, <1>5, SMT
<1>10. ASSUME NEW b \in 0..n, b # GenesisId
       PROVE  /\ \E p \in blocks'[b].parents : blocks'[b].layer = blocks'[p].layer + 1
              /\ \A p \in blocks'[b].parents : blocks'[b].layer > blocks'[p].layer
  <2>1. CASE b = n
    <3>1. \A p \in ps : p \in 0..(n - 1) /\ blocks[p].layer \in Nat
      BY <1>5, SMT DEF LinkInv
    <3>2. \A p \in ps : blocks'[p].layer = blocks[p].layer
      BY <3>1, <1>7
    <3>. QED BY <2>1, <3>1, <3>2, <1>4, <1>7, SMT
  <2>2. CASE b \in 0..(n - 1)
    <3>1. /\ \E p \in blocks[b].parents : blocks[b].layer = blocks[p].layer + 1
          /\ \A p \in blocks[b].parents : blocks[b].layer > blocks[p].layer
      BY <1>10, <2>2, <1>5, SMTT(30) DEF LinkInv, LinksConsistent
    <3>2. blocks[b].parents \subseteq 0..(n - 1)
      <4>1. blocks[b].parents \subseteq 0..(b - 1)
        BY <2>2, <1>5, SMT DEF LinkInv
      <4>2. 0..(b - 1) \subseteq 0..(n - 1)
        BY <2>2, <1>5, SMT
      <4>. QED BY <4>1, <4>2, SMT
    <3>3. \A p \in blocks[b].parents : blocks'[p].layer = blocks[p].layer
      BY <3>2, <1>7
    <3>. QED BY <2>2, <3>1, <3>3, <1>7
  <2>. QED BY <2>1, <2>2, <1>5, SMT
<1>11. tips' = {b \in 0..n : blocks'[b].children = {}}
  <2>1. tips = {b \in 0..(n - 1) : blocks[b].children = {}}
    BY <1>5, SMT DEF LinkInv, LinksConsistent
  <2>2. \A b \in 0..(n - 1) : bs[b].children = blocks'[b].children
    BY <1>5, <1>6, SMT
  <2>3. \A b \in 0..(n - 1) :
          blocks'[b].children = {} <=> b \in tips /\ bs[b].children = {}
    BY <2>1, <2>2, <1>7
  <2>. QED BY <1>3, <2>1, <2>3, <1>5, <1>7, SMT
<1>12. LinksConsistent'
  <2>1. \A b \in 0..n : \A p \in blocks'[b].parents : p < b
    BY <1>8, <1>5, SMT
  <2>. QED BY <2>1, <1>6, <1>9, <1>10, <1>11, SMT DEF LinksConsistent
<1>. QED BY <1>5, <1>6, <1>8, <1>12, SMT DEF LinkInv

(* LinksConsistent holds in every state the code can reach from parents    *)
(* isDAG accepts, ancestors of one another or not, for every anticone      *)
(* size, layer gap and set of hashes (BlockDAG.AddBlock, updateTips).      *)
THEOREM LinksConsistentAnyParents == SpecAnyParents => []LinksConsistent
<1>1. LinkInv /\ [NextAnyParents]_vars => LinkInv'
  <2>. SUFFICES ASSUME LinkInv, [NextAnyParents]_vars PROVE LinkInv'
    OBVIOUS
  <2>1. CASE NextAnyParents
    <3>1. PICK ps \in (SUBSET DOMAIN blocks) \ {{}}, h \in Hashes : AddBlock(ps, h)
      BY <2>1, SMT DEF NextAnyParents
    <3>. QED BY <3>1, LinkInvAddBlock, SMT
  <2>2. CASE UNCHANGED vars
    BY <2>2, SMT DEF vars, LinkInv, LinksConsistent
  <2>. QED BY <2>1, <2>2, SMT
<1>2. LinkInv => LinksConsistent
  BY SMT DEF LinkInv
<1>. QED BY <1>1, <1>2, LinkInvInit, PTL DEF SpecAnyParents

(* The same for blocks whose parents are tips of some state. *)
THEOREM LinksAlwaysConsistent == Spec => []LinksConsistent
<1>1. Next => NextAnyParents
  BY SMT DEF Next, NextAnyParents
<1>2. Spec => SpecAnyParents
  BY <1>1, PTL DEF Spec, SpecAnyParents
<1>. QED BY <1>2, LinksConsistentAnyParents, PTL

-----------------------------------------------------------------------------
(* The walks of the code are recursive functions.  Such a definition says  *)
(* something only if a function with the stated values exists: it does     *)
(* when each value depends on values below it in a well-founded order.     *)

Founded(R, D) ==
  /\ \A S \in SUBSET D : S # {} => \E m \in S : \A d \in S : <<d, m>> \notin R
  /\ \A x, y, z \in D : <<x, y>> \in R /\ <<y, z>> \in R => <<x, z>> \in R

(* The components of a pair. *)
LEMMA PairParts ==
  ASSUME NEW A, NEW B, NEW x \in A \X B PROVE x[1] \in A /\ x[2] \in B /\ x = <<x[1], x[2]>>
BY SMT

(* G gives the value at x from the values below x, and values are in V. *)
Recursive(D, V, R, G) ==
  /\ Founded(R, D)
  /\ V # {}
  /\ G \in [D \X [D -> V] -> V]
  /\ \A x \in D : \A f, g \in [D -> V] :
       (\A d \in D : <<d, x>> \in R => f[d] = g[d]) => G[x, f] = G[x, g]

Solves(f, D, V, G) == f \in [D -> V] /\ \A x \in D : f[x] = G[x, f]

(* The recursion theorem. *)
LEMMA RecursionExists ==
  ASSUME NEW D, NEW V, NEW R, NEW G, Recursive(D, V, R, G)
  PROVE  \E f : Solves(f, D, V, G)
<1>. /\ Founded(R, D) /\ V # {} /\ G \in [D \X [D -> V] -> V]
     /\ \A x \in D : \A f, g \in [D -> V] :
          (\A d \in D : <<d, x>> \in R => f[d] = g[d]) => G[x, f] = G[x, g]
  BY DEF Recursive
<1>. PICK v \in V : TRUE
  OBVIOUS
<1>. DEFINE A(c) == {f \in [D -> V] : \A d \in D : <<d, c>> \in R \/ d = c => f[d] = G[d, f]}
            pick(c) == CHOOSE f \in A(c) : TRUE
            below(c) == [d \in D |-> IF <<d, c>> \in R THEN pick(d)[d] ELSE v]
            S == {c \in D : A(c) = {}}
<1>0. \A c \in D : <<c, c>> \notin R
  <2>. SUFFICES ASSUME NEW c \in D, <<c, c>> \in R PROVE FALSE
    OBVIOUS
  <2>1. {c} \in SUBSET D /\ {c} # {}
    OBVIOUS
  <2>2. PICK m \in {c} : \A d \in {c} : <<d, m>> \notin R
    BY <2>1 DEF Founded
  <2>. QED BY <2>2
<1>u. ASSUME NEW c \in D, NEW f \in [D -> V], NEW g \in [D -> V],
             \A d \in D : <<d, c>> \in R \/ d = c => f[d] = G[d, f] /\ g[d] = G[d, g]
      PROVE  f[c] = g[c]
  <2>. DEFINE T == {d \in D : (<<d, c>> \in R \/ d = c) /\ f[d] # g[d]}
  <2>1. SUFFICES ASSUME T # {} PROVE FALSE
    OBVIOUS
  <2>2. PICK m \in T : \A d \in T : <<d, m>> \notin R
    BY <2>1, ZenonT(60) DEF Founded
  <2>3. \A d \in D : <<d, m>> \in R => f[d] = g[d]
    BY <2>2 DEF Founded
  <2>4. G[m, f] = G[m, g]
    BY <2>2, <2>3
  <2>. QED BY <1>u, <2>2, <2>4
<1>1. ASSUME NEW c \in D, \A d \in D : <<d, c>> \in R => pick(d) \in A(d)
      PROVE  /\ below(c) \in [D -> V]
             /\ \A d \in D : <<d, c>> \in R => below(c)[d] = G[d, below(c)]
  <2>. DEFINE b == below(c)
  <2>1. b \in [D -> V]
    <3>. SUFFICES ASSUME NEW d \in D PROVE (IF <<d, c>> \in R THEN pick(d)[d] ELSE v) \in V
      OBVIOUS
    <3>1. <<d, c>> \in R => pick(d) \in [D -> V]
      BY <1>1
    <3>. HIDE DEF pick
    <3>. QED BY <3>1
  <2>2. ASSUME NEW d \in D, <<d, c>> \in R PROVE b[d] = G[d, b]
    <3>1. pick(d) \in A(d) /\ b[d] = pick(d)[d]
      BY <1>1, <2>2
    <3>2. ASSUME NEW e \in D, <<e, d>> \in R PROVE b[e] = pick(d)[e]
      <4>1. <<e, c>> \in R
        BY <2>2, <3>2 DEF Founded
      <4>2. pick(e) \in A(e) /\ b[e] = pick(e)[e]
        BY <1>1, <4>1
      <4>3. \A x \in D : <<x, e>> \in R \/ x = e => <<x, d>> \in R \/ x = d
        BY <3>2 DEF Founded
      <4>. HIDE DEF pick
      <4>4. \A x \in D : <<x, e>> \in R \/ x = e
              => pick(e)[x] = G[x, pick(e)] /\ pick(d)[x] = G[x, pick(d)]
        BY <3>1, <4>2, <4>3
      <4>5. pick(e)[e] = pick(d)[e]
        <5>1. pick(e) \in [D -> V] /\ pick(d) \in [D -> V]
          BY <3>1, <4>2
        <5>. QED BY <1>u, <4>4, <5>1
      <4>. QED BY <4>2, <4>5
    <3>. HIDE DEF pick
    <3>3. pick(d) \in [D -> V] /\ pick(d)[d] = G[d, pick(d)]
      BY <3>1
    <3>. HIDE DEF b
    <3>4. G[d, b] = G[d, pick(d)]
      BY <2>1, <3>2, <3>3
    <3>. QED BY <3>1, <3>3, <3>4
  <2>. QED BY <2>1, <2>2
<1>2. S = {}
  <2>1. SUFFICES ASSUME S # {} PROVE FALSE
    OBVIOUS
  <2>2. PICK c \in S : \A d \in S : <<d, c>> \notin R
    BY <2>1 DEF Founded
  <2>3. ASSUME NEW d \in D, <<d, c>> \in R PROVE pick(d) \in A(d)
    BY <2>2, <2>3
  <2>. DEFINE b == below(c)
              f == [d \in D |-> IF d = c THEN G[c, b] ELSE b[d]]
  <2>. HIDE DEF pick
  <2>4. b \in [D -> V] /\ \A d \in D : <<d, c>> \in R => b[d] = G[d, b]
    BY <1>1, <2>2, <2>3
  <2>. HIDE DEF b, below
  <2>5. c \in D /\ <<c, b>> \in D \X [D -> V]
    BY <2>2, <2>4
  <2>6. f \in [D -> V]
    <3>1. G[<<c, b>>] \in V
      BY <2>5
    <3>. QED BY <2>4, <3>1
  <2>7. \A d \in D : d # c => f[d] = b[d]
    OBVIOUS
  <2>8. f[c] = G[c, b]
    BY <2>5
  <2>. HIDE DEF f
  <2>9. ASSUME NEW d \in D, <<d, c>> \in R \/ d = c PROVE f[d] = G[d, f]
    <3>1. \A e \in D : <<e, d>> \in R => f[e] = b[e]
      BY <1>0, <2>5, <2>7, <2>9 DEF Founded
    <3>2. G[d, f] = G[d, b]
      BY <2>4, <2>6, <3>1, ZenonT(60)
    <3>. QED BY <1>0, <2>4, <2>5, <2>7, <2>8, <2>9, <3>2
  <2>10. f \in A(c)
    BY <2>6, <2>9
  <2>. QED BY <2>2, <2>10
<1>3. \A c \in D : pick(c) \in A(c)
  <2>1. \A c \in D : A(c) # {}
    BY <1>2, ZenonT(60)
  <2>. HIDE DEF A
  <2>. QED BY <2>1
<1>. DEFINE h == [c \in D |-> pick(c)[c]]
<1>4. h \in [D -> V]
  BY <1>3
<1>5. ASSUME NEW c \in D PROVE h[c] = G[c, h]
  <2>1. pick(c) \in A(c) /\ h[c] = pick(c)[c]
    BY <1>3
  <2>2. ASSUME NEW d \in D, <<d, c>> \in R PROVE h[d] = pick(c)[d]
    <3>1. pick(d) \in A(d) /\ h[d] = pick(d)[d]
      BY <1>3
    <3>2. \A x \in D : <<x, d>> \in R \/ x = d => <<x, c>> \in R \/ x = c
      BY <2>2 DEF Founded
    <3>. HIDE DEF pick
    <3>3. \A x \in D : <<x, d>> \in R \/ x = d
            => pick(d)[x] = G[x, pick(d)] /\ pick(c)[x] = G[x, pick(c)]
      BY <2>1, <3>1, <3>2
    <3>4. pick(d) \in [D -> V] /\ pick(c) \in [D -> V]
      BY <2>1, <3>1
    <3>5. pick(d)[d] = pick(c)[d]
      BY <1>u, <3>3, <3>4
    <3>. QED BY <3>1, <3>5
  <2>. HIDE DEF pick
  <2>3. pick(c) \in [D -> V] /\ pick(c)[c] = G[c, pick(c)]
    BY <2>1
  <2>. HIDE DEF h
  <2>4. G[c, h] = G[c, pick(c)]
    BY <1>4, <2>2, <2>3
  <2>. QED BY <2>1, <2>3, <2>4
<1>. QED BY <1>4, <1>5 DEF Solves

(* Elements are ordered by a measure. *)
Smaller(D, mu) == {x \in D \X D : mu[x[1]] < mu[x[2]]}

(* The order by a natural number is well founded. *)
LEMMA MeasureFounded ==
  ASSUME NEW D, NEW mu \in [D -> Nat] PROVE Founded(Smaller(D, mu), D)
<1>1. ASSUME NEW S \in SUBSET D, S # {}
      PROVE  \E m \in S : \A d \in S : <<d, m>> \notin Smaller(D, mu)
  <2>. DEFINE T == {mu[d] : d \in S}
  <2>1. T \in SUBSET Nat /\ T # {}
    BY <1>1
  <2>2. PICK k \in T : \A n \in T : k <= n
    BY <2>1, LeastNat
  <2>3. PICK m \in S : k = mu[m]
    BY <2>2
  <2>4. ASSUME NEW d \in S PROVE ~(mu[d] < mu[m])
    <3>1. mu[m] <= mu[d] /\ mu[d] \in Nat /\ mu[m] \in Nat
      BY <2>2, <2>3
    <3>. QED BY <3>1, SMT
  <2>. QED BY <2>4 DEF Smaller
<1>2. ASSUME NEW x \in D, NEW y \in D, NEW z \in D,
             <<x, y>> \in Smaller(D, mu), <<y, z>> \in Smaller(D, mu)
      PROVE  <<x, z>> \in Smaller(D, mu)
  <2>1. mu[x] < mu[y] /\ mu[y] < mu[z] /\ mu[x] \in Nat /\ mu[y] \in Nat /\ mu[z] \in Nat
    BY <1>2, SMT DEF Smaller
  <2>2. mu[x] < mu[z]
    BY <2>1, SMT
  <2>. QED BY <2>2, SMT DEF Smaller
<1>. QED BY <1>1, <1>2 DEF Founded

-----------------------------------------------------------------------------
(* Who is bluer is a strict total order of blocks whose hashes differ.     *)
Ranked(bs, D) ==
  \A b \in D :
    /\ bs[b].blueNum \in Nat /\ bs[b].hash \in Nat
    /\ \A c \in D : b # c => bs[b].hash # bs[c].hash

Bluest(bs, S, b) == b \in S /\ \A c \in S \ {b} : IsBluer(bs, b, c)

(* IsBluer is irreflexive, transitive, total and asymmetric. *)
LEMMA BluerOrder ==
  ASSUME NEW bs, NEW D, Ranked(bs, D), NEW x \in D, NEW y \in D, NEW z \in D
  PROVE  /\ ~IsBluer(bs, x, x)
         /\ IsBluer(bs, x, y) /\ IsBluer(bs, y, z) => IsBluer(bs, x, z)
         /\ x = y \/ IsBluer(bs, x, y) \/ IsBluer(bs, y, x)
         /\ IsBluer(bs, x, y) => ~IsBluer(bs, y, x)
<1>1. /\ bs[x].blueNum \in Nat /\ bs[y].blueNum \in Nat /\ bs[z].blueNum \in Nat
      /\ bs[x].hash \in Nat /\ bs[y].hash \in Nat /\ bs[z].hash \in Nat
      /\ x # y => bs[x].hash # bs[y].hash
  BY DEF Ranked
<1>. QED BY <1>1, SMT DEF IsBluer

(* Any blocks have a bluest one, which is the one getBluest finds. *)
LEMMA BluestExists ==
  ASSUME NEW bs, NEW n \in Nat, Ranked(bs, 0..n), NEW S \in SUBSET (0..n), S # {}
  PROVE  Bluest(bs, S, getBluest(bs, S))
<1>. DEFINE T == {m \in Nat : m <= n /\ \E U \in SUBSET (0..m) :
                                U # {} /\ \A b \in U : ~Bluest(bs, U, b)}
<1>1. T = {}
  <2>1. SUFFICES ASSUME T # {} PROVE FALSE
    OBVIOUS
  <2>2. PICK m \in T : \A k \in T : m <= k
    BY <2>1, LeastNat
  <2>3. m \in Nat /\ m <= n
    BY <2>2
  <2>4. PICK U \in SUBSET (0..m) : U # {} /\ \A b \in U : ~Bluest(bs, U, b)
    BY <2>2
  <2>. DEFINE W == U \ {m}
  <2>5. 0..m \subseteq 0..n /\ 0..m = 0..(m - 1) \cup {m}
    BY <2>3, SMT
  <2>6. W # {} /\ m \in 0..n
    <3>1. m \in 0..n
      BY <2>3, SMT
    <3>2. W = {} => U = {m}
      BY <2>4
    <3>3. U = {m} => Bluest(bs, U, m)
      BY DEF Bluest
    <3>. QED BY <2>4, <3>1, <3>2, <3>3
  <2>7. PICK b \in W : Bluest(bs, W, b)
    <3>1. W \in SUBSET (0..(m - 1))
      BY <2>5
    <3>2. m - 1 \in Nat
      <4>1. m = 0 => 0..(m - 1) = {}
        BY SMT
      <4>2. m # 0
        BY <2>6, <3>1, <4>1
      <4>. QED BY <2>3, <4>2, SMT
    <3>3. m - 1 \notin T
      <4>1. ~(m <= m - 1)
        BY <2>3, SMT
      <4>. QED BY <2>2, <4>1
    <3>. QED BY <2>3, <2>6, <3>1, <3>2, <3>3, SMT
  <2>8. m \in U /\ b \in 0..n /\ U \subseteq 0..n
    <3>1. m \notin U => W = U
      OBVIOUS
    <3>. QED BY <2>4, <2>5, <2>7, <3>1
  <2>9. CASE IsBluer(bs, b, m)
    <3>1. Bluest(bs, U, b)
      BY <2>7, <2>8, <2>9 DEF Bluest
    <3>. QED BY <2>4, <2>7, <3>1
  <2>10. CASE IsBluer(bs, m, b)
    <3>1. Bluest(bs, U, m)
      <4>1. ASSUME NEW c \in U \ {m} PROVE IsBluer(bs, m, c)
        <5>1. c = b \/ IsBluer(bs, b, c)
          BY <2>7 DEF Bluest
        <5>. QED BY <2>6, <2>8, <2>10, <5>1, BluerOrder
      <4>. QED BY <2>8, <4>1 DEF Bluest
    <3>. QED BY <2>4, <2>8, <3>1
  <2>. QED BY <2>6, <2>7, <2>8, <2>9, <2>10, BluerOrder
<1>2. \E b \in S : \A c \in S \ {b} : IsBluer(bs, b, c)
  <2>0. n <= n
    BY SMT
  <2>1. n \notin T
    BY <1>1
  <2>. QED BY <2>0, <2>1 DEF Bluest
<1>. QED BY <1>2 DEF getBluest, Bluest

-----------------------------------------------------------------------------
(* getDiffAnticone ends its walk and finds blocks of the DAG. *)
Walk(D) == [sub : SUBSET D, nodes : SUBSET D, expanded : SUBSET D]

ClosedUp(bs, D) == \A c \in D : bs[c].parents \subseteq D

(* widenSub stays inside a set of blocks closed under parents. *)
LEMMA WidenType ==
  ASSUME NEW bs, NEW D, ClosedUp(bs, D), NEW w \in Walk(D)
  PROVE  /\ widenSub(bs, w) \in Walk(D)
         /\ widenSub(bs, w).nodes = w.nodes /\ widenSub(bs, w).expanded = w.expanded
<1>1. ParentsOf(bs, w.sub) \subseteq D
  BY SMT DEF ParentsOf, ClosedUp, Walk
<1>2. widenSub(bs, w) = [w EXCEPT !.sub = @ \cup ParentsOf(bs, w.sub)]
  BY DEF widenSub
<1>. QED BY <1>1, <1>2, SMT DEF Walk

StartWalk(bs, b) ==
  [sub |-> {GenesisId, bs[b].mainParent}, nodes |-> bs[b].parents \ {bs[b].mainParent}, expanded |-> {}]

(* The first generations of the main parent's past: what the start has and *)
(* each widening keeps, the walk has before its first step.                *)
LEMMA FirstWalkIn ==
  ASSUME NEW bs, NEW D, ClosedUp(bs, D), NEW b \in D, NEW X, StartWalk(bs, b) \in X[0],
         \A i \in 0..(MaxTipLayerGap + 2) : X[i] \in SUBSET Walk(D),
         \A i \in 0..(MaxTipLayerGap + 2) : i # 0 => \A w \in X[i - 1] : widenSub(bs, w) \in X[i]
  PROVE  firstWalk(bs, b) \in X[MaxTipLayerGap + 2]
<1>. DEFINE k == MaxTipLayerGap + 2
            w0 == [sub |-> {GenesisId, bs[b].mainParent},
                   nodes |-> bs[b].parents \ {bs[b].mainParent}, expanded |-> {}]
            first[i \in 0..k] == IF i = 0 THEN w0 ELSE widenSub(bs, first[i - 1])
<1>a. firstWalk(bs, b) = first[k]
  BY DEF firstWalk
<1>b. k \in Nat
  BY RuleAssumption, SMT
<1>c. w0 \in X[0] /\ w0 \in Walk(D)
  <2>1. 0 \in 0..k
    BY <1>b, SMT
  <2>. QED BY <2>1 DEF StartWalk
<1>d. /\ \A i \in 0..k : X[i] \in SUBSET Walk(D)
      /\ \A i \in 0..k : i # 0 => \A w \in X[i - 1] : widenSub(bs, w) \in X[i]
  OBVIOUS
<1>. HIDE DEF k, w0
<1>. DEFINE I == 0..k
            V == Walk(D)
            mu == [i \in I |-> i]
            R == Smaller(I, mu)
            G == [x \in I \X [I -> V] |-> IF x[1] = 0 THEN w0 ELSE widenSub(bs, x[2][x[1] - 1])]
<1>1. \A i \in I : i # 0 => i - 1 \in I /\ i - 1 < i
  BY <1>b, SMT
<1>2. mu \in [I -> Nat]
  BY SMT
<1>3. Founded(R, I)
  BY <1>2, MeasureFounded
<1>4. \A i \in I : i # 0 => <<i - 1, i>> \in R
  BY <1>1 DEF Smaller
<1>5. ASSUME NEW x \in I, NEW f \in [I -> V], NEW g \in [I -> V]
      PROVE  /\ G[x, f] = IF x = 0 THEN w0 ELSE widenSub(bs, f[x - 1])
             /\ G[x, f] \in V
             /\ (\A d \in I : <<d, x>> \in R => f[d] = g[d]) => G[x, f] = G[x, g]
  <2>1. \A e \in [I -> V] : G[x, e] = IF x = 0 THEN w0 ELSE widenSub(bs, e[x - 1])
    OBVIOUS
  <2>. HIDE DEF R
  <2>2. x # 0 => x - 1 \in I /\ f[x - 1] \in V
    BY <1>1
  <2>3. x # 0 => widenSub(bs, f[x - 1]) \in V
    BY <2>2, WidenType
  <2>. QED BY <1>c, <1>1, <1>4, <2>1, <2>3
<1>6. G \in [I \X [I -> V] -> V]
  <2>1. \A x \in I \X [I -> V] : x[1] \in I /\ x[2] \in [I -> V] /\ x = <<x[1], x[2]>>
    <3>. HIDE DEF I, V
    <3>. QED BY PairParts
  <2>2. \A x \in I \X [I -> V] : G[x] \in V
    BY <1>5, <2>1
  <2>. QED BY <2>2
<1>. HIDE DEF G, R
<1>7. PICK f : Solves(f, I, V, G)
  <2>1. \A x \in I : \A e, g \in [I -> V] :
          (\A d \in I : <<d, x>> \in R => e[d] = g[d]) => G[x, e] = G[x, g]
    BY <1>5
  <2>2. Recursive(I, V, R, G)
    BY <1>c, <1>3, <1>6, <2>1 DEF Recursive
  <2>. HIDE DEF I, V
  <2>. QED BY <2>2, RecursionExists
<1>8. f = [i \in 0..k |-> IF i = 0 THEN w0 ELSE widenSub(bs, f[i - 1])]
  BY <1>5, <1>7 DEF Solves
<1>9. first = [i \in 0..k |-> IF i = 0 THEN w0 ELSE widenSub(bs, first[i - 1])]
  BY <1>8
<1>. HIDE DEF first
<1>. DEFINE T == {i \in I : first[i] \notin X[i]}
<1>10. T = {}
  <2>1. SUFFICES ASSUME T # {} PROVE FALSE
    OBVIOUS
  <2>2. PICK m \in T : \A d \in T : <<d, m>> \notin R
    BY <1>3, <2>1 DEF Founded
  <2>3. m # 0 => first[m - 1] \in X[m - 1]
    BY <1>1, <1>4, <2>2
  <2>4. m \in 0..k /\ first[m] \notin X[m]
    BY <2>2
  <2>5. m # 0 => widenSub(bs, first[m - 1]) \in X[m]
    BY <1>d, <2>3, <2>4
  <2>. QED BY <1>c, <1>9, <2>4, <2>5
<1>11. k \in I
  BY <1>b, SMT
<1>12. firstWalk(bs, b) \in X[k]
  BY <1>a, <1>10, <1>11
<1>. QED BY <1>12 DEF k

(* It is a walk of blocks of the DAG. *)
LEMMA FirstWalkType ==
  ASSUME NEW bs, NEW D, ClosedUp(bs, D), NEW b \in D, GenesisId \in D, bs[b].mainParent \in D
  PROVE  firstWalk(bs, b) \in Walk(D)
<1>. DEFINE k == MaxTipLayerGap + 2
            X == [i \in 0..k |-> Walk(D)]
<1>1. 0 \in 0..k /\ k \in 0..k /\ \A i \in 0..k : i # 0 => i - 1 \in 0..k
  BY RuleAssumption, SMT
<1>2. StartWalk(bs, b) \in Walk(D)
  <2>1. bs[b].parents \subseteq D
    BY DEF ClosedUp
  <2>. QED BY <2>1, SMT DEF Walk, StartWalk
<1>3. /\ StartWalk(bs, b) \in X[0] /\ X[k] = Walk(D)
      /\ \A i \in 0..k : X[i] \in SUBSET Walk(D)
      /\ \A i \in 0..k : i # 0 => \A w \in X[i - 1] : widenSub(bs, w) \in X[i]
  BY <1>1, <1>2, WidenType
<1>. HIDE DEF X
<1>4. firstWalk(bs, b) \in X[k]
  BY <1>3, FirstWalkIn
<1>. QED BY <1>3, <1>4

(* A step of the walk. *)
Descended(bs, w) ==
  LET wide == widenSub(bs, w)
      now  == getTreeTips(bs, wide)
  IN  [wide EXCEPT !.nodes = @ \cup ParentsOf(bs, now), !.expanded = @ \cup now]

(* Each step of the walk expands a node, or is the last one: the walk ends *)
(* in a tree without tips that has what every step keeps.                  *)
LEMMA LastWalkIn ==
  ASSUME NEW bs, IsFiniteSet(DOMAIN bs), ClosedUp(bs, DOMAIN bs), NEW X \in SUBSET Walk(DOMAIN bs),
         \A w \in X : getTreeTips(bs, w) # {} => Descended(bs, w) \in X, NEW w0 \in X
  PROVE  lastWalk(bs, w0) \in X /\ getTreeTips(bs, lastWalk(bs, w0)) = {}
<1>. DEFINE D == DOMAIN bs
<1>. DEFINE V == Walk(D)
            Rest(w) == Cardinality(D \ w.expanded)
            Last(w) == getTreeTips(bs, w) = {}
            mu == [w \in V |-> Rest(w) + Rest(w) + IF Last(w) THEN 0 ELSE 1]
            R == Smaller(V, mu)
            wide(w) == widenSub(bs, w)
            now(w) == getTreeTips(bs, wide(w))
            next(w) == [wide(w) EXCEPT !.nodes = @ \cup ParentsOf(bs, now(w)),
                                       !.expanded = @ \cup now(w)]
            G == [x \in V \X [V -> V] |-> IF Last(x[1]) THEN x[1] ELSE x[2][next(x[1])]]
<1>1. \A w \in V : Rest(w) \in Nat
  BY FS_Difference, FS_CardinalityType
<1>2. mu \in [V -> Nat]
  <2>. HIDE DEF Last, Rest, V
  <2>. QED BY <1>1, SMT
<1>3. Founded(R, V)
  BY <1>2, MeasureFounded
<1>4. ASSUME NEW w \in V PROVE next(w) \in V /\ (~Last(w) => <<next(w), w>> \in R)
  <2>1. wide(w) \in V /\ wide(w).nodes = w.nodes /\ wide(w).expanded = w.expanded
    BY WidenType
  <2>2. now(w) \subseteq w.nodes \ w.expanded /\ now(w) \subseteq D
    <3>1. now(w) \subseteq w.nodes \ w.expanded
      BY <2>1 DEF getTreeTips
    <3>2. w.nodes \subseteq D
      BY SMT DEF Walk
    <3>. QED BY <3>1, <3>2
  <2>3. ParentsOf(bs, now(w)) \subseteq D
    BY <2>2 DEF ParentsOf, ClosedUp
  <2>4. /\ next(w) \in V /\ next(w).expanded = w.expanded \cup now(w)
        /\ next(w).nodes = w.nodes \cup ParentsOf(bs, now(w)) /\ next(w).sub = wide(w).sub
    <3>. HIDE DEF wide, now
    <3>. QED BY <2>1, <2>2, <2>3 DEF Walk
  <2>5. ASSUME now(w) = {} PROVE Last(next(w)) /\ Rest(next(w)) = Rest(w)
    <3>1. ParentsOf(bs, now(w)) = {}
      BY <2>5 DEF ParentsOf
    <3>2. next(w) = wide(w)
      <4>. HIDE DEF wide, now
      <4>. QED BY <2>1, <2>5, <3>1 DEF Walk
    <3>. QED BY <2>1, <2>5, <3>2
  <2>6. ASSUME now(w) # {} PROVE Rest(next(w)) < Rest(w)
    <3>. DEFINE A == D \ w.expanded
                B == D \ next(w).expanded
    <3>1. B \in SUBSET A /\ A # B /\ IsFiniteSet(A)
      <4>. HIDE DEF next, now
      <4>1. IsFiniteSet(A)
        BY FS_Difference
      <4>. QED BY <2>2, <2>4, <2>6, <4>1
    <3>. HIDE DEF A, B
    <3>2. Cardinality(B) <= Cardinality(A) /\ Cardinality(A) # Cardinality(B)
      BY <3>1, FS_Subset
    <3>3. Cardinality(B) \in Nat /\ Cardinality(A) \in Nat
      BY <3>1, FS_Subset, FS_CardinalityType
    <3>4. Cardinality(B) < Cardinality(A)
      BY <3>2, <3>3, SMT
    <3>. QED BY <3>4 DEF A, B
  <2>7. ASSUME ~Last(w) PROVE mu[next(w)] < mu[w]
    <3>1. /\ mu[w] = Rest(w) + Rest(w) + 1
          /\ mu[next(w)] = Rest(next(w)) + Rest(next(w)) + IF Last(next(w)) THEN 0 ELSE 1
      BY <2>4, <2>7
    <3>2. Rest(w) \in Nat /\ Rest(next(w)) \in Nat
      BY <1>1, <2>4
    <3>. HIDE DEF next, Rest, Last, now, mu
    <3>. QED BY <2>5, <2>6, <3>1, <3>2, SMT
  <2>. HIDE DEF next, mu
  <2>. QED BY <2>4, <2>7 DEF Smaller
<1>a. X \in SUBSET V /\ \A w \in X : ~Last(w) => next(w) \in X
  BY DEF Descended
<1>. HIDE DEF R, Last, next, V
<1>5. ASSUME NEW x \in V, NEW f \in [V -> V], NEW g \in [V -> V]
      PROVE  /\ G[x, f] = IF Last(x) THEN x ELSE f[next(x)]
             /\ G[x, f] \in V
             /\ (\A d \in V : <<d, x>> \in R => f[d] = g[d]) => G[x, f] = G[x, g]
  <2>1. \A e \in [V -> V] : G[x, e] = IF Last(x) THEN x ELSE e[next(x)]
    OBVIOUS
  <2>. QED BY <1>4, <2>1
<1>6. G \in [V \X [V -> V] -> V]
  <2>1. \A x \in V \X [V -> V] : x[1] \in V /\ x[2] \in [V -> V] /\ x = <<x[1], x[2]>>
    BY PairParts
  <2>2. \A x \in V \X [V -> V] : G[x] \in V
    BY <1>5, <2>1
  <2>. QED BY <2>2
<1>7. V # {}
  <2>1. [sub |-> {}, nodes |-> {}, expanded |-> {}] \in V
    BY SMT DEF V, Walk
  <2>. QED BY <2>1
<1>. HIDE DEF G
<1>8. PICK f : Solves(f, V, V, G)
  <2>1. \A x \in V : \A e, g \in [V -> V] :
          (\A d \in V : <<d, x>> \in R => e[d] = g[d]) => G[x, e] = G[x, g]
    BY <1>5
  <2>2. Recursive(V, V, R, G)
    BY <1>3, <1>6, <1>7, <2>1 DEF Recursive
  <2>. HIDE DEF V
  <2>. QED BY <2>2, RecursionExists
<1>. DEFINE descend[w \in V] == IF Last(w) THEN w ELSE descend[next(w)]
<1>9. f = [w \in V |-> IF Last(w) THEN w ELSE f[next(w)]]
  BY <1>5, <1>8 DEF Solves
<1>10. lastWalk(bs, w0) = descend[w0]
  BY DEF lastWalk, V, Walk, Last, next
<1>11. descend = [w \in V |-> IF Last(w) THEN w ELSE descend[next(w)]]
  BY <1>9
<1>. HIDE DEF descend
<1>. DEFINE T == {w \in X : ~(descend[w] \in X /\ Last(descend[w]))}
<1>12. T = {}
  <2>1. SUFFICES ASSUME T # {} PROVE FALSE
    OBVIOUS
  <2>2. PICK m \in T : \A d \in T : <<d, m>> \notin R
    <3>1. T \in SUBSET V
      BY <1>a
    <3>. HIDE DEF T
    <3>. QED BY <1>3, <2>1, <3>1 DEF Founded
  <2>3. m \in X /\ m \in V
    BY <1>a, <2>2
  <2>4. CASE Last(m)
    <3>1. descend[m] = m
      BY <1>11, <2>3, <2>4
    <3>. QED BY <2>2, <2>4, <3>1
  <2>5. CASE ~Last(m)
    <3>1. next(m) \in X /\ next(m) \notin T
      BY <1>4, <1>a, <2>2, <2>3, <2>5
    <3>2. descend[m] = descend[next(m)]
      BY <1>11, <2>3, <2>5
    <3>. QED BY <2>2, <3>1, <3>2
  <2>. QED BY <2>4, <2>5
<1>. QED BY <1>10, <1>12 DEF Last

(* A step of the walk stays inside the DAG. *)
LEMMA DescendType ==
  ASSUME NEW bs, NEW D, ClosedUp(bs, D), NEW w \in Walk(D)
  PROVE  Descended(bs, w) \in Walk(D)
<1>. DEFINE wide == widenSub(bs, w)
            now  == getTreeTips(bs, wide)
<1>1. wide \in Walk(D) /\ wide.nodes = w.nodes
  BY WidenType
<1>2. now \subseteq w.nodes /\ w.nodes \subseteq D
  <2>1. now \subseteq w.nodes
    BY <1>1 DEF getTreeTips
  <2>. QED BY <2>1, SMT DEF Walk
<1>3. ParentsOf(bs, now) \subseteq D
  BY <1>2 DEF ParentsOf, ClosedUp
<1>4. Descended(bs, w) = [wide EXCEPT !.nodes = @ \cup ParentsOf(bs, now), !.expanded = @ \cup now]
  BY DEF Descended
<1>. HIDE DEF wide, now
<1>. QED BY <1>1, <1>2, <1>3, <1>4 DEF Walk

(* The whole walk does. *)
LEMMA LastWalkType ==
  ASSUME NEW bs, IsFiniteSet(DOMAIN bs), ClosedUp(bs, DOMAIN bs), NEW w0 \in Walk(DOMAIN bs)
  PROVE  lastWalk(bs, w0) \in Walk(DOMAIN bs)
<1>. DEFINE X == Walk(DOMAIN bs)
<1>1. X \in SUBSET Walk(DOMAIN bs) /\ w0 \in X /\ \A w \in X : Descended(bs, w) \in X
  BY DescendType
<1>. HIDE DEF X
<1>2. lastWalk(bs, w0) \in X
  BY <1>1, LastWalkIn
<1>. QED BY <1>2 DEF X

(* getDiffAnticone finds blocks of the DAG. *)
LEMMA DiffAnticoneType ==
  ASSUME NEW bs, IsFiniteSet(DOMAIN bs), ClosedUp(bs, DOMAIN bs), GenesisId \in DOMAIN bs,
         NEW b \in DOMAIN bs, bs[b].mainParent \in DOMAIN bs
  PROVE  getDiffAnticone(bs, b) \subseteq DOMAIN bs
<1>. DEFINE last == lastWalk(bs, firstWalk(bs, b))
<1>1. last \in Walk(DOMAIN bs)
  BY FirstWalkType, LastWalkType
<1>2. last.nodes \subseteq DOMAIN bs
  <2>. HIDE DEF last
  <2>. QED BY <1>1, SMT DEF Walk
<1>3. bs[b].parents \subseteq DOMAIN bs
  BY DEF ClosedUp
<1>. QED BY <1>2, <1>3 DEF getDiffAnticone

-----------------------------------------------------------------------------
(* The chain of main parents, and heights along it. *)
Chained(bs, n) ==
  /\ n \in Nat /\ DOMAIN bs = 0..n
  /\ \A c \in 0..n : bs[c].height \in Nat
  /\ bs[GenesisId].mainParent = MaxId /\ bs[GenesisId].height = 0
  /\ \A c \in (0..n) \ {GenesisId} :
       bs[c].mainParent \in 0..(c - 1) /\ bs[c].height = bs[bs[c].mainParent].height + 1

(* Blocks are ordered by their ids. *)
Older(n) == Smaller(0..n, [c \in 0..n |-> c])

(* Going to older blocks ends. *)
LEMMA OlderFounded ==
  ASSUME NEW n \in Nat
  PROVE  /\ Founded(Older(n), 0..n)
         /\ \A b, c \in 0..n : <<b, c>> \in Older(n) <=> b < c
<1>. DEFINE mu == [c \in 0..n |-> c]
<1>1. mu \in [0..n -> Nat]
  BY SMT
<1>2. Founded(Older(n), 0..n)
  BY <1>1, MeasureFounded DEF Older
<1>. QED BY <1>2 DEF Older, Smaller

(* The main parent is an older block of the DAG. *)
LEMMA MainParentOlder ==
  ASSUME NEW bs, NEW n, Chained(bs, n), NEW c \in 0..n, c # GenesisId
  PROVE  /\ bs[c].mainParent \in 0..n /\ bs[c].mainParent # MaxId
         /\ <<bs[c].mainParent, c>> \in Older(n)
<1>1. n \in Nat /\ bs[c].mainParent \in 0..(c - 1)
  BY DEF Chained
<1>2. bs[c].mainParent \in 0..n /\ bs[c].mainParent \in Nat /\ bs[c].mainParent < c
  BY <1>1, SMT
<1>. QED BY <1>1, <1>2, OlderFounded, RuleAssumption

(* s goes up from a main parent in M to b. *)
PathUp(bs, M, s, b) ==
  /\ s \in Seq(DOMAIN bs) /\ s # <<>> /\ s[Len(s)] = b
  /\ bs[s[1]].mainParent \in M
  /\ \A i \in 1..Len(s) :
       /\ s[i] \in DOMAIN bs \ M
       /\ bs[s[i]].height = bs[bs[s[1]].mainParent].height + i
       /\ i # 1 => bs[s[i]].mainParent = s[i - 1]

(* A block on top of M is a path of its own. *)
LEMMA PathUpOne ==
  ASSUME NEW bs, NEW n, Chained(bs, n), NEW M, GenesisId \in M, NEW b \in (0..n) \ M,
         bs[b].mainParent \in M
  PROVE  PathUp(bs, M, <<b>>, b)
<1>1. b # GenesisId /\ b \in DOMAIN bs
  BY DEF Chained
<1>2. bs[b].height = bs[bs[b].mainParent].height + 1
  BY <1>1 DEF Chained
<1>. QED BY <1>1, <1>2, SMT DEF PathUp

(* A path can be prolonged by a block whose main parent it ends in. *)
LEMMA PathUpMore ==
  ASSUME NEW bs, NEW n, Chained(bs, n), NEW M, GenesisId \in M, NEW b \in (0..n) \ M,
         NEW s, PathUp(bs, M, s, bs[b].mainParent)
  PROVE  PathUp(bs, M, Append(s, b), b)
<1>. DEFINE t == Append(s, b)
            m == bs[b].mainParent
            H == bs[bs[s[1]].mainParent].height
<1>1. b \in DOMAIN bs /\ s \in Seq(DOMAIN bs) /\ s # <<>> /\ s[Len(s)] = m /\ b # GenesisId
  BY DEF Chained, PathUp
<1>2. /\ t \in Seq(DOMAIN bs) /\ Len(t) = Len(s) + 1 /\ t[Len(s) + 1] = b /\ Len(s) \in Nat \ {0}
      /\ \A i \in 1..Len(s) : t[i] = s[i]
  BY <1>1, SMT
<1>3. bs[b].height = bs[m].height + 1 /\ bs[m].height = H + Len(s)
  <2>1. Len(s) \in 1..Len(s)
    BY <1>2, SMT
  <2>2. bs[s[Len(s)]].height = H + Len(s)
    BY <2>1 DEF PathUp
  <2>. QED BY <1>1, <2>2 DEF Chained
<1>4. H \in Nat
  <2>1. bs[s[1]].mainParent \in 0..n
    <3>1. 1 \in 1..Len(s)
      BY <1>2, SMT
    <3>2. s[1] \in 0..n /\ s[1] # GenesisId
      BY <3>1, ZenonT(60) DEF PathUp, Chained
    <3>. QED BY <3>2, MainParentOlder
  <2>. QED BY <2>1 DEF Chained
<1>5. t # <<>> /\ t[Len(t)] = b /\ t[1] = s[1] /\ bs[t[1]].mainParent \in M
  <2>1. t # <<>> /\ 1 \in 1..Len(s)
    BY <1>2, SMT
  <2>. HIDE DEF t
  <2>2. bs[s[1]].mainParent \in M
    BY DEF PathUp
  <2>. QED BY <1>2, <2>1, <2>2
<1>. HIDE DEF t, H, m
<1>6. ASSUME NEW i \in 1..Len(t)
      PROVE  t[i] \in DOMAIN bs \ M /\ bs[t[i]].height = H + i /\ (i # 1 => bs[t[i]].mainParent = t[i - 1])
  <2>1. CASE i \in 1..Len(s)
    <3>1. i # 1 => i - 1 \in 1..Len(s)
      BY <1>2, <2>1, SMT
    <3>. QED BY <1>2, <2>1, <3>1 DEF PathUp, H
  <2>2. CASE i = Len(s) + 1
    <3>1. bs[t[i]].height = H + i
      BY <1>2, <1>3, <1>4, <2>2, SMT
    <3>2. t[i - 1] = m
      <4>1. i - 1 = Len(s) /\ Len(s) \in 1..Len(s)
        BY <1>2, <2>2, SMT
      <4>. QED BY <1>1, <1>2, <4>1
    <3>. QED BY <1>1, <1>2, <2>2, <3>1, <3>2 DEF m
  <2>. QED BY <1>2, <2>1, <2>2, SMT
<1>. QED BY <1>2, <1>5, <1>6 DEF PathUp, H, t

(* getIntersectionPathWithMainChain follows the main parents to the main   *)
(* chain.                                                                  *)
LEMMA MainPathFacts ==
  ASSUME NEW bs, NEW n, Chained(bs, n), GenesisId \in mainChain, NEW b \in (0..n) \ mainChain
  PROVE  PathUp(bs, mainChain, mainPath(bs, b), b)
<1>. DEFINE D == 0..n
            V == Seq(D)
            R == Older(n)
            mp(c) == bs[c].mainParent
            val(c, e) == IF c \in mainChain THEN <<>>
                         ELSE Append(IF mp(c) = MaxId THEN <<>> ELSE e[mp(c)], c)
            G == [x \in D \X [D -> V] |-> val(x[1], x[2])]
            path[c \in D] == IF c \in mainChain THEN <<>>
                             ELSE Append(IF mp(c) = MaxId THEN <<>> ELSE path[mp(c)], c)
<1>1. mainPath(bs, b) = path[b] /\ n \in Nat /\ DOMAIN bs = D
  BY DEF mainPath, Chained
<1>2. Founded(R, D)
  BY <1>1, OlderFounded
<1>3. \A c \in D : c \in mainChain \/ (mp(c) \in D /\ mp(c) # MaxId /\ <<mp(c), c>> \in R)
  BY MainParentOlder
<1>. HIDE DEF R, mp, V
<1>4. ASSUME NEW x \in D, NEW e \in [D -> V], NEW g \in [D -> V]
      PROVE  /\ G[x, e] = val(x, e) /\ val(x, e) \in V
             /\ (\A d \in D : <<d, x>> \in R => e[d] = g[d]) => val(x, e) = val(x, g)
  <2>1. G[x, e] = val(x, e)
    OBVIOUS
  <2>2. ASSUME x \notin mainChain PROVE e[mp(x)] \in Seq(D) /\ val(x, e) = Append(e[mp(x)], x)
    BY <1>3, <2>2 DEF V
  <2>3. val(x, e) \in V
    <3>1. \A s \in Seq(D) : Append(s, x) \in Seq(D)
      BY SMT
    <3>2. <<>> \in Seq(D)
      BY SMT
    <3>. QED BY <2>2, <3>1, <3>2 DEF V
  <2>. QED BY <1>3, <2>1, <2>3
<1>5. G \in [D \X [D -> V] -> V]
  <2>1. \A x \in D \X [D -> V] : x[1] \in D /\ x[2] \in [D -> V] /\ x = <<x[1], x[2]>>
    BY PairParts
  <2>. HIDE DEF val
  <2>2. \A x \in D \X [D -> V] : G[x] \in V
    BY <1>4, <2>1
  <2>. QED BY <2>2
<1>6. PICK f : Solves(f, D, V, G)
  <2>. HIDE DEF G, val
  <2>0. \A x \in D : \A e \in [D -> V] : G[x, e] = val(x, e)
    BY <1>4
  <2>1. \A x \in D : \A e, g \in [D -> V] :
          (\A d \in D : <<d, x>> \in R => e[d] = g[d]) => G[x, e] = G[x, g]
    <3>. SUFFICES ASSUME NEW x \in D, NEW e \in [D -> V], NEW g \in [D -> V],
                         \A d \in D : <<d, x>> \in R => e[d] = g[d]
                  PROVE  G[x, e] = G[x, g]
      OBVIOUS
    <3>1. val(x, e) = val(x, g)
      BY <1>4
    <3>. QED BY <2>0, <3>1
  <2>2. V # {}
    <3>1. <<>> \in Seq(D)
      BY SMT
    <3>. QED BY <3>1 DEF V
  <2>3. Recursive(D, V, R, G)
    BY <1>2, <1>5, <2>1, <2>2 DEF Recursive
  <2>. HIDE DEF D, V
  <2>. QED BY <2>3, RecursionExists
<1>7. f = [c \in D |-> val(c, f)]
  <2>. HIDE DEF val, G
  <2>. QED BY <1>4, <1>6 DEF Solves
<1>8. path = [c \in D |-> val(c, path)]
  BY <1>7
<1>. HIDE DEF path
<1>. DEFINE T == {c \in D \ mainChain : ~PathUp(bs, mainChain, path[c], c)}
<1>9. T = {}
  <2>1. SUFFICES ASSUME T # {} PROVE FALSE
    OBVIOUS
  <2>2. PICK c \in T : \A d \in T : <<d, c>> \notin R
    BY <1>2, <2>1, ZenonT(60) DEF Founded
  <2>3. c \in D \ mainChain /\ mp(c) \in D /\ ~PathUp(bs, mainChain, path[c], c)
    BY <1>3, <2>2
  <2>4. path[c] = Append(path[mp(c)], c)
    BY <1>3, <1>8, <2>3
  <2>5. CASE mp(c) \in mainChain
    <3>1. path[mp(c)] = <<>>
      BY <1>8, <2>3, <2>5
    <3>2. path[c] = <<c>>
      BY <2>4, <3>1, SMT
    <3>. QED BY <2>3, <2>5, <3>2, PathUpOne DEF mp
  <2>6. CASE mp(c) \notin mainChain
    <3>1. PathUp(bs, mainChain, path[mp(c)], mp(c))
      BY <1>3, <2>2, <2>3, <2>6
    <3>2. PathUp(bs, mainChain, Append(path[mp(c)], c), c)
      BY <2>3, <3>1, PathUpMore DEF mp
    <3>. QED BY <2>3, <2>4, <3>2
  <2>. QED BY <2>5, <2>6
<1>. QED BY <1>1, <1>9

(* M is the chain of main parents of its highest block t. *)
ChainOf(bs, M, t) ==
  /\ M \subseteq DOMAIN bs /\ t \in M /\ GenesisId \in M
  /\ \A b \in M \ {GenesisId} : bs[b].mainParent \in M
  /\ \A b, c \in M : b # c => bs[b].height # bs[c].height
  /\ \A b \in M : bs[b].height <= bs[t].height

(* rollBackMainChain takes off what is higher than the intersection. *)
LEMMA RollBackFacts ==
  ASSUME NEW bs, NEW n, Chained(bs, n), ChainOf(bs, mainChain, mainTip), NEW m \in mainChain
  PROVE  rollBackMainChain(bs, m) = {c \in mainChain : bs[c].height <= bs[m].height}
<1>. DEFINE D == 0..n
            V == SUBSET D
            R == Older(n)
            mp(c) == bs[c].mainParent
            H(c) == bs[c].height
            val(c, e) == IF c = m THEN {}
                         ELSE {c} \cup (IF mp(c) = MaxId THEN {} ELSE e[mp(c)])
            G == [x \in D \X [D -> V] |-> val(x[1], x[2])]
            above[c \in D] == IF c = m THEN {}
                              ELSE {c} \cup (IF mp(c) = MaxId THEN {} ELSE above[mp(c)])
<1>1. rollBackMainChain(bs, m) = mainChain \ above[mainTip] /\ n \in Nat /\ DOMAIN bs = D
  BY DEF rollBackMainChain, Chained
<1>2. Founded(R, D)
  BY <1>1, OlderFounded
<1>3. \A c \in D : mp(c) = MaxId \/ (mp(c) \in D /\ <<mp(c), c>> \in R)
  BY MainParentOlder DEF Chained
<1>. HIDE DEF R, mp
<1>4. ASSUME NEW x \in D, NEW e \in [D -> V], NEW g \in [D -> V]
      PROVE  /\ G[x, e] = val(x, e) /\ val(x, e) \in V
             /\ (\A d \in D : <<d, x>> \in R => e[d] = g[d]) => val(x, e) = val(x, g)
  <2>1. G[x, e] = val(x, e)
    OBVIOUS
  <2>. QED BY <1>3, <2>1
<1>5. G \in [D \X [D -> V] -> V]
  <2>1. \A x \in D \X [D -> V] : x[1] \in D /\ x[2] \in [D -> V] /\ x = <<x[1], x[2]>>
    <3>. HIDE DEF D, V
    <3>. QED BY PairParts
  <2>. HIDE DEF val
  <2>2. \A x \in D \X [D -> V] : G[x] \in V
    BY <1>4, <2>1
  <2>. QED BY <2>2
<1>6. PICK f : Solves(f, D, V, G)
  <2>. HIDE DEF G, val
  <2>0. \A x \in D : \A e \in [D -> V] : G[x, e] = val(x, e)
    BY <1>4
  <2>1. \A x \in D : \A e, g \in [D -> V] :
          (\A d \in D : <<d, x>> \in R => e[d] = g[d]) => G[x, e] = G[x, g]
    <3>. SUFFICES ASSUME NEW x \in D, NEW e \in [D -> V], NEW g \in [D -> V],
                         \A d \in D : <<d, x>> \in R => e[d] = g[d]
                  PROVE  G[x, e] = G[x, g]
      OBVIOUS
    <3>1. val(x, e) = val(x, g)
      BY <1>4
    <3>. QED BY <2>0, <3>1
  <2>2. Recursive(D, V, R, G)
    BY <1>2, <1>5, <2>1 DEF Recursive
  <2>. HIDE DEF D, V
  <2>. QED BY <2>2, RecursionExists
<1>7. f = [c \in D |-> val(c, f)]
  <2>. HIDE DEF val, G
  <2>. QED BY <1>4, <1>6 DEF Solves
<1>8. above = [c \in D |-> val(c, above)]
  BY <1>7
<1>. HIDE DEF above
<1>9. /\ mainChain \subseteq D /\ mainTip \in mainChain
      /\ \A c \in mainChain : H(c) \in Nat /\ H(c) <= H(mainTip)
      /\ \A c, d \in mainChain : c # d => H(c) # H(d)
  BY <1>1 DEF ChainOf, Chained
<1>10. \A c \in mainChain : H(m) <= H(c) /\ c # m =>
         c # GenesisId /\ mp(c) \in mainChain /\ mp(c) # MaxId /\ H(c) = H(mp(c)) + 1 /\ H(m) <= H(mp(c))
  <2>. SUFFICES ASSUME NEW c \in mainChain, H(m) <= H(c), c # m
                PROVE  c # GenesisId /\ mp(c) \in mainChain /\ mp(c) # MaxId
                       /\ H(c) = H(mp(c)) + 1 /\ H(m) <= H(mp(c))
    OBVIOUS
  <2>1. H(m) < H(c) /\ H(m) \in Nat
    BY <1>9, SMT
  <2>2. c # GenesisId
    <3>1. CASE c = GenesisId
      <4>1. m # GenesisId
        BY <3>1
      <4>2. m \in D /\ H(m) = H(mp(m)) + 1 /\ mp(m) \in D
        BY <1>1, <1>9, <4>1, MainParentOlder DEF Chained, mp
      <4>3. H(mp(m)) \in Nat /\ H(c) = 0
        BY <3>1, <4>2 DEF Chained
      <4>. HIDE DEF H
      <4>. QED BY <2>1, <4>2, <4>3, SMT
    <3>. QED BY <3>1
  <2>3. mp(c) \in mainChain /\ H(c) = H(mp(c)) + 1 /\ mp(c) # MaxId
    BY <1>9, <2>2, MainParentOlder DEF ChainOf, Chained, mp
  <2>4. H(mp(c)) \in Nat
    BY <1>9, <2>3
  <2>. HIDE DEF H
  <2>. QED BY <2>1, <2>2, <2>3, <2>4, SMT
<1>. DEFINE Between(c) == {d \in mainChain : H(m) < H(d) /\ H(d) <= H(c)}
            T == {c \in mainChain : H(m) <= H(c) /\ above[c] # Between(c)}
<1>11. T = {}
  <2>1. SUFFICES ASSUME T # {} PROVE FALSE
    OBVIOUS
  <2>2. PICK c \in T : \A d \in T : <<d, c>> \notin R
    <3>1. T \in SUBSET D
      BY <1>9
    <3>. HIDE DEF T, D
    <3>. QED BY <1>2, <2>1, <3>1 DEF Founded
  <2>3. c \in mainChain /\ c \in D /\ H(m) <= H(c) /\ above[c] # Between(c)
    BY <1>9, <2>2
  <2>4. CASE c = m
    <3>1. Between(c) = {}
      <4>. SUFFICES ASSUME NEW d \in mainChain, H(m) < H(d), H(d) <= H(m) PROVE FALSE
        BY <2>4
      <4>1. H(m) \in Nat /\ H(d) \in Nat
        BY <1>9
      <4>. QED BY <4>1, SMT
    <3>2. above[c] = {}
      BY <1>8, <2>3, <2>4
    <3>. QED BY <2>3, <3>1, <3>2
  <2>5. CASE c # m
    <3>1. /\ mp(c) \in mainChain /\ mp(c) # MaxId
          /\ H(c) = H(mp(c)) + 1 /\ H(m) <= H(mp(c))
      BY <1>10, <2>3, <2>5
    <3>2. <<mp(c), c>> \in R
      BY <1>3, <2>3, <3>1
    <3>3. above[mp(c)] = Between(mp(c))
      BY <2>2, <3>1, <3>2
    <3>4. above[c] = {c} \cup above[mp(c)]
      BY <1>8, <2>3, <2>5, <3>1
    <3>5. ASSUME NEW d \in mainChain
          PROVE  d \in Between(c) <=> d = c \/ d \in Between(mp(c))
      <4>1. H(d) \in Nat /\ H(c) \in Nat /\ H(m) \in Nat /\ H(mp(c)) \in Nat /\ (d # c => H(d) # H(c))
        BY <1>9, <2>3, <3>1
      <4>. HIDE DEF H
      <4>2. H(m) < H(d) /\ H(d) <= H(c) <=> d = c \/ (H(m) < H(d) /\ H(d) <= H(mp(c)))
        BY <3>1, <4>1, SMT
      <4>. QED BY <4>2
    <3>6. Between(c) \subseteq mainChain /\ Between(mp(c)) \subseteq mainChain
      OBVIOUS
    <3>. HIDE DEF Between
    <3>7. Between(c) = {c} \cup Between(mp(c))
      BY <2>3, <3>5, <3>6
    <3>. QED BY <2>3, <3>3, <3>4, <3>7
  <2>. QED BY <2>4, <2>5
<1>12. above[mainTip] = Between(mainTip)
  BY <1>9, <1>11
<1>13. ASSUME NEW c \in mainChain PROVE c \in above[mainTip] <=> ~(H(c) <= H(m))
  <2>1. c \in above[mainTip] <=> H(m) < H(c)
    BY <1>9, <1>12
  <2>2. H(c) \in Nat /\ H(m) \in Nat
    BY <1>9
  <2>. QED BY <2>1, <2>2, SMT
<1>. QED BY <1>1, <1>13

(* Every height up to the tip's is that of one block of the chain. *)
LEMMA ChainCardinality ==
  ASSUME NEW bs, NEW n, Chained(bs, n), NEW M, NEW t, ChainOf(bs, M, t)
  PROVE  Cardinality(M) = bs[t].height + 1
<1>. DEFINE H == [b \in M |-> bs[b].height]
            k == bs[t].height
<1>1. /\ n \in Nat /\ M \subseteq 0..n /\ t \in M /\ k \in Nat
      /\ \A b \in M : bs[b].height \in Nat /\ bs[b].height <= k
      /\ \A b, c \in M : b # c => bs[b].height # bs[c].height
  BY DEF ChainOf, Chained
<1>2. H \in [M -> 0..k]
  <2>1. \A b \in M : bs[b].height \in 0..k
    BY <1>1, SMT
  <2>. HIDE DEF k
  <2>. QED BY <2>1
<1>3. H \in Injection(M, 0..k)
  <2>1. \A b, c \in M : H[b] = H[c] => b = c
    BY <1>1
  <2>. HIDE DEF H, k
  <2>. QED BY <1>2, <2>1 DEF Injection, IsInjective
<1>4. ASSUME NEW l \in 0..k PROVE \E b \in M : H[b] = l
  <2>. DEFINE T == {h \in Nat : l <= h /\ \E b \in M : bs[b].height = h}
  <2>1. T \in SUBSET Nat /\ T # {}
    <3>1. l <= k
      BY <1>1, SMT
    <3>. QED BY <1>1, <3>1
  <2>2. PICK h \in T : \A i \in T : h <= i
    <3>. HIDE DEF T
    <3>. QED BY <2>1, LeastNat
  <2>3. PICK b \in M : bs[b].height = h
    BY <2>2
  <2>4. h \in Nat /\ l <= h /\ l \in Nat
    BY <1>1, <2>2, SMT
  <2>5. CASE h = l
    BY <2>3, <2>5
  <2>6. CASE h # l
    <3>1. b # GenesisId
      <4>1. h # 0
        BY <2>4, <2>6, SMT
      <4>. QED BY <2>3, <4>1 DEF Chained
    <3>2. bs[b].mainParent \in M /\ h = bs[bs[b].mainParent].height + 1
      <4>1. b \in 0..n
        BY <1>1
      <4>. QED BY <2>3, <3>1, <4>1 DEF ChainOf, Chained
    <3>. DEFINE i == bs[bs[b].mainParent].height
    <3>3. i \in Nat /\ h = i + 1
      BY <1>1, <3>2
    <3>4. l <= i /\ ~(h <= i)
      <4>. HIDE DEF i
      <4>. QED BY <2>4, <2>6, <3>3, SMT
    <3>5. i \in T
      BY <3>2, <3>3, <3>4
    <3>. HIDE DEF T, i
    <3>. QED BY <2>2, <3>4, <3>5
  <2>. QED BY <2>5, <2>6
<1>5. H \in Surjection(M, 0..k)
  BY <1>2, <1>4 DEF Surjection
<1>6. IsFiniteSet(0..k) /\ Cardinality(0..k) = k + 1
  <2>1. 0 \in Int /\ k \in Int /\ ~(0 > k) /\ k - 0 + 1 = k + 1
    BY <1>1, SMT
  <2>. HIDE DEF k
  <2>. QED BY <2>1, FS_Interval
<1>. HIDE DEF H, k
<1>7. Cardinality(M) = Cardinality(0..k)
  BY <1>3, <1>5, <1>6, FS_Injection
<1>. QED BY <1>6, <1>7 DEF k

-----------------------------------------------------------------------------
(* What AddBlock does to the fields the choice of the main chain reads. *)
ColourFields == {"hash", "height", "mainParent", "blueNum"}

HasColours(bs) == \A b \in DOMAIN bs : ColourFields \subseteq DOMAIN bs[b]

(* cs is bs but for other fields. *)
SameColours(bs, cs) ==
  /\ DOMAIN cs = DOMAIN bs
  /\ \A b \in DOMAIN bs :
       /\ ColourFields \subseteq DOMAIN cs[b]
       /\ cs[b].hash = bs[b].hash
       /\ cs[b].height = bs[b].height
       /\ cs[b].mainParent = bs[b].mainParent
       /\ cs[b].blueNum = bs[b].blueNum

(* updateBlockOrder only writes the order of the diff anticone. *)
LEMMA UpdateBlockOrderColours ==
  ASSUME NEW bs, HasColours(bs), NEW b \in DOMAIN bs
  PROVE  SameColours(bs, updateBlockOrder(bs, b))
<1>. DEFINE o == getDiffAnticoneOrder(bs, b)
<1>1. updateBlockOrder(bs, b) = [bs EXCEPT ![b].diffOrder = o]
  BY SMT DEF updateBlockOrder
<1>. HIDE DEF o
<1>. QED BY <1>1, SMT DEF HasColours, SameColours, ColourFields

(* updateMainOrder only gives orders. *)
LEMMA UpdateMainOrderColours ==
  ASSUME NEW bs, HasColours(bs), NEW ids, NEW start
  PROVE  SameColours(bs, updateMainOrder(bs, ids, start))
<1>. DEFINE ord(b) == start + (CHOOSE i \in DOMAIN ids :
                        ids[i] = b /\ \A j \in DOMAIN ids : ids[j] = b => j <= i)
            in(b)  == b \in Range(ids)
            cs     == [b \in DOMAIN bs |-> IF in(b) THEN [bs[b] EXCEPT !.order = ord(b)]
                                           ELSE bs[b]]
<1>1. updateMainOrder(bs, ids, start) = cs
  BY SMT DEF updateMainOrder
<1>. HIDE DEF ord, in
<1>2. SameColours(bs, cs)
  BY SMT DEF HasColours, SameColours, ColourFields
<1>. QED BY <1>1, <1>2, SMT

(* preUpdateVirtualBlock only takes orders away. *)
LEMMA PreUpdateVirtualBlockColours ==
  ASSUME NEW bs, HasColours(bs), NEW S
  PROVE  SameColours(bs, preUpdateVirtualBlock(bs, S))
BY SMT DEF preUpdateVirtualBlock, HasColours, SameColours, ColourFields

(* Steps that each keep these fields keep them together. *)
LEMMA SameColoursTransitive ==
  ASSUME NEW bs, NEW cs, NEW ds, SameColours(bs, cs), SameColours(cs, ds)
  PROVE  SameColours(bs, ds) /\ HasColours(ds)
BY SMT DEF SameColours, HasColours

(* KeepMainTip and MoveMainTip change nothing of the coloured DAG but      *)
(* orders.                                                                 *)
LEMMA TipStepColours ==
  ASSUME NEW bs, HasColours(bs), KeepMainTip(bs) \/ MoveMainTip(bs)
  PROVE  SameColours(bs, blocks')
<1>1. CASE KeepMainTip(bs)
  <2>1. \E S : blocks' = preUpdateVirtualBlock(bs, S)
    BY <1>1 DEF KeepMainTip
  <2>. QED BY <2>1, PreUpdateVirtualBlockColours
<1>2. CASE MoveMainTip(bs)
  <2>1. PICK ids, start, S :
          blocks' = preUpdateVirtualBlock(updateMainOrder(bs, ids, start), S)
    BY <1>2 DEF MoveMainTip
  <2>2. SameColours(bs, updateMainOrder(bs, ids, start))
    BY UpdateMainOrderColours
  <2>3. HasColours(updateMainOrder(bs, ids, start))
    BY <2>2 DEF SameColours, HasColours
  <2>4. SameColours(updateMainOrder(bs, ids, start), blocks')
    BY <2>1, <2>3, PreUpdateVirtualBlockColours
  <2>. QED BY <2>2, <2>4, SameColoursTransitive
<1>. QED BY <1>1, <1>2

(* cs is bs with block b coloured: its main parent is the bluest parent,   *)
(* and it counts one blue block more than that parent and the blue ones of *)
(* its diff anticone.                                                      *)
NewColours(bs, cs, b) ==
  /\ DOMAIN cs = DOMAIN bs
  /\ HasColours(cs)
  /\ \A c \in DOMAIN bs : cs[c].hash = bs[c].hash
  /\ \A c \in DOMAIN bs \ {b} :
       /\ cs[c].height = bs[c].height
       /\ cs[c].mainParent = bs[c].mainParent
       /\ cs[c].blueNum = bs[c].blueNum
  /\ LET tp == getBluest(bs, bs[b].parents)
     IN  /\ cs[b].mainParent = tp
         /\ cs[b].height = bs[tp].height + 1
         /\ \E k \in Nat : cs[b].blueNum = bs[tp].blueNum + 1 + k

(* updateBlockColor colours the new block and no other. *)
LEMMA UpdateBlockColorColours ==
  ASSUME NEW bs, HasColours(bs), HasLinks(bs), ClosedUp(bs, DOMAIN bs), IsFiniteSet(DOMAIN bs),
         GenesisId \in DOMAIN bs, NEW b \in DOMAIN bs,
         getBluest(bs, bs[b].parents) \in DOMAIN bs
  PROVE  NewColours(bs, updateBlockColor(bs, b), b)
<1>. DEFINE tp   == getBluest(bs, bs[b].parents)
            h    == bs[tp].height + 1
            set  == [bs EXCEPT ![b].mainParent = tp, ![b].height = h]
            diff == getDiffAnticone(set, b)
            blue == {c \in diff : coloringRule(set, getKChain(set, b), c)}
            n    == bs[tp].blueNum + 1 + Cardinality(blue)
            red  == diff \ blue
            cs   == [set EXCEPT ![b].blueNum = n, ![b].blue = blue, ![b].red = red]
<1>1. updateBlockColor(bs, b) = cs
  BY SMT DEF updateBlockColor
<1>2. blue \subseteq diff
  <2>. HIDE DEF diff
  <2>. QED OBVIOUS
<1>3. n = bs[tp].blueNum + 1 + Cardinality(blue)
  OBVIOUS
<1>. HIDE DEF blue, n, red, h
<1>4. /\ DOMAIN set = DOMAIN bs
      /\ \A c \in DOMAIN bs \ {b} : set[c] = bs[c]
      /\ ColourFields \subseteq DOMAIN set[b] /\ LinkFields \subseteq DOMAIN set[b]
      /\ set[b].mainParent = tp /\ set[b].height = h /\ set[b].hash = bs[b].hash
      /\ set[b].parents = bs[b].parents
  <2>. HIDE DEF tp
  <2>. QED BY DEF HasColours, HasLinks, ColourFields, LinkFields
<1>. HIDE DEF set
<1>5. diff \subseteq DOMAIN bs
  <2>1. ClosedUp(set, DOMAIN set)
    BY <1>4 DEF ClosedUp
  <2>. QED BY <1>4, <2>1, DiffAnticoneType
<1>6. Cardinality(blue) \in Nat
  <2>1. blue \in SUBSET DOMAIN bs
    BY <1>2, <1>5
  <2>2. IsFiniteSet(blue)
    BY <2>1, FS_Subset
  <2>. QED BY <2>2, FS_CardinalityType
<1>. HIDE DEF tp
<1>7. /\ DOMAIN cs = DOMAIN bs
      /\ \A c \in DOMAIN bs \ {b} : cs[c] = bs[c]
      /\ ColourFields \subseteq DOMAIN cs[b]
      /\ cs[b].mainParent = tp /\ cs[b].height = h /\ cs[b].hash = bs[b].hash
      /\ cs[b].blueNum = n
  BY <1>4, SMT DEF ColourFields
<1>. HIDE DEF cs
<1>8. HasColours(cs)
  BY <1>7 DEF HasColours
<1>. QED BY <1>1, <1>3, <1>6, <1>7, <1>8 DEF NewColours, tp, h

(* bs has blocks and their colours. *)
Extends(bs) ==
  \A c \in DOMAIN blocks :
    /\ bs[c].hash = blocks[c].hash
    /\ bs[c].height = blocks[c].height
    /\ bs[c].mainParent = blocks[c].mainParent
    /\ bs[c].blueNum = blocks[c].blueNum

(* linkBlock leaves the colours of the blocks it holds alone. *)
LEMMA LinkBlockColours ==
  ASSUME LinkInv, HasColours(blocks), NEW ps \in SUBSET DOMAIN blocks, NEW h
  PROVE  /\ HasColours(linkBlock(ps, h))
         /\ linkBlock(ps, h)[blockTotal].hash = h
         /\ Extends(linkBlock(ps, h))
<1>. DEFINE bs == linkBlock(ps, h)
            n  == blockTotal
<1>1. DOMAIN bs = 0..n
  BY SMT DEF linkBlock
<1>2. n \in Nat /\ n \in DOMAIN bs
  BY <1>1, SMT DEF LinkInv
<1>3. bs[n] = Block(h, ps, maxLayer(ps) + 1)
  BY <1>2, SMT DEF linkBlock
<1>4. bs[n].hash = h /\ ColourFields \subseteq DOMAIN bs[n]
  BY <1>3, SMT DEF Block, ColourFields
<1>5. ASSUME NEW b \in DOMAIN blocks
      PROVE  /\ bs[b].hash = blocks[b].hash
             /\ bs[b].height = blocks[b].height
             /\ bs[b].mainParent = blocks[b].mainParent
             /\ bs[b].blueNum = blocks[b].blueNum
             /\ ColourFields \subseteq DOMAIN bs[b]
  <2>1. b \in 0..n /\ b # n
    BY SMT DEF LinkInv
  <2>2. bs[b] = [blocks[b] EXCEPT !.children =
                   IF b \in ps THEN @ \cup {n} ELSE @]
    BY <2>1, SMT DEF linkBlock
  <2>3. ColourFields \subseteq DOMAIN blocks[b]
    BY DEF HasColours
  <2>. QED BY <2>2, <2>3, SMT DEF ColourFields
<1>6. \A b \in DOMAIN bs : b = n \/ b \in DOMAIN blocks
  BY <1>1, SMT DEF LinkInv
<1>. QED BY <1>4, <1>5, <1>6 DEF HasColours, Extends

-----------------------------------------------------------------------------
(* Every block but the genesis block is one higher than its main parent,   *)
(* which is an older block, and no two blocks share a hash.                *)
ColourInv ==
  /\ HasColours(blocks)
  /\ Chained(blocks, blockTotal - 1)
  /\ Ranked(blocks, DOMAIN blocks)

(* The new block's main parent is the bluest of ps, and less blue than it. *)
OnBluest(bs, ps) ==
  LET m == bs[blockTotal].mainParent
  IN  Bluest(bs, ps, m) /\ bs[m].blueNum < bs[blockTotal].blueNum

(* The DAG with the new block coloured is chained and ranked as before. *)
LEMMA ColouredFacts ==
  ASSUME LinkInv, ColourInv, NEW ps \in SUBSET DOMAIN blocks, ps # {}, NEW h \in Nat, Fresh(h)
  PROVE  /\ HasColours(coloured(ps, h)) /\ Extends(coloured(ps, h))
         /\ Chained(coloured(ps, h), blockTotal)
         /\ Ranked(coloured(ps, h), 0..blockTotal)
         /\ OnBluest(coloured(ps, h), ps)
<1>. DEFINE n  == blockTotal
            l  == linkBlock(ps, h)
            cs == updateBlockColor(l, n)
            bs == updateBlockOrder(cs, n)
            tp == getBluest(l, ps)
<1>1. coloured(ps, h) = bs
  BY DEF coloured
<1>2. /\ n \in Nat /\ n - 1 \in Nat /\ n \in 0..n /\ n \notin DOMAIN blocks
      /\ DOMAIN blocks = 0..(n - 1) /\ 0..n = DOMAIN blocks \cup {n} /\ 0 \in 0..(n - 1)
      /\ n - 1 + 1 = n
  <2>1. n \in Nat \ {0} /\ DOMAIN blocks = 0..(n - 1)
    BY DEF LinkInv
  <2>. QED BY <2>1, SMT
<1>3. Linked(l, ps)
  BY LinkBlockLinks
<1>4. DOMAIN l = 0..n /\ HasLinks(l) /\ l[n].parents = ps
      /\ \A c \in DOMAIN blocks : l[c].parents = blocks[c].parents
  BY <1>3 DEF Linked
<1>5. /\ HasColours(l) /\ l[n].hash = h /\ Extends(l)
  BY LinkBlockColours DEF ColourInv
<1>. HIDE DEF l
<1>6. ClosedUp(l, DOMAIN l)
  <2>1. ASSUME NEW c \in DOMAIN blocks PROVE blocks[c].parents \subseteq 0..n
    <3>1. blocks[c].parents \subseteq 0..(c - 1)
      BY DEF LinkInv
    <3>2. 0..(c - 1) \subseteq 0..n
      BY <1>2, SMT
    <3>. QED BY <3>1, <3>2
  <2>. QED BY <1>2, <1>4, <2>1 DEF ClosedUp
<1>7. IsFiniteSet(DOMAIN l)
  <2>1. 0 \in Int /\ n \in Int
    BY <1>2, SMT
  <2>. QED BY <1>4, <2>1, FS_Interval
<1>8. tp \in ps /\ Bluest(l, ps, tp)
  <2>1. Ranked(l, 0..(n - 1))
    BY <1>2, <1>5, ZenonT(60) DEF ColourInv, Extends, Ranked
  <2>2. Bluest(l, ps, tp)
    BY <1>2, <2>1, BluestExists
  <2>. QED BY <2>2 DEF Bluest
<1>9. NewColours(l, cs, n)
  <2>1. GenesisId \in DOMAIN l /\ n \in DOMAIN l /\ tp \in DOMAIN l
    BY <1>2, <1>4, <1>8 DEF GenesisId
  <2>. QED BY <1>4, <1>5, <1>6, <1>7, <2>1, UpdateBlockColorColours
<1>. HIDE DEF cs
<1>10. SameColours(cs, bs)
  BY <1>2, <1>4, <1>9, UpdateBlockOrderColours DEF NewColours
<1>. HIDE DEF bs, tp
<1>11. /\ DOMAIN bs = 0..n /\ HasColours(bs)
       /\ bs[n].hash = h /\ bs[n].mainParent = tp /\ bs[n].height = l[tp].height + 1
       /\ \E k \in Nat : bs[n].blueNum = l[tp].blueNum + 1 + k
       /\ \A c \in DOMAIN blocks :
            /\ bs[c].hash = l[c].hash
            /\ bs[c].height = l[c].height
            /\ bs[c].mainParent = l[c].mainParent
            /\ bs[c].blueNum = l[c].blueNum
  <2>1. DOMAIN bs = 0..n /\ HasColours(bs)
    BY <1>4, <1>9, <1>10 DEF NewColours, SameColours, HasColours
  <2>2. bs[n].hash = h /\ \A c \in DOMAIN blocks : bs[c].hash = l[c].hash
    BY <1>2, <1>4, <1>5, <1>9, <1>10 DEF NewColours, SameColours
  <2>3. \A c \in DOMAIN blocks :
            /\ bs[c].height = l[c].height
            /\ bs[c].mainParent = l[c].mainParent
            /\ bs[c].blueNum = l[c].blueNum
    BY <1>2, <1>4, <1>9, <1>10 DEF NewColours, SameColours
  <2>4. /\ bs[n].mainParent = tp /\ bs[n].height = l[tp].height + 1
        /\ \E k \in Nat : bs[n].blueNum = l[tp].blueNum + 1 + k
    BY <1>2, <1>4, <1>9, <1>10 DEF NewColours, SameColours, tp
  <2>. QED BY <2>1, <2>2, <2>3, <2>4
<1>12. Extends(bs)
  BY <1>5, <1>11 DEF Extends
<1>13. /\ tp \in DOMAIN blocks
       /\ bs[n].height = bs[tp].height + 1 /\ bs[tp].height \in Nat
       /\ bs[n].blueNum \in Nat /\ l[tp].blueNum < bs[n].blueNum
  <2>1. tp \in DOMAIN blocks
    BY <1>8
  <2>2. bs[n].height = bs[tp].height + 1
    BY <1>11, <2>1
  <2>3. bs[tp].height \in Nat /\ l[tp].blueNum \in Nat
    BY <1>2, <1>5, <1>12, <2>1, ZenonT(60) DEF Extends, ColourInv, Chained, Ranked
  <2>4. PICK k \in Nat : bs[n].blueNum = l[tp].blueNum + 1 + k
    BY <1>11
  <2>5. bs[n].blueNum \in Nat /\ l[tp].blueNum < bs[n].blueNum
    BY <2>3, <2>4, SMT
  <2>. QED BY <2>1, <2>2, <2>3, <2>5
<1>14. Ranked(bs, 0..n)
  <2>1. \A c \in DOMAIN blocks : /\ bs[c].hash \in Nat /\ bs[c].blueNum \in Nat
                                 /\ bs[c].hash # h
                                 /\ \A d \in DOMAIN blocks : c # d => bs[c].hash # bs[d].hash
    <3>1. \A c \in DOMAIN blocks : bs[c].hash = blocks[c].hash /\ bs[c].blueNum = blocks[c].blueNum
      BY <1>12 DEF Extends
    <3>2. \A c \in DOMAIN blocks : /\ blocks[c].hash \in Nat /\ blocks[c].blueNum \in Nat
                                   /\ blocks[c].hash # h
      BY DEF ColourInv, Ranked, Fresh
    <3>3. \A c, d \in DOMAIN blocks : c # d => blocks[c].hash # blocks[d].hash
      BY DEF ColourInv, Ranked
    <3>. QED BY <3>1, <3>2, <3>3, ZenonT(60)
  <2>. QED BY <1>2, <1>11, <1>13, <2>1 DEF Ranked
<1>15. Chained(bs, n)
  <2>1. Chained(blocks, n - 1)
    BY DEF ColourInv
  <2>2. bs[GenesisId].mainParent = MaxId /\ bs[GenesisId].height = 0
    BY <1>2, <1>12, <2>1 DEF Chained, Extends, GenesisId
  <2>3. ASSUME NEW c \in 0..n PROVE bs[c].height \in Nat
    <3>1. bs[n].height \in Nat
      BY <1>13, SMT
    <3>2. c \in DOMAIN blocks => bs[c].height \in Nat
      BY <1>2, <1>12, <2>1 DEF Chained, Extends
    <3>. QED BY <1>2, <3>1, <3>2
  <2>4. ASSUME NEW c \in (0..n) \ {GenesisId}
        PROVE  bs[c].mainParent \in 0..(c - 1) /\ bs[c].height = bs[bs[c].mainParent].height + 1
    <3>1. CASE c = n
      BY <1>2, <1>11, <1>13, <3>1
    <3>2. CASE c \in DOMAIN blocks
      <4>1. blocks[c].mainParent \in 0..(c - 1)
            /\ blocks[c].height = blocks[blocks[c].mainParent].height + 1
        BY <1>2, <2>1, <3>2 DEF Chained
      <4>2. \A d \in 0..(c - 1) : d \in DOMAIN blocks
        BY <1>2, <3>2, SMT
      <4>. QED BY <1>12, <3>2, <4>1, <4>2 DEF Extends
    <3>. QED BY <1>2, <3>1, <3>2
  <2>. QED BY <1>2, <1>11, <2>2, <2>3, <2>4 DEF Chained
<1>16. OnBluest(bs, ps)
  <2>1. \A c \in ps : bs[c].hash = l[c].hash /\ bs[c].blueNum = l[c].blueNum
    BY <1>11
  <2>2. Bluest(bs, ps, tp)
    BY <1>8, <2>1 DEF Bluest, IsBluer
  <2>3. bs[tp].blueNum < bs[n].blueNum
    BY <1>8, <1>13, <2>1
  <2>. QED BY <1>11, <2>2, <2>3 DEF OnBluest
<1>. QED BY <1>1, <1>11, <1>12, <1>14, <1>15, <1>16

-----------------------------------------------------------------------------
(* MainChainFromBluest made inductive. *)
MainInv ==
  /\ LinkInv
  /\ ColourInv
  /\ ChainOf(blocks, mainChain, mainTip)
  /\ Bluest(blocks, DOMAIN blocks, mainTip)

(* MainInv depends on the fields SameColours keeps. *)
LEMMA SameColoursKeep ==
  ASSUME NEW bs, NEW cs, SameColours(bs, cs), NEW n, Chained(bs, n), Ranked(bs, 0..n)
  PROVE  /\ Chained(cs, n) /\ Ranked(cs, 0..n) /\ HasColours(cs) /\ DOMAIN cs = 0..n
         /\ \A M, t : ChainOf(bs, M, t) => ChainOf(cs, M, t)
         /\ \A t : Bluest(bs, 0..n, t) => Bluest(cs, 0..n, t)
<1>1. n \in Nat /\ DOMAIN bs = 0..n /\ DOMAIN cs = 0..n
  BY DEF Chained, SameColours
<1>2. \A c \in 0..n : /\ ColourFields \subseteq DOMAIN cs[c]
                      /\ cs[c].hash = bs[c].hash /\ cs[c].height = bs[c].height
                      /\ cs[c].mainParent = bs[c].mainParent /\ cs[c].blueNum = bs[c].blueNum
  BY <1>1 DEF SameColours
<1>3. Chained(cs, n)
  <2>1. GenesisId \in 0..n
    BY <1>1, SMT DEF GenesisId
  <2>2. \A c \in 0..n : cs[c].height \in Nat
    BY <1>2 DEF Chained
  <2>3. cs[GenesisId].mainParent = MaxId /\ cs[GenesisId].height = 0
    BY <1>2, <2>1 DEF Chained
  <2>4. ASSUME NEW c \in (0..n) \ {GenesisId}
        PROVE  cs[c].mainParent \in 0..(c - 1) /\ cs[c].height = cs[cs[c].mainParent].height + 1
    <3>1. bs[c].mainParent \in 0..(c - 1) /\ bs[c].height = bs[bs[c].mainParent].height + 1
      BY DEF Chained
    <3>2. bs[c].mainParent \in 0..n
      BY MainParentOlder
    <3>. QED BY <1>2, <3>1, <3>2
  <2>. QED BY <1>1, <2>2, <2>3, <2>4 DEF Chained
<1>4. Ranked(cs, 0..n)
  <2>1. \A b \in 0..n : bs[b].blueNum \in Nat /\ bs[b].hash \in Nat
    BY DEF Ranked
  <2>2. \A b, c \in 0..n : b # c => bs[b].hash # bs[c].hash
    BY DEF Ranked
  <2>3. \A b \in 0..n : cs[b].blueNum \in Nat /\ cs[b].hash \in Nat /\ cs[b].hash = bs[b].hash
    BY <1>2, <2>1
  <2>4. \A b, c \in 0..n : b # c => cs[b].hash # cs[c].hash
    <3>. SUFFICES ASSUME NEW b \in 0..n, NEW c \in 0..n, b # c PROVE cs[b].hash # cs[c].hash
      OBVIOUS
    <3>1. cs[b].hash = bs[b].hash /\ cs[c].hash = bs[c].hash /\ bs[b].hash # bs[c].hash
      BY <2>2, <2>3
    <3>. QED BY <3>1
  <2>. QED BY <2>3, <2>4 DEF Ranked
<1>5. HasColours(cs)
  BY <1>1, <1>2 DEF HasColours
<1>6. ASSUME NEW M, NEW t, ChainOf(bs, M, t) PROVE ChainOf(cs, M, t)
  <2>1. M \subseteq 0..n /\ t \in M /\ GenesisId \in M
    BY <1>1, <1>6 DEF ChainOf
  <2>2. \A b \in M : cs[b].height = bs[b].height /\ cs[b].mainParent = bs[b].mainParent
    BY <1>2, <2>1
  <2>. QED BY <1>1, <1>6, <2>1, <2>2 DEF ChainOf
<1>7. ASSUME NEW t, Bluest(bs, 0..n, t) PROVE Bluest(cs, 0..n, t)
  BY <1>2, <1>7 DEF Bluest, IsBluer
<1>. QED BY <1>1, <1>3, <1>4, <1>5, <1>6, <1>7

(* The main chain of a DAG is one of the DAG with the new block. *)
LEMMA ExtendsKeep ==
  ASSUME MainInv, NEW bs, Extends(bs), DOMAIN bs = 0..blockTotal
  PROVE  ChainOf(bs, mainChain, mainTip) /\ Bluest(bs, DOMAIN blocks, mainTip)
<1>1. DOMAIN blocks \subseteq 0..blockTotal
  BY SMT DEF MainInv, LinkInv
<1>2. mainChain \subseteq DOMAIN blocks /\ mainTip \in mainChain /\ GenesisId \in mainChain
  BY DEF MainInv, ChainOf
<1>3. \A b \in mainChain : bs[b].height = blocks[b].height /\ bs[b].mainParent = blocks[b].mainParent
  BY <1>2 DEF Extends
<1>4. ChainOf(bs, mainChain, mainTip)
  BY <1>1, <1>2, <1>3, ZenonT(60) DEF MainInv, ChainOf
<1>5. \A b \in DOMAIN blocks : bs[b].hash = blocks[b].hash /\ bs[b].blueNum = blocks[b].blueNum
  BY DEF Extends
<1>6. Bluest(bs, DOMAIN blocks, mainTip)
  BY <1>5 DEF MainInv, Bluest, IsBluer
<1>. QED BY <1>4, <1>6

(* A block that does not become the main tip is less blue. *)
LEMMA KeepMainTipBluest ==
  ASSUME MainInv, NEW bs, Ranked(bs, 0..blockTotal), Bluest(bs, DOMAIN blocks, mainTip),
         KeepMainTip(bs)
  PROVE  Bluest(bs, 0..blockTotal, mainTip)
<1>. DEFINE n == blockTotal
            S == updateTips(bs)
            t == getBluest(bs, S)
<1>1. n \in Nat /\ 0..n = DOMAIN blocks \cup {n} /\ n \notin DOMAIN blocks /\ n \in 0..n
  BY SMT DEF MainInv, LinkInv
<1>2. S \in SUBSET (0..n) /\ n \in S /\ mainTip \in DOMAIN blocks
  <2>1. tips \subseteq DOMAIN blocks
    BY DEF MainInv, LinkInv, LinksConsistent
  <2>. QED BY <1>1, <2>1 DEF updateTips, Bluest
<1>. HIDE DEF S
<1>3. Bluest(bs, S, t)
  BY <1>1, <1>2, BluestExists
<1>. HIDE DEF t
<1>4. t = mainTip \/ ~IsBluer(bs, t, mainTip)
  BY DEF KeepMainTip, isMaxMainTip, t, S
<1>5. t \in 0..n /\ mainTip \in 0..n /\ (t = n \/ IsBluer(bs, t, n))
  BY <1>1, <1>2, <1>3 DEF Bluest
<1>6. t = mainTip \/ IsBluer(bs, mainTip, t)
  BY <1>4, <1>5, BluerOrder
<1>7. IsBluer(bs, mainTip, n)
  BY <1>1, <1>2, <1>5, <1>6, BluerOrder
<1>. QED BY <1>1, <1>5, <1>7 DEF Bluest

(* Only the new block can become the main tip. *)
LEMMA MoveMainTipBluest ==
  ASSUME MainInv, NEW bs, Ranked(bs, 0..blockTotal), Bluest(bs, DOMAIN blocks, mainTip),
         MoveMainTip(bs)
  PROVE  mainTip' = blockTotal /\ Bluest(bs, 0..blockTotal, blockTotal)
         /\ getBluest(bs, updateTips(bs)) = blockTotal
<1>. DEFINE n == blockTotal
            S == updateTips(bs)
            t == getBluest(bs, S)
<1>1. n \in Nat /\ 0..n = DOMAIN blocks \cup {n} /\ n \notin DOMAIN blocks /\ n \in 0..n
  BY SMT DEF MainInv, LinkInv
<1>2. S \in SUBSET (0..n) /\ n \in S /\ mainTip \in DOMAIN blocks
  <2>1. tips \subseteq DOMAIN blocks
    BY DEF MainInv, LinkInv, LinksConsistent
  <2>. QED BY <1>1, <2>1 DEF updateTips, Bluest
<1>3. Bluest(bs, S, t)
  <2>. HIDE DEF S
  <2>. QED BY <1>1, <1>2, BluestExists
<1>4. t # mainTip /\ IsBluer(bs, t, mainTip) /\ mainTip' = t
  <2>. HIDE DEF S
  <2>. QED BY DEF MoveMainTip, isMaxMainTip, S
<1>. HIDE DEF S, t
<1>5. t \in 0..n /\ mainTip \in 0..n
  BY <1>1, <1>2, <1>3 DEF Bluest
<1>6. t = n
  <2>1. SUFFICES ASSUME t # n PROVE FALSE
    OBVIOUS
  <2>2. t \in DOMAIN blocks
    BY <1>1, <1>5, <2>1
  <2>3. IsBluer(bs, mainTip, t)
    BY <1>4, <2>2 DEF Bluest
  <2>. QED BY <1>4, <1>5, <2>3, BluerOrder
<1>7. ASSUME NEW c \in 0..n, c # n PROVE IsBluer(bs, n, c)
  <2>1. c = mainTip \/ IsBluer(bs, mainTip, c)
    BY <1>1, <1>7 DEF Bluest
  <2>. QED BY <1>1, <1>4, <1>5, <1>6, <2>1, BluerOrder
<1>. QED BY <1>1, <1>4, <1>6, <1>7, ZenonT(60) DEF Bluest, t, S

(* What is left of the main chain below the intersection, with the path    *)
(* from there to the new main tip, is the chain of the new main tip.       *)
LEMMA MoveMainTipChain ==
  ASSUME NEW bs, NEW n, Chained(bs, n), ChainOf(bs, mainChain, mainTip), NEW b \in (0..n) \ mainChain
  PROVE  LET path == mainPath(bs, b)
         IN  ChainOf(bs, rollBackMainChain(bs, intersectionOf(bs, path)) \cup Range(path), b)
<1>. DEFINE s == mainPath(bs, b)
            m == bs[s[1]].mainParent
            H(c) == bs[c].height
            L == {c \in mainChain : H(c) <= H(m)}
            P == {s[i] : i \in 1..Len(s)}
            M == L \cup P
<1>1. PathUp(bs, mainChain, s, b)
  BY MainPathFacts DEF ChainOf
<1>. HIDE DEF s
<1>2. /\ s \in Seq(DOMAIN bs) /\ s # <<>> /\ s[Len(s)] = b /\ m \in mainChain
      /\ \A i \in 1..Len(s) : /\ s[i] \in DOMAIN bs \ mainChain
                              /\ H(s[i]) = H(m) + i
                              /\ i # 1 => bs[s[i]].mainParent = s[i - 1]
  BY <1>1 DEF PathUp
<1>3. Len(s) \in Nat \ {0} /\ DOMAIN s = 1..Len(s) /\ Len(s) \in 1..Len(s)
  BY <1>2, SMT
<1>4. Range(s) = P
  BY <1>3 DEF Range
<1>5. rollBackMainChain(bs, intersectionOf(bs, s)) = L
  <2>1. intersectionOf(bs, s) = m
    BY DEF intersectionOf
  <2>2. m \in mainChain
    BY <1>2
  <2>. HIDE DEF m
  <2>3. rollBackMainChain(bs, m) = L
    BY <2>2, RollBackFacts
  <2>. QED BY <2>1, <2>3
<1>6. /\ mainChain \subseteq DOMAIN bs /\ GenesisId \in mainChain
      /\ \A c \in mainChain : H(c) \in Nat
      /\ \A c \in mainChain \ {GenesisId} : bs[c].mainParent \in mainChain /\ H(c) = H(bs[c].mainParent) + 1
      /\ \A c, d \in mainChain : c # d => H(c) # H(d)
      /\ H(GenesisId) = 0
  BY DEF ChainOf, Chained
<1>7. H(m) \in Nat /\ m \in L /\ GenesisId \in L
  <2>1. H(m) \in Nat
    BY <1>2, <1>6
  <2>2. H(m) <= H(m) /\ H(GenesisId) <= H(m)
    BY <1>6, <2>1, SMT
  <2>. QED BY <1>2, <1>6, <2>1, <2>2
<1>. HIDE DEF m, H
<1>8. M \subseteq DOMAIN bs /\ b \in M /\ GenesisId \in M
  <2>1. L \subseteq DOMAIN bs
    BY <1>6
  <2>2. P \subseteq DOMAIN bs
    BY <1>2, ZenonT(60)
  <2>3. b \in P
    BY <1>2, <1>3
  <2>. QED BY <1>7, <2>1, <2>2, <2>3
<1>9. ASSUME NEW c \in M, c # GenesisId PROVE bs[c].mainParent \in M
  <2>1. CASE c \in L
    <3>1. bs[c].mainParent \in mainChain /\ H(c) = H(bs[c].mainParent) + 1 /\ H(c) <= H(m)
      BY <1>6, <1>9, <2>1
    <3>2. H(bs[c].mainParent) \in Nat
      BY <1>6, <3>1
    <3>3. H(bs[c].mainParent) <= H(m)
      BY <1>7, <3>1, <3>2, SMT
    <3>. QED BY <3>1, <3>3
  <2>2. CASE c \in P
    <3>1. PICK i \in 1..Len(s) : c = s[i]
      BY <2>2
    <3>2. CASE i = 1
      BY <1>7, <3>1, <3>2 DEF m
    <3>3. CASE i # 1
      <4>1. i - 1 \in 1..Len(s)
        BY <1>3, <3>3, SMT
      <4>. QED BY <1>2, <3>1, <3>3, <4>1
    <3>. QED BY <3>2, <3>3
  <2>. QED BY <2>1, <2>2
<1>10. ASSUME NEW c \in P PROVE \E i \in 1..Len(s) : c = s[i] /\ H(c) = H(m) + i
  BY <1>2
<1>11. ASSUME NEW c \in M, NEW d \in M, c # d PROVE H(c) # H(d)
  <2>1. CASE c \in L /\ d \in L
    BY <1>6, <1>11, <2>1
  <2>2. ASSUME NEW x \in L, NEW y \in P PROVE H(x) # H(y)
    <3>1. PICK i \in 1..Len(s) : H(y) = H(m) + i
      BY <1>10
    <3>2. H(x) \in Nat /\ H(x) <= H(m)
      BY <1>6
    <3>. QED BY <1>3, <1>7, <3>1, <3>2, SMT
  <2>3. CASE c \in P /\ d \in P
    <3>1. PICK i \in 1..Len(s) : c = s[i] /\ H(c) = H(m) + i
      BY <1>10, <2>3
    <3>2. PICK j \in 1..Len(s) : d = s[j] /\ H(d) = H(m) + j
      BY <1>10, <2>3
    <3>3. i # j
      BY <1>11, <3>1, <3>2
    <3>. QED BY <1>3, <1>7, <3>1, <3>2, <3>3, SMT
  <2>. QED BY <2>1, <2>2, <2>3
<1>12. ASSUME NEW c \in M PROVE H(c) <= H(b)
  <2>1. H(b) = H(m) + Len(s)
    BY <1>2, <1>3
  <2>2. CASE c \in L
    <3>1. H(c) \in Nat /\ H(c) <= H(m)
      BY <1>6, <2>2
    <3>. QED BY <1>3, <1>7, <2>1, <3>1, SMT
  <2>3. CASE c \in P
    <3>1. PICK i \in 1..Len(s) : H(c) = H(m) + i
      BY <1>10, <2>3
    <3>. QED BY <1>3, <1>7, <2>1, <3>1, SMT
  <2>. QED BY <2>2, <2>3
<1>. HIDE DEF M
<1>13. ChainOf(bs, M, b)
  BY <1>8, <1>9, <1>11, <1>12 DEF ChainOf, H
<1>. QED BY <1>4, <1>5, <1>13 DEF M, s

(* The genesis block alone is its main chain (Phantom.Init). *)
LEMMA MainInvInit == Init => MainInv
<1>. SUFFICES ASSUME Init PROVE MainInv
  OBVIOUS
<1>1. LinkInv
  BY LinkInvInit
<1>2. DOMAIN blocks = {0} /\ blockTotal = 1 /\ mainTip = 0 /\ mainChain = {0}
  BY SMT DEF Init, GenesisId
<1>3. blocks[0] = [Block(0, {}, 0) EXCEPT !.order = 0]
  BY SMT DEF Init, GenesisId
<1>4. /\ blocks[0].hash = 0 /\ blocks[0].height = 0 /\ blocks[0].mainParent = MaxId
      /\ blocks[0].blueNum = 0 /\ ColourFields \subseteq DOMAIN blocks[0]
  BY <1>3, SMT DEF Block, ColourFields
<1>5. Chained(blocks, blockTotal - 1)
  <2>1. blockTotal - 1 = 0 /\ 0..0 = {0} /\ 0 \in Nat
    BY <1>2, SMT
  <2>. QED BY <1>2, <1>4, <2>1 DEF Chained, GenesisId
<1>6. Ranked(blocks, DOMAIN blocks) /\ HasColours(blocks)
  BY <1>2, <1>4, SMT DEF Ranked, HasColours
<1>7. ChainOf(blocks, mainChain, mainTip)
  <2>1. 0 <= 0
    BY SMT
  <2>. QED BY <1>2, <1>4, <2>1 DEF ChainOf, GenesisId
<1>8. Bluest(blocks, DOMAIN blocks, mainTip)
  BY <1>2 DEF Bluest
<1>. QED BY <1>1, <1>5, <1>6, <1>7, <1>8 DEF MainInv, ColourInv

(* AddBlock keeps MainInv, whatever parents the new block has. *)
LEMMA MainInvAddBlock ==
  ASSUME MainInv, NEW ps \in SUBSET DOMAIN blocks, ps # {}, NEW h \in Hashes, Fresh(h), AddBlock(ps, h)
  PROVE  MainInv'
<1>. DEFINE n  == blockTotal
            bs == coloured(ps, h)
<1>1. LinkInv'
  BY LinkInvAddBlock DEF MainInv
<1>2. HasColours(bs) /\ Extends(bs) /\ Chained(bs, n) /\ Ranked(bs, 0..n)
  <2>1. h \in Nat
    BY BlockAssumption
  <2>. QED BY <2>1, ColouredFacts DEF MainInv
<1>3. KeepMainTip(bs) \/ MoveMainTip(bs)
  BY DEF AddBlock
<1>. HIDE DEF bs
<1>4. DOMAIN bs = 0..n /\ n \in 0..n /\ n \notin DOMAIN blocks /\ n \notin mainChain
  <2>1. n \in 0..n /\ n \notin DOMAIN blocks
    BY SMT DEF MainInv, LinkInv
  <2>. QED BY <1>2, <2>1 DEF Chained, MainInv, ChainOf
<1>5. SameColours(bs, blocks')
  BY <1>2, <1>3, TipStepColours
<1>6. ChainOf(bs, mainChain, mainTip) /\ Bluest(bs, DOMAIN blocks, mainTip)
  BY <1>2, <1>4, ExtendsKeep
<1>7. ChainOf(bs, mainChain', mainTip') /\ Bluest(bs, 0..n, mainTip')
  <2>1. CASE KeepMainTip(bs)
    <3>1. mainChain' = mainChain /\ mainTip' = mainTip
      BY <2>1 DEF KeepMainTip
    <3>. QED BY <1>2, <1>6, <2>1, <3>1, KeepMainTipBluest
  <2>2. CASE MoveMainTip(bs)
    <3>1. mainTip' = n /\ Bluest(bs, 0..n, n) /\ getBluest(bs, updateTips(bs)) = n
      BY <1>2, <1>6, <2>2, MoveMainTipBluest
    <3>. DEFINE path == mainPath(bs, n)
    <3>2. mainChain' = rollBackMainChain(bs, intersectionOf(bs, path)) \cup Range(path)
      BY <2>2, <3>1 DEF MoveMainTip
    <3>3. ChainOf(bs, rollBackMainChain(bs, intersectionOf(bs, path)) \cup Range(path), n)
      BY <1>2, <1>4, <1>6, MoveMainTipChain
    <3>. QED BY <3>1, <3>2, <3>3
  <2>. QED BY <1>3, <2>1, <2>2
<1>8. /\ Chained(blocks', n) /\ Ranked(blocks', 0..n) /\ HasColours(blocks') /\ DOMAIN blocks' = 0..n
      /\ ChainOf(blocks', mainChain', mainTip') /\ Bluest(blocks', 0..n, mainTip')
  BY <1>2, <1>5, <1>7, SameColoursKeep
<1>9. blockTotal' - 1 = n
  <2>1. blockTotal' = n + 1
    BY DEF AddBlock
  <2>. QED BY <2>1, SMT DEF MainInv, LinkInv
<1>. QED BY <1>1, <1>8, <1>9 DEF MainInv, ColourInv

(* The main tip is bluer than every other block and mainChain.Has answers  *)
(* for exactly its chain of main parents, for every anticone size, layer   *)
(* gap and set of hashes, and for any parents isDAG accepts                *)
(* (Phantom.updateMainChain).                                              *)
THEOREM MainChainAnyParents == SpecAnyParents => []MainChainFromBluest
<1>1. MainInv /\ [NextAnyParents]_vars => MainInv'
  <2>. SUFFICES ASSUME MainInv, [NextAnyParents]_vars PROVE MainInv'
    OBVIOUS
  <2>1. CASE NextAnyParents
    <3>1. PICK ps \in (SUBSET DOMAIN blocks) \ {{}}, h \in Hashes : Fresh(h) /\ AddBlock(ps, h)
      BY <2>1 DEF NextAnyParents
    <3>. QED BY <3>1, MainInvAddBlock
  <2>2. CASE UNCHANGED vars
    <3>1. /\ blockTotal' = blockTotal /\ blocks' = blocks /\ tips' = tips
          /\ mainTip' = mainTip /\ mainChain' = mainChain
      BY <2>2 DEF vars
    <3>. QED BY <3>1 DEF MainInv, LinkInv, LinksConsistent, ColourInv
  <2>. QED BY <2>1, <2>2
<1>2. MainInv => MainChainFromBluest
  <2>. SUFFICES ASSUME MainInv PROVE MainChainFromBluest
    OBVIOUS
  <2>1. Cardinality(mainChain) = blocks[mainTip].height + 1
    BY ChainCardinality DEF MainInv, ColourInv
  <2>. QED BY <2>1 DEF MainInv, ChainOf, Bluest, MainChainFromBluest
<1>. QED BY <1>1, <1>2, MainInvInit, PTL DEF SpecAnyParents

(* The same for blocks whose parents are tips of some state. *)
THEOREM MainChainAlwaysFromBluest == Spec => []MainChainFromBluest
<1>1. Next => NextAnyParents
  BY SMT DEF Next, NextAnyParents
<1>2. Spec => SpecAnyParents
  BY <1>1, PTL DEF Spec, SpecAnyParents
<1>. QED BY <1>2, MainChainAnyParents, PTL

-----------------------------------------------------------------------------
(* The past of a block. *)

(* Parents are older blocks, and the children fields mirror them. *)
Acyclic(bs, n) ==
  /\ n \in Nat /\ DOMAIN bs = 0..n
  /\ \A c \in 0..n :
       /\ bs[c].parents \subseteq 0..(c - 1)
       /\ bs[c].children = {d \in 0..n : c \in bs[d].parents}

(* Parents are blocks of the DAG, older in the order the proofs go by. *)
LEMMA ParentsOlder ==
  ASSUME NEW bs, NEW n, Acyclic(bs, n), NEW c \in 0..n, NEW p \in bs[c].parents
  PROVE  p \in 0..n /\ p < c /\ <<p, c>> \in Older(n)
<1>1. n \in Nat /\ p \in 0..(c - 1)
  BY DEF Acyclic
<1>2. p \in 0..n /\ p < c
  BY <1>1, SMT
<1>. QED BY <1>1, <1>2, OlderFounded

(* Past is the closure of the parents. *)
LEMMA PastFacts ==
  ASSUME NEW bs, NEW n, Acyclic(bs, n), NEW b \in 0..n
  PROVE  /\ Past(bs, b) = bs[b].parents \cup UNION {Past(bs, p) : p \in bs[b].parents}
         /\ Past(bs, b) \in SUBSET (0..n)
<1>. DEFINE D == 0..n
            V == SUBSET D
            R == Older(n)
            ps(c) == bs[c].parents
            val(c, e) == ps(c) \cup UNION {e[p] : p \in ps(c)}
            G == [x \in D \X [D -> V] |-> val(x[1], x[2])]
            past[c \in D] == ps(c) \cup UNION {past[p] : p \in ps(c)}
<1>1. (\A c : Past(bs, c) = past[c]) /\ n \in Nat /\ DOMAIN bs = D
  BY DEF Past, Acyclic
<1>2. Founded(R, D)
  BY <1>1, OlderFounded
<1>3. \A c \in D : \A p \in ps(c) : p \in D /\ <<p, c>> \in R
  BY ParentsOlder
<1>. HIDE DEF R, ps
<1>4. ASSUME NEW x \in D, NEW e \in [D -> V], NEW g \in [D -> V]
      PROVE  /\ G[x, e] = val(x, e) /\ val(x, e) \in V
             /\ (\A d \in D : <<d, x>> \in R => e[d] = g[d]) => val(x, e) = val(x, g)
  <2>1. G[x, e] = val(x, e)
    OBVIOUS
  <2>2. val(x, e) \in V
    <3>1. \A p \in ps(x) : p \in D /\ e[p] \in V
      BY <1>3
    <3>. QED BY <3>1
  <2>3. ASSUME \A d \in D : <<d, x>> \in R => e[d] = g[d] PROVE val(x, e) = val(x, g)
    <3>1. \A p \in ps(x) : e[p] = g[p]
      BY <1>3, <2>3
    <3>. QED BY <3>1
  <2>. QED BY <2>1, <2>2, <2>3
<1>5. G \in [D \X [D -> V] -> V]
  <2>1. \A x \in D \X [D -> V] : x[1] \in D /\ x[2] \in [D -> V] /\ x = <<x[1], x[2]>>
    <3>. HIDE DEF D, V
    <3>. QED BY PairParts
  <2>. HIDE DEF val
  <2>2. \A x \in D \X [D -> V] : G[x] \in V
    BY <1>4, <2>1
  <2>. QED BY <2>2
<1>6. PICK f : Solves(f, D, V, G)
  <2>. HIDE DEF G, val
  <2>0. \A x \in D : \A e \in [D -> V] : G[x, e] = val(x, e)
    BY <1>4
  <2>1. \A x \in D : \A e, g \in [D -> V] :
          (\A d \in D : <<d, x>> \in R => e[d] = g[d]) => G[x, e] = G[x, g]
    <3>. SUFFICES ASSUME NEW x \in D, NEW e \in [D -> V], NEW g \in [D -> V],
                         \A d \in D : <<d, x>> \in R => e[d] = g[d]
                  PROVE  G[x, e] = G[x, g]
      OBVIOUS
    <3>1. val(x, e) = val(x, g)
      BY <1>4
    <3>. QED BY <2>0, <3>1
  <2>2. Recursive(D, V, R, G)
    BY <1>2, <1>5, <2>1 DEF Recursive
  <2>. HIDE DEF D, V
  <2>. QED BY <2>2, RecursionExists
<1>7. f = [c \in D |-> val(c, f)]
  <2>. HIDE DEF val, G
  <2>. QED BY <1>4, <1>6 DEF Solves
<1>8. past = [c \in D |-> val(c, past)]
  BY <1>7
<1>. HIDE DEF past
<1>9. \A c \in D : past[c] = ps(c) \cup UNION {past[p] : p \in ps(c)}
  BY <1>8
<1>. DEFINE T == {c \in D : past[c] \notin V}
<1>10. T = {}
  <2>1. SUFFICES ASSUME T # {} PROVE FALSE
    OBVIOUS
  <2>2. PICK c \in T : \A d \in T : <<d, c>> \notin R
    <3>1. T \in SUBSET D
      OBVIOUS
    <3>. HIDE DEF T, D
    <3>. QED BY <1>2, <2>1, <3>1 DEF Founded
  <2>3. \A p \in ps(c) : p \in D /\ past[p] \in V
    BY <1>3, <2>2
  <2>4. c \in D /\ ps(c) \subseteq D /\ past[c] = ps(c) \cup UNION {past[p] : p \in ps(c)}
    BY <1>9, <2>2, <2>3
  <2>5. UNION {past[p] : p \in ps(c)} \subseteq D
    BY <2>3
  <2>6. past[c] \in V
    BY <2>4, <2>5
  <2>. QED BY <2>2, <2>6
<1>11. Past(bs, b) = bs[b].parents \cup UNION {Past(bs, p) : p \in bs[b].parents}
  <2>1. UNION {Past(bs, p) : p \in bs[b].parents} = UNION {past[p] : p \in ps(b)}
    BY <1>1 DEF ps
  <2>. QED BY <1>1, <1>9, <2>1 DEF ps
<1>. QED BY <1>1, <1>10, <1>11

(* Past in terms of membership. *)
LEMMA PastStep ==
  ASSUME NEW bs, NEW n, Acyclic(bs, n), NEW b \in 0..n
  PROVE  /\ Past(bs, b) \subseteq 0..n
         /\ \A c : c \in Past(bs, b) <=> c \in bs[b].parents \/ \E p \in bs[b].parents : c \in Past(bs, p)
<1>. DEFINE P(c) == Past(bs, c)
<1>1. P(b) = bs[b].parents \cup UNION {P(p) : p \in bs[b].parents} /\ P(b) \in SUBSET (0..n)
  BY PastFacts
<1>. HIDE DEF P
<1>2. \A c : c \in P(b) <=> c \in bs[b].parents \/ \E p \in bs[b].parents : c \in P(p)
  BY <1>1
<1>. QED BY <1>1, <1>2 DEF P

(* The past of a block holds the past of each of its blocks. *)
LEMMA PastTransitive ==
  ASSUME NEW bs, NEW n, Acyclic(bs, n), NEW b \in 0..n, NEW c \in Past(bs, b), NEW d \in Past(bs, c)
  PROVE  d \in Past(bs, b)
<1>. DEFINE T == {x \in 0..n : \E y \in Past(bs, x) : \E z \in Past(bs, y) : z \notin Past(bs, x)}
<1>1. T = {}
  <2>1. SUFFICES ASSUME T # {} PROVE FALSE
    OBVIOUS
  <2>2. PICK x \in T : \A w \in T : <<w, x>> \notin Older(n)
    <3>1. T \in SUBSET (0..n) /\ Founded(Older(n), 0..n)
      BY OlderFounded DEF Acyclic
    <3>. HIDE DEF T
    <3>. QED BY <2>1, <3>1 DEF Founded
  <2>3. PICK y \in Past(bs, x) : \E z \in Past(bs, y) : z \notin Past(bs, x)
    BY <2>2
  <2>4. PICK z \in Past(bs, y) : z \notin Past(bs, x)
    BY <2>3
  <2>5. x \in 0..n
    BY <2>2
  <2>6. CASE y \in bs[x].parents
    BY <2>4, <2>5, <2>6, PastStep
  <2>7. CASE y \notin bs[x].parents
    <3>1. PICK p \in bs[x].parents : y \in Past(bs, p)
      BY <2>3, <2>5, <2>7, PastStep
    <3>2. p \in 0..n /\ <<p, x>> \in Older(n)
      BY <2>5, ParentsOlder
    <3>3. p \notin T
      BY <2>2, <3>2
    <3>4. z \in Past(bs, p)
      BY <2>4, <3>1, <3>2, <3>3
    <3>. QED BY <2>4, <2>5, <3>4, PastStep
  <2>. QED BY <2>6, <2>7
<1>. QED BY <1>1

(* A block with its past. *)
Upto(bs, b) == Past(bs, b) \cup {b}

(* A block is not in its past, and has every block of its past by a child. *)
LEMMA PastOlder ==
  ASSUME NEW bs, NEW n, Acyclic(bs, n), NEW b \in 0..n, NEW c \in Past(bs, b)
  PROVE  c \in 0..n /\ c < b /\ \E d \in Upto(bs, b) : c \in bs[d].parents
<1>. DEFINE ok(x, y) == y \in 0..n /\ y < x /\ \E d \in Upto(bs, x) : y \in bs[d].parents
            T == {x \in 0..n : \E y \in Past(bs, x) : ~ok(x, y)}
<1>1. T = {}
  <2>1. SUFFICES ASSUME T # {} PROVE FALSE
    OBVIOUS
  <2>2. PICK x \in T : \A w \in T : <<w, x>> \notin Older(n)
    <3>1. T \in SUBSET (0..n) /\ Founded(Older(n), 0..n)
      BY OlderFounded DEF Acyclic
    <3>. HIDE DEF T
    <3>. QED BY <2>1, <3>1 DEF Founded
  <2>3. PICK y \in Past(bs, x) : ~ok(x, y)
    BY <2>2
  <2>4. x \in 0..n
    BY <2>2
  <2>5. CASE y \in bs[x].parents
    <3>1. y \in 0..n /\ y < x /\ x \in Upto(bs, x)
      BY <2>4, <2>5, ParentsOlder DEF Upto
    <3>. QED BY <2>3, <2>5, <3>1
  <2>6. CASE y \notin bs[x].parents
    <3>1. PICK p \in bs[x].parents : y \in Past(bs, p)
      BY <2>3, <2>4, <2>6, PastStep
    <3>2. p \in 0..n /\ <<p, x>> \in Older(n) /\ p < x
      BY <2>4, ParentsOlder
    <3>3. ok(p, y)
      BY <2>2, <3>1, <3>2
    <3>4. PICK d \in Upto(bs, p) : y \in bs[d].parents
      BY <3>3
    <3>5. d \in Upto(bs, x)
      BY <2>4, <3>4, PastStep DEF Upto
    <3>6. y \in 0..n /\ y < p
      BY <3>3
    <3>7. y < x
      <4>1. n \in Nat
        BY DEF Acyclic
      <4>. QED BY <2>4, <3>2, <3>6, <4>1, SMT
    <3>. QED BY <2>3, <3>4, <3>5, <3>6, <3>7
  <2>. QED BY <2>5, <2>6
<1>. QED BY <1>1

-----------------------------------------------------------------------------
(* getAnticone: the blocks that are neither b nor in its past. *)
LEMMA AnticoneFacts ==
  ASSUME NEW bs, NEW n, Acyclic(bs, n), NEW b \in 0..n
  PROVE  getAnticone(bs, b) = (0..n) \ Upto(bs, b)
<1>. DEFINE D == DOMAIN bs
            V == BOOLEAN
            mu == [c \in D |-> n - c]
            R == Smaller(D, mu)
            ch(c) == bs[c].children
            val(c, e) == c # b /\ \A d \in ch(c) : e[d]
            G == [x \in D \X [D -> V] |-> val(x[1], x[2])]
            tip[c \in D] == c # b /\ \A d \in ch(c) : tip[d]
<1>0. getAnticone(bs, b) = {c \in D : tip[c]}
  BY SMT DEF getAnticone
<1>1. n \in Nat /\ D = 0..n
  BY DEF Acyclic
<1>2. Founded(R, D)
  <2>1. mu \in [D -> Nat]
    BY <1>1, SMT
  <2>. HIDE DEF D, mu
  <2>. QED BY <2>1, MeasureFounded
<1>3. \A c \in D : \A d \in ch(c) : d \in D /\ c \in bs[d].parents /\ <<d, c>> \in R
  <2>. SUFFICES ASSUME NEW c \in D, NEW d \in ch(c)
                PROVE  d \in D /\ c \in bs[d].parents /\ <<d, c>> \in R
    OBVIOUS
  <2>1. d \in D /\ c \in bs[d].parents
    BY DEF Acyclic
  <2>2. c < d
    BY <1>1, <2>1, ParentsOlder
  <2>3. n - d < n - c
    BY <1>1, <2>1, <2>2, SMT
  <2>. QED BY <2>1, <2>3 DEF Smaller
<1>4. \A c \in D : \A d \in D : c \in bs[d].parents => d \in ch(c)
  BY DEF Acyclic
<1>. HIDE DEF R, ch
<1>5. ASSUME NEW x \in D, NEW e \in [D -> V], NEW g \in [D -> V]
      PROVE  /\ G[x, e] = val(x, e) /\ val(x, e) \in V
             /\ (\A d \in D : <<d, x>> \in R => e[d] = g[d]) => val(x, e) = val(x, g)
  <2>1. G[x, e] = val(x, e)
    OBVIOUS
  <2>3. ASSUME \A d \in D : <<d, x>> \in R => e[d] = g[d] PROVE val(x, e) = val(x, g)
    <3>1. \A p \in ch(x) : e[p] = g[p]
      BY <1>3, <2>3
    <3>. QED BY <3>1
  <2>. QED BY <2>1, <2>3
<1>6. G \in [D \X [D -> V] -> V]
  <2>1. \A x \in D \X [D -> V] : x[1] \in D /\ x[2] \in [D -> V] /\ x = <<x[1], x[2]>>
    <3>. HIDE DEF D, V
    <3>. QED BY PairParts
  <2>. HIDE DEF val
  <2>2. \A x \in D \X [D -> V] : G[x] \in V
    BY <1>5, <2>1
  <2>. QED BY <2>2
<1>7. PICK f : Solves(f, D, V, G)
  <2>. HIDE DEF G, val
  <2>0. \A x \in D : \A e \in [D -> V] : G[x, e] = val(x, e)
    BY <1>5
  <2>1. \A x \in D : \A e, g \in [D -> V] :
          (\A d \in D : <<d, x>> \in R => e[d] = g[d]) => G[x, e] = G[x, g]
    <3>. SUFFICES ASSUME NEW x \in D, NEW e \in [D -> V], NEW g \in [D -> V],
                         \A d \in D : <<d, x>> \in R => e[d] = g[d]
                  PROVE  G[x, e] = G[x, g]
      OBVIOUS
    <3>1. val(x, e) = val(x, g)
      BY <1>5
    <3>. QED BY <2>0, <3>1
  <2>2. Recursive(D, V, R, G)
    BY <1>2, <1>6, <2>1 DEF Recursive
  <2>. HIDE DEF D, V
  <2>. QED BY <2>2, RecursionExists
<1>8. f = [c \in D |-> val(c, f)]
  <2>. HIDE DEF val, G
  <2>. QED BY <1>5, <1>7 DEF Solves
<1>9. tip = [c \in D |-> val(c, tip)]
  BY <1>8
<1>. HIDE DEF tip
<1>10. \A c \in D : tip[c] <=> c # b /\ \A d \in ch(c) : tip[d]
  BY <1>9
<1>. DEFINE T == {c \in D : ~(tip[c] <=> c \notin Upto(bs, b))}
<1>11. T = {}
  <2>1. SUFFICES ASSUME T # {} PROVE FALSE
    OBVIOUS
  <2>2. PICK c \in T : \A d \in T : <<d, c>> \notin R
    <3>1. T \in SUBSET D
      OBVIOUS
    <3>. HIDE DEF T, D
    <3>. QED BY <1>2, <2>1, <3>1 DEF Founded
  <2>3. \A d \in ch(c) : d \in D /\ c \in bs[d].parents /\ (tip[d] <=> d \notin Upto(bs, b))
    BY <1>3, <2>2
  <2>4. ASSUME c \in Upto(bs, b), c # b PROVE \E d \in ch(c) : d \in Upto(bs, b)
    <3>1. c \in Past(bs, b)
      BY <2>4 DEF Upto
    <3>2. PICK d \in Upto(bs, b) : c \in bs[d].parents
      BY <3>1, PastOlder
    <3>3. d \in D
      BY <1>1, <3>2, PastStep DEF Upto
    <3>. QED BY <1>4, <2>2, <3>2, <3>3
  <2>5. ASSUME NEW d \in ch(c), d \in Upto(bs, b) PROVE c \in Past(bs, b)
    <3>1. c \in Past(bs, d)
      BY <1>1, <2>3, <2>5, PastStep
    <3>. QED BY <2>5, <3>1, PastTransitive DEF Upto
  <2>. QED BY <1>10, <2>2, <2>3, <2>4, <2>5 DEF Upto
<1>. QED BY <1>0, <1>1, <1>11

(* Past depends on the parents alone. *)
LEMMA PastSame ==
  ASSUME NEW bs, NEW m, Acyclic(bs, m), NEW cs, NEW n, Acyclic(cs, n), m <= n,
         \A c \in 0..m : cs[c].parents = bs[c].parents
  PROVE  \A c \in 0..m : Past(cs, c) = Past(bs, c) /\ Upto(cs, c) = Upto(bs, c)
<1>. DEFINE T == {x \in 0..m : Past(cs, x) # Past(bs, x)}
<1>0. n \in Nat /\ m \in Nat
  BY DEF Acyclic
<1>1. T = {}
  <2>1. SUFFICES ASSUME T # {} PROVE FALSE
    OBVIOUS
  <2>2. PICK x \in T : \A w \in T : <<w, x>> \notin Older(m)
    <3>1. T \in SUBSET (0..m) /\ Founded(Older(m), 0..m)
      BY <1>0, OlderFounded
    <3>. HIDE DEF T
    <3>. QED BY <2>1, <3>1 DEF Founded
  <2>3. x \in 0..m /\ x \in 0..n /\ cs[x].parents = bs[x].parents
    <3>1. x \in 0..m
      BY <2>2
    <3>2. x \in 0..n
      BY <1>0, <3>1, SMT
    <3>. QED BY <3>1, <3>2
  <2>4. \A p \in bs[x].parents : Past(cs, p) = Past(bs, p)
    BY <2>2, <2>3, ParentsOlder
  <2>5. \A c : c \in Past(bs, x) <=> c \in bs[x].parents \/ \E p \in bs[x].parents : c \in Past(bs, p)
    BY <2>3, PastStep
  <2>6. \A c : c \in Past(cs, x) <=> c \in bs[x].parents \/ \E p \in bs[x].parents : c \in Past(cs, p)
    BY <2>3, PastStep
  <2>7. Past(cs, x) = Past(bs, x)
    <3>1. \A c : (\E p \in bs[x].parents : c \in Past(cs, p)) <=> (\E p \in bs[x].parents : c \in Past(bs, p))
      BY <2>4
    <3>2. \A c : c \in Past(cs, x) <=> c \in Past(bs, x)
      BY <2>5, <2>6, <3>1
    <3>. QED BY <3>2
  <2>. QED BY <2>2, <2>7
<1>. QED BY <1>1 DEF Upto

-----------------------------------------------------------------------------
(* s lists the blocks of B that are not in A, each once and after its      *)
(* parents.                                                                *)
Lists(bs, s, A, B) ==
  /\ s \in Seq(B) /\ A \subseteq B
  /\ \A i \in 1..Len(s) : s[i] \notin A
  /\ \A c \in B \ A : \E i \in 1..Len(s) : s[i] = c
  /\ \A i, j \in 1..Len(s) : s[i] = s[j] => i = j
  /\ \A i \in 1..Len(s) : \A p \in bs[s[i]].parents : p \in A \/ \E j \in 1..(i - 1) : s[j] = p

(* t is u followed by v. *)
Joined(t, u, v) ==
  /\ Len(u) \in Nat /\ Len(v) \in Nat /\ Len(t) = Len(u) + Len(v)
  /\ \A i \in 1..Len(u) : t[i] = u[i]
  /\ \A i \in 1..Len(v) : t[Len(u) + i] = v[i]
  /\ \A i \in 1..Len(t) : i \in 1..Len(u) \/ \E j \in 1..Len(v) : i = Len(u) + j

(* Where the elements of a concatenation come from. *)
LEMMA ConcatAt ==
  ASSUME NEW U, NEW W, NEW u \in Seq(U), NEW v \in Seq(W)
  PROVE  u \o v \in Seq(U \cup W) /\ Joined(u \o v, u, v)
<1>1. Len(u) \in Nat /\ Len(v) \in Nat /\ Len(u \o v) = Len(u) + Len(v)
  BY SMT
<1>2. u \in Seq(U \cup W) /\ v \in Seq(U \cup W)
  BY SMT
<1>3. u \o v \in Seq(U \cup W)
  BY <1>2, SMT
<1>4. \A i \in 1..Len(u) : (u \o v)[i] = u[i]
  BY SMT
<1>5. \A i \in 1..Len(v) : (u \o v)[Len(u) + i] = v[i]
  BY SMT
<1>6. ASSUME NEW i \in 1..Len(u \o v), i \notin 1..Len(u)
      PROVE  \E j \in 1..Len(v) : i = Len(u) + j
  <2>1. i - Len(u) \in 1..Len(v) /\ i = Len(u) + (i - Len(u))
    BY <1>1, <1>6, SMT
  <2>. QED BY <2>1
<1>. QED BY <1>1, <1>3, <1>4, <1>5, <1>6 DEF Joined

(* Lists follow one another. *)
LEMMA ListsConcat ==
  ASSUME NEW bs, NEW A, NEW B, NEW C, NEW u, NEW v, Lists(bs, u, A, B), Lists(bs, v, B, C)
  PROVE  Lists(bs, u \o v, A, C)
<1>. DEFINE t == u \o v
            k == Len(u)
<1>1. u \in Seq(B) /\ v \in Seq(C) /\ A \subseteq B /\ B \subseteq C
  BY DEF Lists
<1>2. B \cup C = C
  BY <1>1
<1>3. /\ t \in Seq(C)
      /\ k \in Nat /\ Len(v) \in Nat /\ Len(t) = k + Len(v)
      /\ \A i \in 1..k : t[i] = u[i]
      /\ \A i \in 1..Len(v) : t[k + i] = v[i]
      /\ \A i \in 1..Len(t) : i \in 1..k \/ \E j \in 1..Len(v) : i = k + j
  <2>1. u \o v \in Seq(B \cup C) /\ Joined(u \o v, u, v)
    BY <1>1, ConcatAt
  <2>. QED BY <1>2, <2>1 DEF Joined
<1>4. /\ \A i \in 1..k : i \in 1..Len(t) /\ u[i] \in B /\ u[i] \notin A
      /\ \A j \in 1..Len(v) : k + j \in 1..Len(t) /\ v[j] \in C /\ v[j] \notin B
  <2>1. \A i \in 1..k : i \in 1..Len(t) /\ u[i] \in B
    BY <1>1, <1>3, SMT
  <2>2. \A j \in 1..Len(v) : k + j \in 1..Len(t) /\ v[j] \in C
    BY <1>1, <1>3, SMT
  <2>. QED BY <2>1, <2>2 DEF Lists
<1>. HIDE DEF t, k
<1>5. \A i \in 1..Len(t) : t[i] \notin A
  BY <1>1, <1>3, <1>4
<1>6. \A c \in C \ A : \E i \in 1..Len(t) : t[i] = c
  <2>. SUFFICES ASSUME NEW c \in C \ A PROVE \E i \in 1..Len(t) : t[i] = c
    OBVIOUS
  <2>1. CASE c \in B
    <3>1. PICK i \in 1..k : u[i] = c
      BY <2>1 DEF Lists, k
    <3>. QED BY <1>3, <1>4, <3>1
  <2>2. CASE c \notin B
    <3>1. PICK j \in 1..Len(v) : v[j] = c
      BY <2>2 DEF Lists
    <3>. QED BY <1>3, <1>4, <3>1
  <2>. QED BY <2>1, <2>2
<1>7. ASSUME NEW i \in 1..Len(t), NEW j \in 1..Len(t), t[i] = t[j] PROVE i = j
  <2>1. CASE i \in 1..k /\ j \in 1..k
    <3>1. u[i] = u[j]
      BY <1>3, <1>7, <2>1
    <3>. QED BY <2>1, <3>1 DEF Lists, k
  <2>2. ASSUME NEW x \in 1..k, NEW y \in 1..Len(v) PROVE t[x] # t[k + y]
    BY <1>3, <1>4
  <2>3. ASSUME NEW x \in 1..Len(v), NEW y \in 1..Len(v), i = k + x, j = k + y PROVE i = j
    <3>1. v[x] = v[y]
      BY <1>3, <1>7, <2>3
    <3>2. x = y
      BY <3>1 DEF Lists
    <3>. QED BY <2>3, <3>2
  <2>4. ASSUME i \in 1..k, j \notin 1..k PROVE FALSE
    <3>1. PICK y \in 1..Len(v) : j = k + y
      BY <1>3, <2>4
    <3>. QED BY <1>7, <2>2, <2>4, <3>1
  <2>5. ASSUME i \notin 1..k, j \in 1..k PROVE FALSE
    <3>1. PICK y \in 1..Len(v) : i = k + y
      BY <1>3, <2>5
    <3>. QED BY <1>7, <2>2, <2>5, <3>1
  <2>6. CASE i \notin 1..k /\ j \notin 1..k
    BY <1>3, <2>3, <2>6
  <2>. QED BY <2>1, <2>4, <2>5, <2>6
<1>8. ASSUME NEW i \in 1..Len(t), NEW p \in bs[t[i]].parents
      PROVE  p \in A \/ \E j \in 1..(i - 1) : t[j] = p
  <2>1. CASE i \in 1..k
    <3>1. p \in bs[u[i]].parents
      BY <1>3, <1>8, <2>1
    <3>2. p \in A \/ \E j \in 1..(i - 1) : u[j] = p
      BY <2>1, <3>1 DEF Lists, k
    <3>3. \A j \in 1..(i - 1) : j \in 1..k
      BY <1>3, <2>1, SMT
    <3>. QED BY <1>3, <3>2, <3>3
  <2>2. ASSUME NEW x \in 1..Len(v), i = k + x PROVE p \in A \/ \E j \in 1..(i - 1) : t[j] = p
    <3>1. p \in bs[v[x]].parents
      BY <1>3, <1>8, <2>2
    <3>2. p \in B \/ \E j \in 1..(x - 1) : v[j] = p
      BY <3>1 DEF Lists
    <3>3. CASE p \in B /\ p \notin A
      <4>1. PICK j \in 1..k : u[j] = p
        BY <3>3 DEF Lists, k
      <4>2. j \in 1..(i - 1)
        BY <1>3, <2>2, <4>1, SMT
      <4>. QED BY <1>3, <4>1, <4>2
    <3>4. ASSUME NEW j \in 1..(x - 1), v[j] = p PROVE \E l \in 1..(i - 1) : t[l] = p
      <4>1. j \in 1..Len(v) /\ k + j \in 1..(i - 1)
        BY <1>3, <2>2, SMT
      <4>. QED BY <1>3, <3>4, <4>1
    <3>. QED BY <3>2, <3>3, <3>4
  <2>. QED BY <1>3, <2>1, <2>2
<1>. QED BY <1>1, <1>3, <1>5, <1>6, <1>7, <1>8 DEF Lists, t

-----------------------------------------------------------------------------
(* The lists the diff anticone is ordered by. *)

(* s is a list of exactly the members of S. *)
Holds(s, S) == s \in Seq(S) /\ \A c \in S : \E i \in 1..Len(s) : s[i] = c

(* A function on 1..k is a sequence of length k. *)
LEMMA FunctionIsSeq ==
  ASSUME NEW S, NEW k \in Nat, NEW f \in [1..k -> S]
  PROVE  f \in Seq(S) /\ Len(f) = k
BY SMT

(* Sequences over a set are sequences over a larger one. *)
LEMMA SeqWider ==
  ASSUME NEW S, NEW T, S \subseteq T, NEW s \in Seq(S)
  PROVE  s \in Seq(T)
BY SMT

(* The blocks of S have hashes that tell them apart. *)
Hashed(bs, S) ==
  /\ IsFiniteSet(S)
  /\ \A c \in S : bs[c].hash \in Nat
  /\ \A c, d \in S : bs[c].hash = bs[d].hash => c = d

(* SortHashList lists every block of the set. *)
LEMMA SortHashListHolds ==
  ASSUME NEW bs, NEW S, Hashed(bs, S)
  PROVE  Holds(SortHashList(bs, S), S)
<1>. DEFINE h(c) == bs[c].hash
            L(b) == {c \in S : h(c) < h(b)}
            rank(b) == Cardinality(L(b))
            N == Cardinality(S)
            r == [b \in S |-> rank(b)]
            s == SortHashList(bs, S)
<1>1. IsFiniteSet(S) /\ N \in Nat
  BY FS_CardinalityType DEF Hashed
<1>2. ASSUME NEW b \in S PROVE IsFiniteSet(L(b)) /\ rank(b) \in 0..(N - 1)
  <2>1. h(b) \in Nat /\ ~(h(b) < h(b))
    <3>1. h(b) \in Nat
      BY DEF Hashed
    <3>. QED BY <3>1, SMT
  <2>2. L(b) \in SUBSET S /\ b \notin L(b)
    BY <2>1
  <2>3. L(b) # S
    BY <2>2
  <2>. HIDE DEF L
  <2>4. IsFiniteSet(L(b)) /\ Cardinality(L(b)) <= N /\ (Cardinality(L(b)) = N => L(b) = S)
    BY <1>1, <2>2, FS_Subset
  <2>5. Cardinality(L(b)) \in Nat
    BY <2>4, FS_CardinalityType
  <2>. QED BY <1>1, <2>3, <2>4, <2>5, SMT
<1>3. ASSUME NEW b \in S, NEW c \in S, h(b) < h(c) PROVE rank(b) # rank(c)
  <2>1. h(b) \in Nat /\ h(c) \in Nat /\ \A d \in S : h(d) \in Nat
    BY DEF Hashed
  <2>2. b \in L(c) /\ b \notin L(b) /\ \A d \in S : h(d) < h(b) => h(d) < h(c)
    <3>1. ~(h(b) < h(b)) /\ \A d \in S : h(d) < h(b) => h(d) < h(c)
      BY <1>3, <2>1, SMT
    <3>. QED BY <1>3, <3>1
  <2>3. L(b) \in SUBSET L(c) /\ L(b) # L(c)
    BY <2>2
  <2>4. IsFiniteSet(L(c))
    BY <1>2
  <2>. HIDE DEF L
  <2>. QED BY <2>3, <2>4, FS_Subset
<1>4. ASSUME NEW b \in S, NEW c \in S, rank(b) = rank(c) PROVE b = c
  <2>1. ~(h(b) < h(c)) /\ ~(h(c) < h(b))
    BY <1>3, <1>4
  <2>2. h(b) \in Nat /\ h(c) \in Nat
    BY DEF Hashed
  <2>3. h(b) = h(c)
    <3>. HIDE DEF h
    <3>. QED BY <2>1, <2>2, SMT
  <2>. QED BY <2>3 DEF Hashed
<1>. HIDE DEF rank
<1>5. r \in Injection(S, 0..(N - 1))
  <2>1. r \in [S -> 0..(N - 1)]
    BY <1>2
  <2>2. \A b, c \in S : r[b] = r[c] => b = c
    BY <1>4
  <2>. QED BY <2>1, <2>2, SMT DEF Injection, IsInjective
<1>6. \A i \in 0..(N - 1) : \E b \in S : r[b] = i
  <2>. HIDE DEF r
  <2>1. IsFiniteSet(0..(N - 1)) /\ Cardinality(0..(N - 1)) = N
    <3>1. N - 1 \in Int /\ 0 \in Int
      BY <1>1, SMT
    <3>2. IsFiniteSet(0..(N - 1)) /\ Cardinality(0..(N - 1)) = IF 0 > N - 1 THEN 0 ELSE (N - 1) - 0 + 1
      BY <3>1, FS_Interval
    <3>. QED BY <1>1, <3>2, SMT
  <2>2. r \in Surjection(S, 0..(N - 1))
    BY <1>1, <1>5, <2>1, FS_Injection
  <2>. QED BY <2>2 DEF Surjection
<1>. DEFINE pick(i) == CHOOSE b \in S : rank(b) = i - 1
<1>7. s = [i \in 1..N |-> pick(i)]
  BY SMT DEF SortHashList, rank
<1>8. \A i \in 1..N : pick(i) \in S /\ rank(pick(i)) = i - 1
  <2>. SUFFICES ASSUME NEW i \in 1..N PROVE pick(i) \in S /\ rank(pick(i)) = i - 1
    OBVIOUS
  <2>1. i - 1 \in 0..(N - 1)
    BY <1>1, SMT
  <2>. QED BY <1>6, <2>1
<1>. HIDE DEF pick, s
<1>9. s \in [1..N -> S]
  BY <1>7, <1>8
<1>10. s \in Seq(S) /\ Len(s) = N
  BY <1>1, <1>9, FunctionIsSeq
<1>11. ASSUME NEW c \in S PROVE \E i \in 1..N : s[i] = c
  <2>1. rank(c) \in 0..(N - 1)
    BY <1>2 DEF rank
  <2>2. rank(c) + 1 \in 1..N /\ (rank(c) + 1) - 1 = rank(c)
    BY <1>1, <2>1, SMT
  <2>3. pick(rank(c) + 1) \in S /\ rank(pick(rank(c) + 1)) = rank(c)
    BY <1>8, <2>2
  <2>4. pick(rank(c) + 1) = c
    BY <1>4, <2>3 DEF rank
  <2>5. s[rank(c) + 1] = c
    BY <1>7, <2>2, <2>4
  <2>. QED BY <2>2, <2>5
<1>. QED BY <1>10, <1>11 DEF Holds, s

(* Concatenating lists joins what they hold. *)
LEMMA HoldsConcat ==
  ASSUME NEW A, NEW B, NEW u, NEW v, Holds(u, A), Holds(v, B)
  PROVE  Holds(u \o v, A \cup B)
<1>1. u \o v \in Seq(A \cup B) /\ Joined(u \o v, u, v)
  BY ConcatAt DEF Holds
<1>. DEFINE t == u \o v
<1>. HIDE DEF t
<1>2. Len(u) \in Nat /\ Len(v) \in Nat /\ Len(t) = Len(u) + Len(v)
  BY <1>1 DEF Joined, t
<1>3. (\A i \in 1..Len(u) : i \in 1..Len(t)) /\ (\A i \in 1..Len(v) : Len(u) + i \in 1..Len(t))
  BY <1>2, SMT
<1>4. ASSUME NEW c \in A \cup B PROVE \E i \in 1..Len(t) : t[i] = c
  <2>1. CASE c \in A
    <3>1. PICK i \in 1..Len(u) : u[i] = c
      BY <2>1 DEF Holds
    <3>2. t[i] = c
      BY <1>1, <3>1 DEF Joined, t
    <3>. QED BY <1>3, <3>2
  <2>2. CASE c \in B
    <3>1. PICK i \in 1..Len(v) : v[i] = c
      BY <2>2 DEF Holds
    <3>2. t[Len(u) + i] = c
      BY <1>1, <3>1 DEF Joined, t
    <3>. QED BY <1>3, <3>2
  <2>. QED BY <2>1, <2>2
<1>. QED BY <1>1, <1>4 DEF Holds, t

(* sortBlocks lists the blocks of toSort that are in the diff anticone,    *)
(* the main parent first if it is one, then the blue and then the red.     *)
LEMMA SortBlocksHolds ==
  ASSUME NEW bs, NEW m, NEW blue, NEW toSort, NEW diff, Hashed(bs, diff)
  PROVE  Holds(sortBlocks(bs, m, blue, toSort, diff), toSort \cap diff)
<1>. DEFINE rest == (toSort \ {m}) \cap diff
            X == rest \cap blue
            Y == rest \ blue
            u == IF m \in diff \cap toSort THEN <<m>> ELSE <<>>
            Z == {m} \cap diff \cap toSort
            x == SortHashList(bs, X)
            y == SortHashList(bs, Y)
<1>1. sortBlocks(bs, m, blue, toSort, diff) = (u \o x) \o y
  BY SMT DEF sortBlocks
<1>2. ASSUME NEW S \in SUBSET diff PROVE Hashed(bs, S)
  BY FS_Subset DEF Hashed
<1>3. X \in SUBSET diff /\ Y \in SUBSET diff
  OBVIOUS
<1>4. Holds(x, X) /\ Holds(y, Y)
  <2>. HIDE DEF X, Y
  <2>. QED BY <1>2, <1>3, SortHashListHolds
<1>5. Holds(u, Z)
  <2>1. CASE m \in diff \cap toSort
    <3>1. u = <<m>> /\ Z = {m}
      BY <2>1
    <3>2. <<m>> \in Seq({m}) /\ Len(<<m>>) = 1 /\ <<m>>[1] = m /\ 1 \in 1..1
      BY SMT
    <3>. HIDE DEF u, Z
    <3>3. \A c \in {m} : u[1] = c
      BY <3>1, <3>2, SMT
    <3>. QED BY <3>1, <3>2, <3>3 DEF Holds
  <2>2. CASE m \notin diff \cap toSort
    <3>1. u = <<>> /\ Z = {}
      BY <2>2
    <3>2. <<>> \in Seq({})
      BY SMT
    <3>. HIDE DEF u, Z
    <3>. QED BY <3>1, <3>2 DEF Holds
  <2>. QED BY <2>1, <2>2
<1>6. (Z \cup X) \cup Y = toSort \cap diff
  OBVIOUS
<1>. HIDE DEF u, x, y, X, Y, Z
<1>7. Holds(u \o x, Z \cup X)
  BY <1>4, <1>5, HoldsConcat
<1>8. Holds((u \o x) \o y, (Z \cup X) \cup Y)
  BY <1>4, <1>7, HoldsConcat
<1>. QED BY <1>1, <1>6, <1>8

-----------------------------------------------------------------------------
(* How far the bounded walk of getDiffAnticone reaches. *)

(* Every block but genesis has parents, all of lower layers. *)
Layered(bs, n) ==
  \A c \in 0..n :
    /\ bs[c].layer \in Nat
    /\ c # GenesisId => bs[c].parents # {}
    /\ \A p \in bs[c].parents : bs[p].layer < bs[c].layer

(* Genesis is in the past of every other block, and layers fall along it.  *)
LEMMA PastLayers ==
  ASSUME NEW bs, NEW n, Acyclic(bs, n), Layered(bs, n), NEW b \in 0..n
  PROVE  /\ GenesisId \in Upto(bs, b)
         /\ \A c \in Past(bs, b) : bs[c].layer < bs[b].layer
<1>. DEFINE ok(x) == GenesisId \in Upto(bs, x) /\ \A c \in Past(bs, x) : bs[c].layer < bs[x].layer
            T == {x \in 0..n : ~ok(x)}
<1>1. T = {}
  <2>1. SUFFICES ASSUME T # {} PROVE FALSE
    OBVIOUS
  <2>2. PICK x \in T : \A w \in T : <<w, x>> \notin Older(n)
    <3>1. T \in SUBSET (0..n) /\ Founded(Older(n), 0..n)
      BY OlderFounded DEF Acyclic
    <3>. HIDE DEF T
    <3>. QED BY <2>1, <3>1 DEF Founded
  <2>3. x \in 0..n /\ ~ok(x)
    BY <2>2
  <2>4. \A p \in bs[x].parents : p \in 0..n /\ ok(p) /\ bs[p].layer < bs[x].layer
    <3>1. \A p \in bs[x].parents : p \in 0..n /\ <<p, x>> \in Older(n)
      BY <2>3, ParentsOlder
    <3>. QED BY <2>2, <2>3, <3>1 DEF Layered
  <2>5. \A c : c \in Past(bs, x) <=> c \in bs[x].parents \/ \E p \in bs[x].parents : c \in Past(bs, p)
    BY <2>3, PastStep
  <2>6. GenesisId \in Upto(bs, x)
    <3>1. CASE x = GenesisId
      BY <3>1 DEF Upto
    <3>2. CASE x # GenesisId
      <4>1. PICK p \in bs[x].parents : TRUE
        BY <2>3, <3>2 DEF Layered
      <4>2. GenesisId \in Past(bs, p) \/ GenesisId = p
        BY <2>4 DEF Upto
      <4>. QED BY <2>5, <4>2 DEF Upto
    <3>. QED BY <3>1, <3>2
  <2>7. ASSUME NEW c \in Past(bs, x) PROVE bs[c].layer < bs[x].layer
    <3>1. CASE c \in bs[x].parents
      BY <2>4, <3>1
    <3>2. CASE c \notin bs[x].parents
      <4>1. PICK p \in bs[x].parents : c \in Past(bs, p)
        BY <2>5, <3>2
      <4>2. bs[c].layer < bs[p].layer /\ bs[p].layer < bs[x].layer
        BY <2>4, <4>1
      <4>3. bs[c].layer \in Nat /\ bs[p].layer \in Nat /\ bs[x].layer \in Nat
        <5>1. c \in 0..n
          BY <2>3, PastStep
        <5>. QED BY <2>3, <2>4, <5>1 DEF Layered
      <4>. QED BY <4>2, <4>3, SMT
    <3>. QED BY <3>1, <3>2
  <2>. QED BY <2>3, <2>6, <2>7
<1>. QED BY <1>1

(* A block b whose diff anticone is to be found: no parent is in the past  *)
(* of the main parent m or far below it, and where a block b brings in has *)
(* a parent more than one layer down, that one is not far below m either.  *)
WalkCase(bs, n, b, m) ==
  /\ Acyclic(bs, n) /\ Layered(bs, n)
  /\ b \in 0..n /\ m \in 0..n /\ m \in bs[b].parents /\ m = bs[b].mainParent
  /\ \A q \in bs[b].parents : q \notin Past(bs, m) /\ bs[m].layer <= bs[q].layer + MaxTipLayerGap
  /\ \A c \in Past(bs, b) \ Upto(bs, m) : \A p \in bs[c].parents :
       bs[c].layer <= bs[p].layer + 1 \/ bs[m].layer <= bs[p].layer + MaxTipLayerGap + 3

(* sub is part of the main parent's past, the tree is part of b's, and     *)
(* only blocks outside the main parent's past have been expanded.          *)
Sound(bs, b, m, w) ==
  /\ w.sub \subseteq Upto(bs, m)
  /\ bs[b].parents \ {m} \subseteq w.nodes /\ w.nodes \subseteq Past(bs, b)
  /\ w.expanded \subseteq w.nodes /\ ParentsOf(bs, w.expanded) \subseteq w.nodes
  /\ w.expanded \cap Upto(bs, m) = {}

(* sub has the main parent's past down to i layers below it. *)
Covers(bs, m, w, i) == \A c \in Upto(bs, m) : bs[m].layer <= bs[c].layer + i => c \in w.sub

(* The tree goes down at most i layers below the main parent. *)
Near(bs, m, w, i) == \A c \in w.nodes : bs[m].layer <= bs[c].layer + i

(* Membership in ParentsOf. *)
LEMMA InParentsOf ==
  ASSUME NEW bs, NEW S
  PROVE  \A p : p \in ParentsOf(bs, S) <=> \E c \in S : p \in bs[c].parents
BY DEF ParentsOf

Widened(bs, n, b, m, w, v, i) ==
  /\ v \in Walk(0..n) /\ Sound(bs, b, m, v) /\ v.nodes = w.nodes /\ v.expanded = w.expanded
  /\ Covers(bs, m, v, i)

(* Widening sub once takes in one more layer. *)
LEMMA WidenCovers ==
  ASSUME NEW bs, NEW n, NEW b, NEW m, WalkCase(bs, n, b, m), NEW w \in Walk(0..n), Sound(bs, b, m, w),
         NEW i \in Nat, Covers(bs, m, w, i)
  PROVE  Widened(bs, n, b, m, w, widenSub(bs, w), i + 1)
<1>. DEFINE v == widenSub(bs, w)
<1>1. Acyclic(bs, n) /\ Layered(bs, n) /\ m \in 0..n
  BY DEF WalkCase
<1>2. v \in Walk(0..n) /\ v.nodes = w.nodes /\ v.expanded = w.expanded
  <2>1. ClosedUp(bs, 0..n)
    BY <1>1, ParentsOlder DEF ClosedUp
  <2>. QED BY <2>1, WidenType
<1>3. v.sub = w.sub \cup ParentsOf(bs, w.sub)
  <2>1. v = [w EXCEPT !.sub = @ \cup ParentsOf(bs, w.sub)]
    BY DEF widenSub
  <2>. HIDE DEF v
  <2>. QED BY <2>1, SMT DEF Walk
<1>. HIDE DEF v
<1>4. v.sub \subseteq Upto(bs, m)
  <2>0. w.sub \subseteq Upto(bs, m)
    BY DEF Sound
  <2>. SUFFICES ASSUME NEW c \in w.sub, NEW p \in bs[c].parents PROVE p \in Past(bs, m)
    <3>1. \A p \in ParentsOf(bs, w.sub) : p \in Past(bs, m)
      BY InParentsOf
    <3>. QED BY <1>3, <2>0, <3>1 DEF Upto
  <2>1. c = m \/ c \in Past(bs, m)
    BY DEF Sound, Upto
  <2>2. c \in 0..n /\ p \in Past(bs, c)
    <3>1. c \in 0..n
      BY <1>1, <2>1, PastStep
    <3>. QED BY <1>1, <3>1, PastStep
  <2>. QED BY <1>1, <2>1, <2>2, PastTransitive
<1>5. Covers(bs, m, v, i + 1)
  <2>. SUFFICES ASSUME NEW c \in Upto(bs, m), bs[m].layer <= bs[c].layer + (i + 1) PROVE c \in v.sub
    BY DEF Covers
  <2>0. bs[m].layer \in Nat
    BY <1>1 DEF Layered
  <2>1. CASE c = m
    <3>1. bs[m].layer <= bs[m].layer + i
      BY <2>0, SMT
    <3>2. m \in w.sub
      BY <3>1 DEF Covers, Upto
    <3>. QED BY <1>3, <2>1, <3>2
  <2>2. CASE c # m
    <3>1. c \in Past(bs, m)
      BY <2>2 DEF Upto
    <3>2. PICK d \in Upto(bs, m) : c \in bs[d].parents
      BY <1>1, <3>1, PastOlder
    <3>3. d \in 0..n /\ c \in 0..n
      BY <1>1, <3>1, PastStep DEF Upto
    <3>4. bs[c].layer < bs[d].layer /\ bs[c].layer \in Nat /\ bs[d].layer \in Nat
      BY <1>1, <3>2, <3>3 DEF Layered
    <3>5. bs[m].layer <= bs[d].layer + i
      BY <2>0, <3>4, SMT
    <3>6. d \in w.sub
      BY <3>5 DEF Covers
    <3>. QED BY <1>3, <3>2, <3>6, InParentsOf
  <2>. QED BY <2>1, <2>2
<1>6. Sound(bs, b, m, v)
  BY <1>2, <1>4 DEF Sound
<1>. QED BY <1>2, <1>5, <1>6 DEF v, Widened

Started(bs, n, b, m, w) ==
  /\ w \in Walk(0..n) /\ Sound(bs, b, m, w) /\ Covers(bs, m, w, MaxTipLayerGap + 2)
  /\ w.nodes = bs[b].parents \ {m}

(* Before its first step the walk knows MaxTipLayerGap + 2 layers of the   *)
(* main parent's past.                                                     *)
LEMMA FirstWalkCovers ==
  ASSUME NEW bs, NEW n, NEW b, NEW m, WalkCase(bs, n, b, m)
  PROVE  Started(bs, n, b, m, firstWalk(bs, b))
<1>. DEFINE D == 0..n
            k == MaxTipLayerGap + 2
            Q == bs[b].parents \ {m}
            good(w, i) == Sound(bs, b, m, w) /\ Covers(bs, m, w, i) /\ w.nodes = Q
            X == [i \in 0..k |-> {w \in Walk(D) : good(w, i)}]
            s == StartWalk(bs, b)
<1>1. Acyclic(bs, n) /\ Layered(bs, n) /\ b \in D /\ m \in D /\ m \in bs[b].parents /\ m = bs[b].mainParent
  BY DEF WalkCase
<1>2. ClosedUp(bs, D) /\ bs[b].parents \subseteq D
  BY <1>1, ParentsOlder DEF ClosedUp
<1>3. GenesisId \in D /\ GenesisId \in Upto(bs, m)
  <2>1. GenesisId \in Upto(bs, m) /\ Past(bs, m) \subseteq D
    BY <1>1, PastLayers, PastStep
  <2>. QED BY <1>1, <2>1 DEF Upto
<1>4. s.sub = {GenesisId, m} /\ s.nodes = Q /\ s.expanded = {} /\ s \in Walk(D)
  <2>1. s = [sub |-> {GenesisId, m}, nodes |-> Q, expanded |-> {}]
    BY <1>1 DEF StartWalk
  <2>2. Q \subseteq D
    BY <1>2
  <2>. HIDE DEF s, Q, D
  <2>. QED BY <1>1, <1>3, <2>1, <2>2, SMT DEF Walk
<1>5. Sound(bs, b, m, s)
  <2>1. ParentsOf(bs, s.expanded) = {}
    BY <1>4 DEF ParentsOf
  <2>2. Q \subseteq Past(bs, b)
    BY <1>1, PastStep
  <2>. HIDE DEF s, Q
  <2>. QED BY <1>3, <1>4, <2>1, <2>2 DEF Sound, Upto, Q
<1>6. Covers(bs, m, s, 0)
  <2>. SUFFICES ASSUME NEW c \in Upto(bs, m), bs[m].layer <= bs[c].layer + 0 PROVE c = m
    BY <1>4 DEF Covers
  <2>1. SUFFICES ASSUME c \in Past(bs, m) PROVE FALSE
    BY DEF Upto
  <2>2. bs[c].layer < bs[m].layer /\ bs[c].layer \in Nat /\ bs[m].layer \in Nat
    BY <1>1, <2>1, PastLayers, PastStep DEF Layered
  <2>. QED BY <2>2, SMT
<1>7. k \in Nat /\ 0 \in 0..k /\ k \in 0..k
      /\ \A i \in 0..k : i # 0 => i - 1 \in 0..k /\ i - 1 \in Nat /\ (i - 1) + 1 = i
  BY RuleAssumption, SMT
<1>. HIDE DEF s, Q, D
<1>8. s \in X[0] /\ \A i \in 0..k : X[i] \in SUBSET Walk(D)
  BY <1>4, <1>5, <1>6, <1>7
<1>9. ASSUME NEW i \in 0..k, i # 0, NEW w \in X[i - 1] PROVE widenSub(bs, w) \in X[i]
  <2>1. w \in Walk(D) /\ good(w, i - 1) /\ i - 1 \in Nat /\ (i - 1) + 1 = i
    BY <1>7, <1>9
  <2>2. /\ widenSub(bs, w) \in Walk(D) /\ Sound(bs, b, m, widenSub(bs, w))
        /\ widenSub(bs, w).nodes = w.nodes /\ Covers(bs, m, widenSub(bs, w), (i - 1) + 1)
    <3>. DEFINE j == i - 1
    <3>1. w \in Walk(0..n) /\ Sound(bs, b, m, w) /\ Covers(bs, m, w, j) /\ j \in Nat
      BY <2>1 DEF D
    <3>. HIDE DEF j
    <3>2. Widened(bs, n, b, m, w, widenSub(bs, w), j + 1)
      BY <3>1, WidenCovers
    <3>. QED BY <3>2 DEF Widened, j, D
  <2>. QED BY <2>1, <2>2
<1>. HIDE DEF X
<1>10. firstWalk(bs, b) \in X[k]
  BY <1>1, <1>2, <1>8, <1>9, FirstWalkIn DEF s
<1>. QED BY <1>7, <1>10 DEF X, D, Q, Started

(* A set of ids up to n is ordered from the top as well. *)
LEMMA NewerFounded ==
  ASSUME NEW n \in Nat, NEW T \in SUBSET (0..n), T # {}
  PROVE  \E c \in T : \A d \in T : ~(c < d)
<1>. DEFINE U == {n - c : c \in T}
<1>1. U \in SUBSET Nat
  BY SMT
<1>2. U # {}
  OBVIOUS
<1>3. PICK m \in U : \A k \in U : m <= k
  <2>. HIDE DEF U
  <2>. QED BY <1>1, <1>2, LeastNat
<1>4. PICK c \in T : m = n - c
  BY <1>3
<1>5. ASSUME NEW d \in T PROVE ~(c < d)
  <2>1. n - c <= n - d
    BY <1>3, <1>4
  <2>2. c \in 0..n /\ d \in 0..n
    OBVIOUS
  <2>. QED BY <2>1, <2>2, SMT
<1>. QED BY <1>5

(* What inMainSubDag finds in a sound tree is what sub holds of it. *)
LEMMA MainSubIs ==
  ASSUME NEW bs, NEW n, Acyclic(bs, n), NEW b, NEW m, NEW w \in Walk(0..n), Sound(bs, b, m, w)
  PROVE  \A c : c \in inMainSubDag(bs, w) <=> c \in w.nodes /\ c \in w.sub
<1>. DEFINE N == w.nodes
            E == w.expanded
            S == w.sub
            reached[x \in N] == x \in S \/ \E c \in E : x \in bs[c].parents /\ reached[c]
            f == [x \in N |-> x \in S]
<1>1. inMainSubDag(bs, w) = {x \in N : reached[x]}
  BY DEF inMainSubDag
<1>2. E \subseteq N /\ \A c \in E : c \notin S
  BY DEF Sound
<1>3. N \subseteq 0..n /\ n \in Nat
  <2>1. n \in Nat
    BY DEF Acyclic
  <2>. QED BY <2>1, SMT DEF Walk
<1>. HIDE DEF N, E, S
<1>4. f = [x \in N |-> x \in S \/ \E c \in E : x \in bs[c].parents /\ f[c]]
  <2>1. \A x \in N : (x \in S) = (x \in S \/ \E c \in E : x \in bs[c].parents /\ f[c])
    <3>1. \A c \in E : ~f[c]
      BY <1>2
    <3>. HIDE DEF f
    <3>. QED BY <3>1, SMT
  <2>. QED BY <2>1
<1>5. reached = [x \in N |-> x \in S \/ \E c \in E : x \in bs[c].parents /\ reached[c]]
  <2>. HIDE DEF f
  <2>. QED BY <1>4
<1>. HIDE DEF reached, f
<1>6. \A x \in N : reached[x] <=> (x \in S \/ \E c \in E : x \in bs[c].parents /\ reached[c])
  BY <1>5
<1>. DEFINE T == {x \in N : x \notin S /\ reached[x]}
<1>7. T = {}
  <2>1. SUFFICES ASSUME T # {} PROVE FALSE
    OBVIOUS
  <2>2. PICK x \in T : \A y \in T : ~(x < y)
    <3>1. T \in SUBSET (0..n)
      BY <1>3
    <3>. HIDE DEF T
    <3>. QED BY <1>3, <2>1, <3>1, NewerFounded
  <2>3. PICK c \in E : x \in bs[c].parents /\ reached[c]
    BY <1>6, <2>2
  <2>4. c \in T /\ c \in 0..n
    BY <1>2, <1>3, <2>3
  <2>5. x < c
    BY <2>3, <2>4, ParentsOlder
  <2>. QED BY <2>2, <2>4, <2>5
<1>8. \A c : c \in {x \in N : reached[x]} <=> c \in N /\ c \in S
  BY <1>6, <1>7
<1>. QED BY <1>1, <1>8 DEF N, S

(* So its tips are the nodes sub does not hold that are not expanded. *)
LEMMA TreeTipsAre ==
  ASSUME NEW bs, NEW n, Acyclic(bs, n), NEW b, NEW m, NEW w \in Walk(0..n), Sound(bs, b, m, w)
  PROVE  \A c : c \in getTreeTips(bs, w) <=> c \in w.nodes /\ c \notin w.sub /\ c \notin w.expanded
<1>1. \A c : c \in inMainSubDag(bs, w) <=> c \in w.nodes /\ c \in w.sub
  BY MainSubIs
<1>. QED BY <1>1 DEF getTreeTips

Descending(bs, n, b, m, w) ==
  /\ w \in Walk(0..n) /\ Sound(bs, b, m, w)
  /\ \E j \in Nat : Covers(bs, m, w, MaxTipLayerGap + 2 + j) /\ Near(bs, m, w, MaxTipLayerGap + 3 + j)

(* A step of the walk expands no block of the main parent's past. *)
LEMMA DescendSound ==
  ASSUME NEW bs, NEW n, NEW b, NEW m, WalkCase(bs, n, b, m), NEW w, Descending(bs, n, b, m, w)
  PROVE  Descending(bs, n, b, m, Descended(bs, w))
<1>. DEFINE v   == widenSub(bs, w)
            now == getTreeTips(bs, v)
            x   == Descended(bs, w)
            g   == MaxTipLayerGap
            l(c) == bs[c].layer
<1>1. Acyclic(bs, n) /\ Layered(bs, n) /\ b \in 0..n /\ m \in 0..n /\ w \in Walk(0..n) /\ Sound(bs, b, m, w)
  BY DEF WalkCase, Descending
<1>2. PICK j \in Nat : Covers(bs, m, w, g + 2 + j) /\ Near(bs, m, w, g + 3 + j)
  BY DEF Descending
<1>3. /\ g + 2 + j \in Nat /\ g + 2 + j + 1 = g + 3 + j /\ g + 3 + j + 1 = g + 3 + (j + 1)
      /\ g + 3 + j = g + 2 + (j + 1) /\ j + 1 \in Nat /\ g \in Nat
  BY RuleAssumption, SMT
<1>4. Widened(bs, n, b, m, w, v, g + 3 + j)
  <2>. DEFINE i == g + 2 + j
  <2>1. Covers(bs, m, w, i) /\ i \in Nat /\ i + 1 = g + 3 + j
    BY <1>2, <1>3
  <2>. HIDE DEF i
  <2>2. Widened(bs, n, b, m, w, v, i + 1)
    BY <1>1, <2>1, WidenCovers
  <2>. QED BY <2>1, <2>2
<1>. HIDE DEF v
<1>5. /\ v \in Walk(0..n) /\ Sound(bs, b, m, v) /\ v.nodes = w.nodes /\ v.expanded = w.expanded
      /\ Covers(bs, m, v, g + 3 + j)
  BY <1>4 DEF Widened
<1>6. \A c : c \in now <=> c \in w.nodes /\ c \notin v.sub /\ c \notin w.expanded
  <2>1. \A c : c \in getTreeTips(bs, v) <=> c \in v.nodes /\ c \notin v.sub /\ c \notin v.expanded
    BY <1>1, <1>5, TreeTipsAre
  <2>. QED BY <1>5, <2>1
<1>7. x \in Walk(0..n)
  <2>1. ClosedUp(bs, 0..n)
    BY <1>1, ParentsOlder DEF ClosedUp
  <2>. QED BY <1>1, <2>1, DescendType
<1>8. x.sub = v.sub /\ x.nodes = w.nodes \cup ParentsOf(bs, now) /\ x.expanded = w.expanded \cup now
  <2>1. x = [v EXCEPT !.nodes = @ \cup ParentsOf(bs, now), !.expanded = @ \cup now]
    BY DEF Descended, v
  <2>. HIDE DEF x, now
  <2>. QED BY <1>5, <2>1, SMT DEF Walk
<1>. HIDE DEF x, now
<1>9. \A c \in now : c \in Past(bs, b) /\ c \notin Upto(bs, m) /\ l(m) <= l(c) + (g + 3 + j)
  <2>. SUFFICES ASSUME NEW c \in now PROVE c \in Past(bs, b) /\ c \notin Upto(bs, m) /\ l(m) <= l(c) + (g + 3 + j)
    OBVIOUS
  <2>1. c \in w.nodes /\ c \notin v.sub
    BY <1>6
  <2>2. c \in Past(bs, b) /\ l(m) <= l(c) + (g + 3 + j)
    BY <1>1, <1>2, <2>1 DEF Sound, Near
  <2>. QED BY <1>5, <2>1, <2>2 DEF Covers
<1>10. \A p \in ParentsOf(bs, now) : p \in Past(bs, b) /\ l(m) <= l(p) + (g + 3 + (j + 1))
  <2>. SUFFICES ASSUME NEW c \in now, NEW p \in bs[c].parents
                PROVE  p \in Past(bs, b) /\ l(m) <= l(p) + (g + 3 + (j + 1))
    BY InParentsOf
  <2>1. c \in Past(bs, b) /\ c \notin Upto(bs, m) /\ l(m) <= l(c) + (g + 3 + j)
    BY <1>9
  <2>2. c \in 0..n /\ p \in Past(bs, c)
    <3>1. c \in 0..n
      BY <1>1, <2>1, PastStep
    <3>. QED BY <1>1, <3>1, PastStep
  <2>3. p \in Past(bs, b)
    BY <1>1, <2>1, <2>2, PastTransitive
  <2>4. l(c) \in Nat /\ l(p) \in Nat /\ l(m) \in Nat
    <3>1. p \in 0..n
      BY <1>1, <2>3, PastStep
    <3>. QED BY <1>1, <2>2, <3>1 DEF Layered
  <2>5. l(c) <= l(p) + 1 \/ l(m) <= l(p) + g + 3
    BY <2>1 DEF WalkCase
  <2>6. l(m) <= l(p) + (g + 3 + (j + 1))
    <3>. HIDE DEF l
    <3>. QED BY <1>3, <2>1, <2>4, <2>5, SMT
  <2>. QED BY <2>3, <2>6
<1>11. Sound(bs, b, m, x)
  <2>1. \A c \in w.expanded \cup now : c \notin Upto(bs, m) /\ c \in w.nodes
    BY <1>1, <1>6, <1>9 DEF Sound
  <2>2. ParentsOf(bs, w.expanded \cup now) \subseteq w.nodes \cup ParentsOf(bs, now)
    <3>1. \A p \in ParentsOf(bs, w.expanded \cup now) : p \in ParentsOf(bs, w.expanded) \/ p \in ParentsOf(bs, now)
      <4>. DEFINE A == w.expanded
                  B == now
      <4>1. /\ \A p : p \in ParentsOf(bs, A \cup B) <=> \E c \in A \cup B : p \in bs[c].parents
            /\ \A p : p \in ParentsOf(bs, A) <=> \E c \in A : p \in bs[c].parents
            /\ \A p : p \in ParentsOf(bs, B) <=> \E c \in B : p \in bs[c].parents
        BY InParentsOf
      <4>. HIDE DEF A, B
      <4>2. \A p \in ParentsOf(bs, A \cup B) : p \in ParentsOf(bs, A) \/ p \in ParentsOf(bs, B)
        BY <4>1
      <4>. QED BY <4>2 DEF A, B
    <3>. QED BY <1>1, <3>1 DEF Sound
  <2>3. v.sub \subseteq Upto(bs, m) /\ bs[b].parents \ {m} \subseteq w.nodes /\ w.nodes \subseteq Past(bs, b)
    BY <1>1, <1>5 DEF Sound
  <2>. QED BY <1>8, <1>10, <2>1, <2>2, <2>3 DEF Sound
<1>12. Covers(bs, m, x, g + 2 + (j + 1))
  BY <1>3, <1>5, <1>8 DEF Covers
<1>13. Near(bs, m, x, g + 3 + (j + 1))
  <2>1. ASSUME NEW c \in w.nodes PROVE l(m) <= l(c) + (g + 3 + (j + 1))
    <3>1. l(m) <= l(c) + (g + 3 + j)
      BY <1>2 DEF Near
    <3>2. l(c) \in Nat /\ l(m) \in Nat
      <4>1. c \in 0..n
        BY <1>1, PastStep DEF Sound
      <4>. QED BY <1>1, <4>1 DEF Layered
    <3>. HIDE DEF l
    <3>. QED BY <1>3, <3>1, <3>2, SMT
  <2>. QED BY <1>8, <1>10, <2>1 DEF Near
<1>14. Descending(bs, n, b, m, x)
  BY <1>3, <1>7, <1>11, <1>12, <1>13 DEF Descending
<1>. QED BY <1>14 DEF x

Found(bs, b, m) == getDiffAnticone(bs, b) = Past(bs, b) \ Upto(bs, m)

(* Where every block b brings in has its parents close enough, the walk    *)
(* finds exactly the blocks of b's past outside the main parent's.         *)
LEMMA DiffAnticoneFound ==
  ASSUME NEW bs, NEW n, NEW b, NEW m, WalkCase(bs, n, b, m)
  PROVE  Found(bs, b, m)
<1>. DEFINE first == firstWalk(bs, b)
            last  == lastWalk(bs, first)
            Q     == bs[b].parents \ {m}
            X     == {w \in Walk(0..n) : Descending(bs, n, b, m, w)}
            A     == Past(bs, b) \ Upto(bs, m)
<1>1. /\ Acyclic(bs, n) /\ Layered(bs, n) /\ b \in 0..n /\ m \in 0..n /\ m \in bs[b].parents
      /\ m = bs[b].mainParent /\ \A q \in bs[b].parents : q \notin Past(bs, m)
  BY DEF WalkCase
<1>2. n \in Nat /\ DOMAIN bs = 0..n /\ IsFiniteSet(0..n) /\ ClosedUp(bs, 0..n)
  <2>1. n \in Nat /\ DOMAIN bs = 0..n
    BY <1>1 DEF Acyclic
  <2>2. ClosedUp(bs, 0..n)
    BY <1>1, ParentsOlder DEF ClosedUp
  <2>3. 0 \in Int /\ n \in Int
    BY <2>1, SMT
  <2>. QED BY <2>1, <2>2, <2>3, FS_Interval
<1>3. bs[b].parents \subseteq Past(bs, b) /\ Past(bs, b) \subseteq 0..n
  BY <1>1, PastStep
<1>4. first \in X
  <2>0. Started(bs, n, b, m, first)
    BY FirstWalkCovers
  <2>. HIDE DEF first
  <2>1. first \in Walk(0..n) /\ Sound(bs, b, m, first) /\ first.nodes = Q
    BY <2>0 DEF Started
  <2>2. Covers(bs, m, first, MaxTipLayerGap + 2)
    BY <2>0 DEF Started
  <2>3. Near(bs, m, first, MaxTipLayerGap + 3 + 0)
    <3>. SUFFICES ASSUME NEW q \in Q PROVE bs[m].layer <= bs[q].layer + (MaxTipLayerGap + 3 + 0)
      BY <2>1 DEF Near
    <3>1. bs[m].layer <= bs[q].layer + MaxTipLayerGap
      BY DEF WalkCase
    <3>2. bs[m].layer \in Nat /\ bs[q].layer \in Nat
      BY <1>1, <1>3 DEF Layered
    <3>. QED BY <3>1, <3>2, RuleAssumption, SMT
  <2>4. MaxTipLayerGap + 2 + 0 = MaxTipLayerGap + 2 /\ 0 \in Nat
    BY RuleAssumption, SMT
  <2>. QED BY <2>1, <2>2, <2>3, <2>4 DEF Descending
<1>5. last \in X /\ getTreeTips(bs, last) = {}
  <2>1. X \in SUBSET Walk(DOMAIN bs) /\ IsFiniteSet(DOMAIN bs) /\ ClosedUp(bs, DOMAIN bs)
    BY <1>2
  <2>2. \A w \in X : Descended(bs, w) \in X
    BY DescendSound DEF Descending
  <2>. HIDE DEF X, first
  <2>. QED BY <1>4, <2>1, <2>2, LastWalkIn
<1>. HIDE DEF last
<1>6. last \in Walk(0..n) /\ Sound(bs, b, m, last)
  BY <1>5 DEF Descending
<1>7. \A c : c \in inMainSubDag(bs, last) <=> c \in last.nodes /\ c \in last.sub
  BY <1>1, <1>6, MainSubIs
<1>8. \A c \in last.nodes : c \in last.sub \/ c \in last.expanded
  <2>1. \A c : c \in getTreeTips(bs, last) <=> c \in last.nodes /\ c \notin last.sub /\ c \notin last.expanded
    BY <1>1, <1>6, TreeTipsAre
  <2>. QED BY <1>5, <2>1
<1>9. A \subseteq last.expanded
  <2>. DEFINE T == {x \in A : x \notin last.expanded}
  <2>1. SUFFICES ASSUME T # {} PROVE FALSE
    OBVIOUS
  <2>2. PICK x \in T : \A y \in T : ~(x < y)
    <3>1. T \in SUBSET (0..n)
      BY <1>3
    <3>. HIDE DEF T
    <3>. QED BY <1>2, <2>1, <3>1, NewerFounded
  <2>3. x \in Past(bs, b) /\ x \notin Upto(bs, m) /\ x \notin last.expanded
    BY <2>2
  <2>4. PICK d \in Upto(bs, b) : x \in bs[d].parents
    BY <1>1, <2>3, PastOlder
  <2>5. x \in last.nodes
    <3>1. CASE d = b
      <4>1. x # m
        BY <2>3 DEF Upto
      <4>. QED BY <1>6, <2>4, <3>1, <4>1 DEF Sound
    <3>2. CASE d # b
      <4>1. d \in Past(bs, b) /\ d \in 0..n
        BY <1>3, <3>2 DEF Upto
      <4>2. d \notin Upto(bs, m)
        <5>1. x \in Past(bs, d)
          BY <1>1, <2>4, <4>1, PastStep
        <5>2. d = m => x \in Past(bs, m)
          BY <5>1
        <5>3. d \in Past(bs, m) => x \in Past(bs, m)
          BY <1>1, <5>1, PastTransitive
        <5>. QED BY <2>3, <5>2, <5>3 DEF Upto
      <4>3. x < d
        BY <1>1, <2>4, <4>1, ParentsOlder
      <4>4. d \in last.expanded
        BY <2>2, <4>1, <4>2, <4>3
      <4>5. x \in ParentsOf(bs, last.expanded)
        BY <2>4, <4>4, InParentsOf
      <4>. QED BY <1>6, <4>5 DEF Sound
    <3>. QED BY <3>1, <3>2
  <2>. QED BY <1>6, <1>8, <2>3, <2>5 DEF Sound
<1>10. Q \subseteq A
  BY <1>1, <1>3 DEF Upto
<1>11. \A c : c \in Q \cup (last.nodes \ inMainSubDag(bs, last)) <=> c \in A
  <2>1. \A c : c \in last.nodes \ inMainSubDag(bs, last) => c \in A
    <3>1. \A c \in last.expanded : c \in Past(bs, b) /\ c \notin Upto(bs, m)
      BY <1>6 DEF Sound
    <3>. QED BY <1>7, <1>8, <3>1
  <2>2. \A c \in A : c \in last.nodes /\ c \notin inMainSubDag(bs, last)
    <3>1. \A c \in last.expanded : c \in last.nodes
      BY <1>6 DEF Sound
    <3>2. \A c \in A : c \notin last.sub
      BY <1>6 DEF Sound
    <3>. QED BY <1>7, <1>9, <3>1, <3>2
  <2>. QED BY <1>10, <2>1, <2>2
<1>12. CASE Cardinality(bs[b].parents) <= 1
  <2>1. bs[b].parents = {m}
    <3>. DEFINE P == bs[b].parents
    <3>1. IsFiniteSet(P) /\ {m} \in SUBSET P
      <4>1. P \in SUBSET (0..n)
        BY <1>3
      <4>. QED BY <1>1, <1>2, <4>1, FS_Subset
    <3>. HIDE DEF P
    <3>2. Cardinality({m}) <= Cardinality(P) /\ (Cardinality({m}) = Cardinality(P) => {m} = P)
      BY <3>1, FS_Subset
    <3>3. Cardinality({m}) = 1 /\ Cardinality(P) \in Nat
      BY <3>1, FS_Singleton, FS_CardinalityType
    <3>4. Cardinality(P) <= 1
      BY <1>12 DEF P
    <3>5. Cardinality({m}) = Cardinality(P)
      BY <3>2, <3>3, <3>4, SMT
    <3>. QED BY <3>2, <3>5 DEF P
  <2>2. \A c : c \notin A
    <3>1. \A c : c \in Past(bs, b) => c \in {m} \/ \E p \in {m} : c \in Past(bs, p)
      BY <1>1, <2>1, PastStep
    <3>. QED BY <3>1 DEF Upto
  <2>. QED BY <1>12, <2>2 DEF getDiffAnticone, Found
<1>13. CASE ~(Cardinality(bs[b].parents) <= 1)
  <2>1. getDiffAnticone(bs, b) = Q \cup (last.nodes \ inMainSubDag(bs, last))
    BY <1>1, <1>13 DEF getDiffAnticone, last
  <2>. DEFINE B == Q \cup (last.nodes \ inMainSubDag(bs, last))
  <2>2. \A c : c \in B <=> c \in A
    BY <1>11
  <2>. HIDE DEF A, B
  <2>3. B = A
    BY <2>2
  <2>. QED BY <2>1, <2>3 DEF A, B, Found
<1>. QED BY <1>12, <1>13 DEF Found

=============================================================================
