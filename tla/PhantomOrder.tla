---------------------------- MODULE PhantomOrder ----------------------------
(***************************************************************************)
(* The total order is right whenever the diff anticones are.               *)
(***************************************************************************)
EXTENDS PhantomLists

(* The leaves below are for Zenon, but for those that name another prover. *)
USE Zenon

-----------------------------------------------------------------------------
(* The diff anticone of the new block. *)

(* bs has blocks with their diff anticones and orders. *)
KeepsBodies(bs) ==
  \A c \in DOMAIN blocks :
    /\ bs[c].blue = blocks[c].blue /\ bs[c].red = blocks[c].red
    /\ bs[c].diffOrder = blocks[c].diffOrder /\ bs[c].order = blocks[c].order

(* bs is cs with block b's diff anticone put in order. *)
OrderedFrom(bs, cs, b) ==
  /\ DOMAIN cs = DOMAIN bs
  /\ \A c \in DOMAIN bs :
       cs[c].parents = bs[c].parents /\ cs[c].children = bs[c].children /\ cs[c].hash = bs[c].hash
  /\ cs[b].blue = bs[b].blue /\ cs[b].red = bs[b].red
  /\ bs[b].diffOrder = getDiffAnticoneOrder(cs, b)

(* linkBlock writes children and a new block. *)
LEMMA LinkBlockBodies ==
  ASSUME LinkInv, HasBodies(blocks), NEW ps, NEW h
  PROVE  HasBodies(linkBlock(ps, h)) /\ KeepsBodies(linkBlock(ps, h))
<1>. DEFINE bs == linkBlock(ps, h)
            n  == blockTotal
<1>1. DOMAIN bs = 0..n
  BY SMT DEF linkBlock
<1>2. n \in Nat /\ n \in DOMAIN bs
  BY <1>1, SMT DEF LinkInv
<1>3. bs[n] = Block(h, ps, maxLayer(ps) + 1)
  BY <1>2, SMT DEF linkBlock
<1>4. BodyFields \subseteq DOMAIN bs[n]
  BY <1>3, SMT DEF Block, BodyFields
<1>5. ASSUME NEW b \in DOMAIN blocks
      PROVE  /\ bs[b].blue = blocks[b].blue /\ bs[b].red = blocks[b].red
             /\ bs[b].diffOrder = blocks[b].diffOrder /\ bs[b].order = blocks[b].order
             /\ BodyFields \subseteq DOMAIN bs[b]
  <2>1. b \in 0..n /\ b # n
    BY SMT DEF LinkInv
  <2>2. bs[b] = [blocks[b] EXCEPT !.children = IF b \in ps THEN @ \cup {n} ELSE @]
    BY <2>1, SMT DEF linkBlock
  <2>3. BodyFields \subseteq DOMAIN blocks[b]
    BY DEF HasBodies
  <2>. QED BY <2>2, <2>3, SMT DEF BodyFields
<1>6. \A b \in DOMAIN bs : b = n \/ b \in DOMAIN blocks
  BY <1>1, SMT DEF LinkInv
<1>. HIDE DEF bs
<1>. QED BY <1>4, <1>5, <1>6 DEF HasBodies, KeepsBodies, bs

(* updateBlockColor writes one block and splits its diff anticone. *)
LEMMA UpdateBlockColorBodies ==
  ASSUME NEW bs, HasBodies(bs), NEW b \in DOMAIN bs
  PROVE  LET cs == updateBlockColor(bs, b)
         IN  /\ HasBodies(cs) /\ DOMAIN cs = DOMAIN bs
             /\ \A c \in DOMAIN bs \ {b} : cs[c] = bs[c]
             /\ cs[b].blue \cap cs[b].red = {}
<1>. DEFINE tp   == getBluest(bs, bs[b].parents)
            h    == bs[tp].height + 1
            set  == [bs EXCEPT ![b].mainParent = tp, ![b].height = h]
            diff == getDiffAnticone(set, b)
            blue == {c \in diff : coloringRule(set, getKChain(set, b), c)}
            n    == bs[tp].blueNum + 1 + Cardinality(blue)
            red  == diff \ blue
            cs   == [set EXCEPT ![b].blueNum = n, ![b].blue = blue, ![b].red = red]
<1>1. updateBlockColor(bs, b) = cs
  BY SMT DEF updateBlockColor
<1>2. blue \cap red = {}
  <2>. HIDE DEF blue
  <2>. QED OBVIOUS
<1>. HIDE DEF tp, diff, blue, n, red, h
<1>3. /\ DOMAIN set = DOMAIN bs /\ BodyFields \subseteq DOMAIN set[b]
      /\ \A c \in DOMAIN bs \ {b} : set[c] = bs[c]
  BY SMT DEF HasBodies, BodyFields
<1>. HIDE DEF set
<1>4. /\ DOMAIN cs = DOMAIN bs /\ BodyFields \subseteq DOMAIN cs[b]
      /\ \A c \in DOMAIN bs \ {b} : cs[c] = bs[c]
      /\ cs[b].blue = blue /\ cs[b].red = red
  BY <1>3, SMT DEF BodyFields
<1>. HIDE DEF cs
<1>5. HasBodies(cs)
  BY <1>4 DEF HasBodies
<1>. QED BY <1>1, <1>2, <1>4, <1>5

(* What AddBlock writes before it looks at the main chain. *)
LEMMA ColouredBodies ==
  ASSUME LinkInv, HasColours(blocks), HasBodies(blocks), NEW ps \in SUBSET DOMAIN blocks, ps # {}, NEW h
  PROVE  LET bs == coloured(ps, h)
         IN  /\ HasBodies(bs) /\ KeepsBodies(bs)
             /\ bs[blockTotal].blue \cap bs[blockTotal].red = {}
             /\ \E cs : OrderedFrom(bs, cs, blockTotal)
<1>. DEFINE n == blockTotal
            l == linkBlock(ps, h)
            cs == updateBlockColor(l, n)
            bs == updateBlockOrder(cs, n)
            o == getDiffAnticoneOrder(cs, n)
<1>1. HasBodies(l) /\ KeepsBodies(l)
  BY LinkBlockBodies
<1>2. HasLinks(l) /\ DOMAIN l = 0..n
  BY LinkBlockLinks DEF Linked
<1>3. HasColours(l)
  BY LinkBlockColours
<1>4. n \in DOMAIN l /\ \A c \in DOMAIN blocks : c \in DOMAIN l \ {n}
  BY <1>2, SMT DEF LinkInv
<1>. HIDE DEF l
<1>5. /\ HasBodies(cs) /\ DOMAIN cs = DOMAIN l
      /\ \A c \in DOMAIN l \ {n} : cs[c] = l[c]
      /\ cs[n].blue \cap cs[n].red = {}
  BY <1>1, <1>4, UpdateBlockColorBodies
<1>6. coloured(ps, h) = [cs EXCEPT ![n].diffOrder = o]
  BY DEF coloured, updateBlockOrder, l
<1>7. HasLinks(cs)
  <2>1. SameLinks(l, cs)
    BY <1>2, <1>4, UpdateBlockColorLinks
  <2>. QED BY <2>1, SameLinksHasLinks
<1>8. "hash" \in DOMAIN cs[n]
  <2>1. "hash" \in DOMAIN l[n]
    BY <1>3, <1>4 DEF HasColours, ColourFields
  <2>. DEFINE tp   == getBluest(l, l[n].parents)
              ht   == l[tp].height + 1
              set  == [l EXCEPT ![n].mainParent = tp, ![n].height = ht]
              diff == getDiffAnticone(set, n)
              blue == {c \in diff : coloringRule(set, getKChain(set, n), c)}
              num  == l[tp].blueNum + 1 + Cardinality(blue)
              red  == diff \ blue
  <2>2. cs = [set EXCEPT ![n].blueNum = num, ![n].blue = blue, ![n].red = red]
    BY SMT DEF updateBlockColor
  <2>. HIDE DEF tp, diff, blue, num, red, ht
  <2>3. "hash" \in DOMAIN set[n] /\ n \in DOMAIN set
    BY <1>4, <2>1, SMT
  <2>. HIDE DEF set
  <2>. QED BY <2>2, <2>3, SMT
<1>. HIDE DEF cs, o
<1>. DEFINE ds == [cs EXCEPT ![n].diffOrder = o]
<1>9. /\ DOMAIN ds = DOMAIN cs
      /\ \A c \in DOMAIN cs \ {n} : ds[c] = cs[c]
      /\ BodyFields \subseteq DOMAIN ds[n]
      /\ ds[n].diffOrder = o /\ ds[n].blue = cs[n].blue /\ ds[n].red = cs[n].red
      /\ ds[n].parents = cs[n].parents /\ ds[n].children = cs[n].children /\ ds[n].hash = cs[n].hash
  BY <1>4, <1>5, <1>7, <1>8, SMT DEF HasBodies, BodyFields, HasLinks, LinkFields
<1>. HIDE DEF ds
<1>10. HasBodies(ds)
  BY <1>5, <1>9 DEF HasBodies
<1>11. KeepsBodies(ds)
  <2>1. \A c \in DOMAIN blocks : ds[c] = l[c]
    BY <1>4, <1>5, <1>9
  <2>. QED BY <1>1, <2>1 DEF KeepsBodies
<1>12. OrderedFrom(ds, cs, n)
  BY <1>9 DEF OrderedFrom, o
<1>. QED BY <1>5, <1>6, <1>9, <1>10, <1>11, <1>12 DEF ds

-----------------------------------------------------------------------------
(* What a list says depends on the parents alone. *)

(* cs is bs with, perhaps, newer blocks. *)
Grown(bs, m, cs, n) ==
  /\ Acyclic(bs, m) /\ Acyclic(cs, n) /\ m <= n
  /\ \A c \in 0..m : cs[c].parents = bs[c].parents

(* A list of blocks in topological order remains one. *)
LEMMA ListsSame ==
  ASSUME NEW bs, NEW cs, NEW s, NEW A, NEW B, Lists(bs, s, A, B),
         \A c \in B : cs[c].parents = bs[c].parents
  PROVE  Lists(cs, s, A, B)
<1>1. s \in Seq(B)
  BY DEF Lists
<1>2. \A i \in 1..Len(s) : s[i] \in B
  BY <1>1, SMT
<1>3. \A i \in 1..Len(s) : cs[s[i]].parents = bs[s[i]].parents
  BY <1>2
<1>. QED BY <1>3 DEF Lists

SamePasts(bs, m, cs) ==
  \A c \in 0..m :
    /\ Past(cs, c) = Past(bs, c) /\ Upto(cs, c) = Upto(bs, c)
    /\ Past(bs, c) \subseteq 0..m /\ Upto(bs, c) \subseteq 0..m

(* The past of an old block is what it was. *)
LEMMA GrownPast ==
  ASSUME NEW bs, NEW m, NEW cs, NEW n, Grown(bs, m, cs, n)
  PROVE  SamePasts(bs, m, cs)
<1>1. Acyclic(bs, m) /\ Acyclic(cs, n) /\ m <= n /\ \A c \in 0..m : cs[c].parents = bs[c].parents
  BY DEF Grown
<1>2. \A d \in 0..m : Past(cs, d) = Past(bs, d) /\ Upto(cs, d) = Upto(bs, d)
  BY <1>1, PastSame, SMT
<1>3. \A c \in 0..m : Past(bs, c) \subseteq 0..m
  BY <1>1, PastStep
<1>. QED BY <1>2, <1>3 DEF SamePasts, Upto

(* So is a list of it. *)
LEMMA GrownLinear ==
  ASSUME NEW bs, NEW m, NEW cs, NEW n, Grown(bs, m, cs, n), NEW c \in 0..m, NEW u, NEW A, Linear(bs, u, A, c)
  PROVE  Linear(cs, u, A, c)
<1>. SamePasts(bs, m, cs)
  BY GrownPast
<1>1. Upto(cs, c) = Upto(bs, c) /\ Upto(bs, c) \subseteq 0..m
  BY DEF SamePasts
<1>2. \A d \in Upto(bs, c) : cs[d].parents = bs[d].parents
  BY <1>1 DEF Grown
<1>3. Lists(cs, u, A, Upto(bs, c))
  BY <1>2, ListsSame DEF Linear
<1>. QED BY <1>1, <1>3 DEF Linear

(* The prefixes a main chain has listed are the same. *)
LEMMA GrownStacked ==
  ASSUME NEW bs, NEW m, NEW cs, NEW n, Grown(bs, m, cs, n), NEW M \in SUBSET (0..m), NEW s, Stacked(bs, M, s)
  PROVE  Stacked(cs, M, s)
<1>. SUFFICES ASSUME NEW c \in M PROVE \E u : Linear(cs, u, {}, c) /\ Begins(u, s)
  BY DEF Stacked
<1>1. PICK u : Linear(bs, u, {}, c) /\ Begins(u, s)
  BY DEF Stacked
<1>2. c \in 0..m
  OBVIOUS
<1>. QED BY <1>1, <1>2, GrownLinear

(* Diff anticones listed in order are listed in order. *)
LEMMA GrownOrdered ==
  ASSUME NEW bs, NEW m, NEW cs, NEW n, Grown(bs, m, cs, n), Ordered(bs, m),
         \A c \in (0..m) \ {GenesisId} : cs[c].mainParent = bs[c].mainParent /\ cs[c].diffOrder = bs[c].diffOrder
  PROVE  Ordered(cs, m)
<1>. SUFFICES ASSUME NEW b \in (0..m) \ {GenesisId}
              PROVE  /\ cs[b].mainParent \in cs[b].parents
                     /\ Lists(cs, cs[b].diffOrder, Upto(cs, cs[b].mainParent), Past(cs, b))
  BY DEF Ordered
<1>. DEFINE p == bs[b].mainParent
<1>1. p \in bs[b].parents /\ Lists(bs, bs[b].diffOrder, Upto(bs, p), Past(bs, b))
  BY DEF Ordered
<1>2. cs[b].mainParent = p /\ cs[b].diffOrder = bs[b].diffOrder /\ cs[b].parents = bs[b].parents
  BY DEF Grown
<1>3. p \in 0..m
  BY <1>1, ParentsOlder DEF Grown
<1>. SamePasts(bs, m, cs)
  BY GrownPast
<1>4. Upto(cs, p) = Upto(bs, p)
  BY <1>3 DEF SamePasts
<1>5. Past(cs, b) = Past(bs, b) /\ Past(bs, b) \subseteq 0..m
  BY DEF SamePasts
<1>6. \A d \in Past(bs, b) : cs[d].parents = bs[d].parents
  BY <1>5 DEF Grown
<1>7. Lists(cs, bs[b].diffOrder, Upto(bs, p), Past(bs, b))
  BY <1>1, <1>6, ListsSame
<1>. HIDE DEF p
<1>. QED BY <1>1, <1>2, <1>4, <1>5, <1>7

-----------------------------------------------------------------------------
(* The invariant. *)

(* The bounded walk of getDiffAnticone missed nothing and went nowhere     *)
(* below the main parent.                                                  *)
Exact(bs, n) ==
  \A b \in (0..n) \ {GenesisId} : bs[b].blue \cup bs[b].red = Past(bs, b) \ Upto(bs, bs[b].mainParent)

Split(bs, n) == \A b \in (0..n) \ {GenesisId} : bs[b].blue \cap bs[b].red = {}

(* s lists t and its past in the order os and the blocks record, and each  *)
(* block of the main chain M ends a prefix of it that lists its own past.  *)
Arranged(bs, n, t, M, s, os) ==
  /\ HasBodies(bs) /\ Ordered(bs, n) /\ Split(bs, n)
  /\ Linear(bs, s, {}, t) /\ Stacked(bs, M, s) /\ Numbered(bs, s, os)

NoOrder(bs, U) == \A c \in U : bs[c].order = MaxBlockOrder

OrderInv ==
  /\ MainInv
  /\ Arranged(blocks, blockTotal - 1, mainTip, mainChain, chain, orderIds)
  /\ diffAnticone = DOMAIN blocks \ Upto(blocks, mainTip)
  /\ NoOrder(blocks, diffAnticone)

(* The links of the invariant are acyclic. *)
LEMMA LinksAcyclic ==
  ASSUME LinkInv
  PROVE  Acyclic(blocks, blockTotal - 1) /\ DOMAIN blocks = 0..(blockTotal - 1)
<1>1. blockTotal - 1 \in Nat /\ DOMAIN blocks = 0..(blockTotal - 1)
  BY SMT DEF LinkInv
<1>2. \A c \in DOMAIN blocks :
        /\ blocks[c].parents \subseteq 0..(c - 1)
        /\ blocks[c].children = {d \in DOMAIN blocks : c \in blocks[d].parents}
  BY DEF LinkInv, LinksConsistent
<1>. QED BY <1>1, <1>2 DEF Acyclic

(* The links of a block being added are acyclic, before and after its      *)
(* diff anticone is ordered.                                               *)
LEMMA ColouredAcyclic ==
  ASSUME LinkInv, NEW ps \in SUBSET DOMAIN blocks, ps # {}, NEW h, AddBlock(ps, h),
         NEW bs, DOMAIN bs = 0..blockTotal, SameLinks(linkBlock(ps, h), bs)
  PROVE  /\ Acyclic(bs, blockTotal) /\ bs[blockTotal].parents = ps
         /\ Grown(blocks, blockTotal - 1, bs, blockTotal)
<1>. DEFINE n == blockTotal
            l == linkBlock(ps, h)
<1>1. n \in Nat /\ n - 1 \in Nat /\ n - 1 <= n /\ n - 1 + 1 = n /\ n \in 0..n
  BY SMT DEF LinkInv
<1>2. LinkInv' /\ blockTotal' = n + 1
  BY LinkInvAddBlock DEF AddBlock
<1>3. blockTotal' - 1 = n
  BY <1>1, <1>2, SMT
<1>4. SameLinks(l, blocks')
  BY AddBlockLinks
<1>5. Acyclic(blocks, n - 1) /\ DOMAIN blocks = 0..(n - 1)
  BY LinksAcyclic
<1>6. \A c \in DOMAIN blocks' :
        /\ (blocks')[c].parents \subseteq 0..(c - 1)
        /\ (blocks')[c].children = {d \in DOMAIN blocks' : c \in (blocks')[d].parents}
  BY <1>2 DEF LinkInv, LinksConsistent
<1>7. DOMAIN l = DOMAIN bs /\ DOMAIN blocks' = 0..n
  BY <1>4 DEF SameLinks
<1>8. \A c \in 0..n : bs[c].parents = (blocks')[c].parents /\ bs[c].children = (blocks')[c].children
  <2>1. \A c \in DOMAIN l : bs[c].parents = l[c].parents /\ bs[c].children = l[c].children
    BY DEF SameLinks
  <2>2. \A c \in DOMAIN l : (blocks')[c].parents = l[c].parents /\ (blocks')[c].children = l[c].children
    BY <1>4 DEF SameLinks
  <2>. QED BY <1>7, <2>1, <2>2
<1>9. Acyclic(bs, n)
  <2>. SUFFICES ASSUME NEW c \in 0..n
                PROVE  /\ bs[c].parents \subseteq 0..(c - 1)
                       /\ bs[c].children = {d \in 0..n : c \in bs[d].parents}
    BY <1>1 DEF Acyclic
  <2>1. (blocks')[c].children = {d \in 0..n : c \in (blocks')[d].parents}
    BY <1>6, <1>7
  <2>2. (blocks')[c].parents \subseteq 0..(c - 1)
    BY <1>6, <1>7
  <2>. QED BY <1>8, <2>1, <2>2
<1>10. Linked(l, ps)
  BY LinkBlockLinks
<1>11. bs[n].parents = ps
  BY <1>1, <1>7, <1>10 DEF Linked, SameLinks
<1>12. \A c \in 0..(n - 1) : bs[c].parents = blocks[c].parents
  <2>1. \A c \in DOMAIN blocks : l[c].parents = blocks[c].parents
    BY <1>10 DEF Linked
  <2>2. \A c \in 0..(n - 1) : c \in 0..n
    BY <1>1, SMT
  <2>. QED BY <1>5, <1>7, <2>1, <2>2 DEF SameLinks
<1>. QED BY <1>1, <1>5, <1>9, <1>11, <1>12 DEF Grown

(* The DAG AddBlock has coloured, with the order it had before: what the   *)
(* decision about the main tip starts from.                                *)
Prepared(bs, n) ==
  /\ Acyclic(bs, n) /\ Grown(blocks, n - 1, bs, n)
  /\ Chained(bs, n) /\ Ranked(bs, 0..n)
  /\ mainTip \in 0..(n - 1) /\ mainChain \in SUBSET (0..(n - 1)) /\ n \notin Upto(bs, mainTip)
  /\ Upto(bs, mainTip) = Upto(blocks, mainTip)
  /\ ChainOf(bs, mainChain, mainTip)
  /\ Arranged(bs, n, mainTip, mainChain, chain, orderIds)
  /\ NoOrder(bs, (0..(n - 1)) \ Upto(bs, mainTip))

(* Colouring and ordering the new block leave the links alone. *)
LEMMA ColouredLinks ==
  ASSUME LinkInv, NEW ps \in SUBSET DOMAIN blocks, ps # {}, NEW h
  PROVE  SameLinks(linkBlock(ps, h), coloured(ps, h)) /\ DOMAIN coloured(ps, h) = 0..blockTotal
<1>. DEFINE n == blockTotal
            l == linkBlock(ps, h)
            cs == updateBlockColor(l, n)
<1>1. HasLinks(l) /\ DOMAIN l = 0..n
  BY LinkBlockLinks DEF Linked
<1>2. n \in 0..n
  BY SMT DEF LinkInv
<1>. HIDE DEF l
<1>3. SameLinks(l, cs)
  BY <1>1, <1>2, UpdateBlockColorLinks
<1>4. HasLinks(cs) /\ n \in DOMAIN cs
  <2>1. HasLinks(cs)
    BY <1>3, SameLinksHasLinks
  <2>. QED BY <1>1, <1>2, <1>3, <2>1 DEF SameLinks
<1>. HIDE DEF cs
<1>5. SameLinks(cs, updateBlockOrder(cs, n))
  BY <1>4, UpdateBlockOrderLinks
<1>6. coloured(ps, h) = updateBlockOrder(cs, n)
  BY DEF coloured, cs, l
<1>7. SameLinks(l, coloured(ps, h))
  BY <1>3, <1>5, <1>6, SameLinksTransitive
<1>. QED BY <1>1, <1>7 DEF SameLinks, l

(* The diff anticone of the new block is listed in order. *)
LEMMA NewBlockOrdered ==
  ASSUME NEW bs, NEW n, Acyclic(bs, n), Ranked(bs, 0..n), NEW b \in 0..n, NEW m \in bs[b].parents,
         bs[b].blue \cup bs[b].red = Past(bs, b) \ Upto(bs, m), NEW cs, OrderedFrom(bs, cs, b)
  PROVE  Lists(bs, bs[b].diffOrder, Upto(bs, m), Past(bs, b))
<1>1. n \in Nat /\ n <= n /\ DOMAIN bs = 0..n
  BY SMT DEF Acyclic
<1>2. DOMAIN cs = 0..n
  BY <1>1 DEF OrderedFrom
<1>3. \A c \in 0..n : cs[c].parents = bs[c].parents /\ cs[c].children = bs[c].children /\ cs[c].hash = bs[c].hash
  BY <1>1 DEF OrderedFrom
<1>4. Acyclic(cs, n)
  <2>. SUFFICES ASSUME NEW c \in 0..n
                PROVE  /\ cs[c].parents \subseteq 0..(c - 1)
                       /\ cs[c].children = {d \in 0..n : c \in cs[d].parents}
    BY <1>1, <1>2 DEF Acyclic
  <2>1. bs[c].parents \subseteq 0..(c - 1) /\ bs[c].children = {d \in 0..n : c \in bs[d].parents}
    BY DEF Acyclic
  <2>. QED BY <1>3, <2>1
<1>5. Grown(bs, n, cs, n)
  BY <1>1, <1>3, <1>4 DEF Grown
<1>6. SamePasts(bs, n, cs)
  BY <1>5, GrownPast
<1>7. m \in 0..n
  BY ParentsOlder
<1>8. Past(cs, b) = Past(bs, b) /\ Upto(cs, m) = Upto(bs, m) /\ Past(bs, b) \subseteq 0..n
  BY <1>6, <1>7 DEF SamePasts
<1>9. Hashed(cs, 0..n)
  <2>1. IsFiniteSet(0..n)
    BY <1>1, FS_Interval, SMT
  <2>2. \A c \in 0..n : cs[c].hash \in Nat
    BY <1>3 DEF Ranked
  <2>3. \A c, d \in 0..n : cs[c].hash = cs[d].hash => c = d
    <3>1. \A c, d \in 0..n : bs[c].hash = bs[d].hash => c = d
      BY DEF Ranked
    <3>. QED BY <1>3, <3>1
  <2>. QED BY <2>1, <2>2, <2>3 DEF Hashed
<1>10. cs[b].blue \cup cs[b].red = Past(cs, b) \ Upto(cs, m)
  BY <1>8 DEF OrderedFrom
<1>11. m \in cs[b].parents
  BY <1>3
<1>12. Lists(cs, getDiffAnticoneOrder(cs, b), Upto(cs, m), Past(cs, b))
  BY <1>4, <1>9, <1>10, <1>11, DiffOrderLists
<1>13. Lists(cs, bs[b].diffOrder, Upto(bs, m), Past(bs, b))
  BY <1>8, <1>12 DEF OrderedFrom
<1>14. \A c \in Past(bs, b) : bs[c].parents = cs[c].parents
  BY <1>3, <1>8
<1>. QED BY <1>13, <1>14, ListsSame

(* The new DAG still has everything in order. *)
LEMMA PreparedDag ==
  ASSUME OrderInv, NEW ps \in SUBSET DOMAIN blocks, ps # {}, NEW h \in Hashes, Fresh(h), AddBlock(ps, h),
         Exact(coloured(ps, h), blockTotal)
  PROVE  Prepared(coloured(ps, h), blockTotal)
<1>. DEFINE n  == blockTotal
            bs == coloured(ps, h)
<1>1. MainInv /\ LinkInv /\ ColourInv /\ HasColours(blocks) /\ HasBodies(blocks)
  BY DEF OrderInv, MainInv, ColourInv, Arranged
<1>2. h \in Nat
  BY BlockAssumption
<1>3. /\ HasColours(bs) /\ Extends(bs) /\ Chained(bs, n) /\ Ranked(bs, 0..n) /\ OnBluest(bs, ps)
  BY <1>1, <1>2, ColouredFacts
<1>4. /\ HasBodies(bs) /\ KeepsBodies(bs) /\ bs[n].blue \cap bs[n].red = {}
      /\ \E cs : OrderedFrom(bs, cs, n)
  BY <1>1, ColouredBodies
<1>5. SameLinks(linkBlock(ps, h), bs) /\ DOMAIN bs = 0..n
  BY <1>1, ColouredLinks
<1>. HIDE DEF bs
<1>6. Acyclic(bs, n) /\ bs[n].parents = ps /\ Grown(blocks, n - 1, bs, n)
  BY <1>1, <1>5, ColouredAcyclic
<1>7. n \in 0..n /\ n \notin 0..(n - 1) /\ n # GenesisId /\ \A c \in 0..n : c = n \/ c \in 0..(n - 1)
  BY <1>1, SMT DEF LinkInv, GenesisId
<1>8. DOMAIN blocks = 0..(n - 1)
  BY <1>1 DEF LinkInv
<1>9. mainTip \in 0..(n - 1) /\ mainChain \in SUBSET (0..(n - 1))
  BY <1>1, <1>8 DEF MainInv, ChainOf
<1>10. SamePasts(blocks, n - 1, bs)
  BY <1>6, GrownPast
<1>11. Upto(bs, mainTip) = Upto(blocks, mainTip) /\ n \notin Upto(bs, mainTip)
  BY <1>7, <1>9, <1>10 DEF SamePasts
<1>12. ChainOf(bs, mainChain, mainTip)
  BY <1>1, <1>3, <1>5, ExtendsKeep
<1>13. /\ Ordered(blocks, n - 1) /\ Split(blocks, n - 1) /\ Linear(blocks, chain, {}, mainTip)
       /\ Stacked(blocks, mainChain, chain) /\ Numbered(blocks, chain, orderIds)
  BY DEF OrderInv, Arranged
<1>14. Ordered(bs, n)
  <2>1. \A c \in (0..(n - 1)) \ {GenesisId} : bs[c].mainParent = blocks[c].mainParent /\ bs[c].diffOrder = blocks[c].diffOrder
    BY <1>3, <1>4, <1>8 DEF Extends, KeepsBodies
  <2>2. Ordered(bs, n - 1)
    BY <1>6, <1>13, <2>1, GrownOrdered
  <2>. DEFINE m == bs[n].mainParent
  <2>3. m \in bs[n].parents
    BY <1>3, <1>6 DEF OnBluest, Bluest
  <2>4. bs[n].blue \cup bs[n].red = Past(bs, n) \ Upto(bs, m)
    BY <1>7 DEF Exact, bs
  <2>. HIDE DEF m
  <2>5. Lists(bs, bs[n].diffOrder, Upto(bs, m), Past(bs, n))
    BY <1>3, <1>4, <1>6, <1>7, <2>3, <2>4, NewBlockOrdered
  <2>. QED BY <1>7, <2>2, <2>3, <2>5 DEF Ordered, m
<1>15. Split(bs, n)
  <2>1. \A c \in (0..(n - 1)) \ {GenesisId} : bs[c].blue \cap bs[c].red = {}
    BY <1>4, <1>8, <1>13 DEF Split, KeepsBodies
  <2>. QED BY <1>4, <1>7, <2>1 DEF Split
<1>16. Linear(bs, chain, {}, mainTip) /\ Stacked(bs, mainChain, chain)
  BY <1>6, <1>9, <1>13, GrownLinear, GrownStacked
<1>17. Numbered(bs, chain, orderIds)
  <2>1. \A i \in 1..Len(chain) : chain[i] \in DOMAIN blocks
    <3>1. \A i \in 1..Len(chain) : chain[i] \in Upto(blocks, mainTip)
      BY <1>13, LinearEnds
    <3>. QED BY <1>8, <1>9, <1>10, <3>1 DEF SamePasts
  <2>2. \A i \in 1..Len(chain) : bs[chain[i]].order = blocks[chain[i]].order
    BY <1>4, <2>1 DEF KeepsBodies
  <2>. QED BY <1>13, <2>2 DEF Numbered
<1>18. NoOrder(bs, (0..(n - 1)) \ Upto(bs, mainTip))
  <2>1. NoOrder(blocks, DOMAIN blocks \ Upto(blocks, mainTip))
    BY DEF OrderInv
  <2>. QED BY <1>4, <1>8, <1>11, <2>1 DEF NoOrder, KeepsBodies
<1>. QED BY <1>3, <1>4, <1>6, <1>9, <1>11, <1>12, <1>14, <1>15, <1>16, <1>17, <1>18
         DEF Prepared, Arranged, bs

-----------------------------------------------------------------------------
(* The two ways a block can go in. *)

(* Giving orders and taking them away leaves all else in order. *)
LEMMA ArrangedSame ==
  ASSUME NEW bs, NEW n, NEW cs, Grown(bs, n, cs, n), SameColours(bs, cs), SameBodies(bs, cs),
         Ordered(bs, n), Split(bs, n), NEW t \in 0..n, NEW M \in SUBSET (0..n), NEW s, NEW os,
         Linear(bs, s, {}, t), Stacked(bs, M, s), Numbered(cs, s, os)
  PROVE  Arranged(cs, n, t, M, s, os)
<1>2. DOMAIN bs = 0..n
  BY DEF Grown, Acyclic
<1>3. \A c \in 0..n : cs[c].mainParent = bs[c].mainParent
  BY <1>2 DEF SameColours
<1>4. /\ \A c \in 0..n : cs[c].diffOrder = bs[c].diffOrder /\ cs[c].blue = bs[c].blue /\ cs[c].red = bs[c].red
      /\ HasBodies(cs)
  BY <1>2 DEF SameBodies, HasBodies
<1>5. Ordered(cs, n)
  BY <1>3, <1>4, GrownOrdered
<1>6. Split(cs, n)
  BY <1>4 DEF Split
<1>7. Linear(cs, s, {}, t) /\ Stacked(cs, M, s)
  BY GrownLinear, GrownStacked
<1>. QED BY <1>4, <1>5, <1>6, <1>7 DEF Arranged

(* What the walk found is exact before and after. *)
LEMMA ExactSame ==
  ASSUME NEW bs, NEW n, NEW cs, Grown(bs, n, cs, n), Chained(bs, n), SameColours(bs, cs), SameBodies(bs, cs),
         Exact(cs, n)
  PROVE  Exact(bs, n)
<1>1. SamePasts(bs, n, cs)
  BY GrownPast
<1>2. DOMAIN bs = 0..n
  BY DEF Chained
<1>. SUFFICES ASSUME NEW b \in (0..n) \ {GenesisId}
              PROVE  bs[b].blue \cup bs[b].red = Past(bs, b) \ Upto(bs, bs[b].mainParent)
  BY DEF Exact
<1>3. bs[b].mainParent \in 0..n
  <2>1. bs[b].mainParent \in 0..(b - 1) /\ n \in Nat
    BY DEF Chained
  <2>. QED BY <2>1, SMT
<1>4. cs[b].mainParent = bs[b].mainParent
  BY <1>2 DEF SameColours
<1>5. cs[b].blue = bs[b].blue /\ cs[b].red = bs[b].red
  BY <1>2 DEF SameBodies
<1>6. Past(cs, b) = Past(bs, b)
  BY <1>1 DEF SamePasts
<1>7. Upto(cs, bs[b].mainParent) = Upto(bs, bs[b].mainParent)
  BY <1>1, <1>3 DEF SamePasts
<1>8. cs[b].blue \cup cs[b].red = Past(cs, b) \ Upto(cs, cs[b].mainParent)
  BY DEF Exact
<1>. QED BY <1>4, <1>5, <1>6, <1>7, <1>8

(* The main tip, the list and the orders after the step, on the DAG the    *)
(* step started from.                                                      *)
Settled(bs, n) ==
  /\ SameBodies(bs, blocks')
  /\ mainTip' \in 0..n /\ mainChain' \in SUBSET (0..n)
  /\ Linear(bs, chain', {}, mainTip') /\ Stacked(bs, mainChain', chain')
  /\ Numbered(blocks', chain', orderIds')
  /\ diffAnticone' = (0..n) \ Upto(bs, mainTip')
  /\ NoOrder(blocks', diffAnticone')

(* The main tip stays: the new block joins those without an order. *)
LEMMA KeepSettled ==
  ASSUME OrderInv, NEW bs, Prepared(bs, blockTotal), KeepMainTip(bs)
  PROVE  Settled(bs, blockTotal)
<1>. DEFINE n == blockTotal
            U == diffAnticone \cup {n}
<1>1. HasBodies(bs) /\ DOMAIN bs = 0..n
  BY DEF Prepared, Arranged, Acyclic
<1>2. Unnumbered(bs, preUpdateVirtualBlock(bs, U), U)
  BY <1>1, PreUpdateVirtualBlockFacts
<1>3. /\ diffAnticone' = U /\ blocks' = preUpdateVirtualBlock(bs, U)
      /\ mainTip' = mainTip /\ mainChain' = mainChain /\ orderIds' = orderIds /\ chain' = chain
  BY DEF KeepMainTip
<1>4. LinkInv
  BY DEF OrderInv, MainInv
<1>5. n \in 0..n /\ n \notin 0..(n - 1) /\ \A c : c \in 0..n <=> c = n \/ c \in 0..(n - 1)
  BY <1>4, SMT DEF LinkInv
<1>6. DOMAIN blocks = 0..(n - 1)
  BY <1>4 DEF LinkInv
<1>7. U = (0..n) \ Upto(bs, mainTip)
  <2>1. diffAnticone = (0..(n - 1)) \ Upto(bs, mainTip)
    BY <1>6 DEF OrderInv, Prepared
  <2>2. n \notin Upto(bs, mainTip)
    BY DEF Prepared
  <2>. QED BY <1>5, <2>1, <2>2
<1>8. mainTip \in 0..n /\ mainChain \in SUBSET (0..n)
  BY <1>5 DEF Prepared
<1>9. Linear(bs, chain, {}, mainTip) /\ Stacked(bs, mainChain, chain) /\ Numbered(bs, chain, orderIds)
  BY DEF Prepared, Arranged
<1>10. \A i \in 1..Len(chain) : chain[i] \in Upto(bs, mainTip)
  BY <1>9, LinearEnds
<1>11. Upto(bs, mainTip) \subseteq 0..n
  BY <1>8, PastStep DEF Prepared, Upto
<1>12. \A i \in 1..Len(chain) : (blocks')[chain[i]].order = bs[chain[i]].order
  BY <1>1, <1>2, <1>3, <1>7, <1>10, <1>11 DEF Unnumbered
<1>13. Numbered(blocks', chain, orderIds)
  BY <1>9, <1>12 DEF Numbered
<1>14. NoOrder(blocks', U)
  <2>1. U \subseteq DOMAIN bs
    BY <1>1, <1>7
  <2>. QED BY <1>2, <1>3, <2>1 DEF Unnumbered, NoOrder
<1>15. SameBodies(bs, blocks')
  BY <1>2, <1>3 DEF Unnumbered
<1>. HIDE DEF U
<1>. QED BY <1>3, <1>7, <1>8, <1>9, <1>13, <1>14, <1>15 DEF Settled

(* What is in a sequence over S is in S. *)
LEMMA SeqAt ==
  ASSUME NEW S, NEW s \in Seq(S), NEW i \in 1..Len(s)
  PROVE  s[i] \in S
BY SMT

(* A path from a block on the main chain has that block alone. *)
LEMMA PathOne ==
  ASSUME NEW bs, NEW M, NEW s, NEW b, PathUp(bs, M, s, b)
  PROVE  bs[b].mainParent \in M => bs[s[1]].mainParent = bs[b].mainParent
<1>. SUFFICES ASSUME bs[b].mainParent \in M PROVE bs[s[1]].mainParent = bs[b].mainParent
  OBVIOUS
<1>1. s \in Seq(DOMAIN bs) /\ s # <<>> /\ s[Len(s)] = b
  BY DEF PathUp
<1>2. Len(s) \in Nat /\ Len(s) \in 1..Len(s)
  BY <1>1, SMT
<1>3. CASE Len(s) = 1
  BY <1>1, <1>3
<1>4. CASE Len(s) # 1
  <2>1. bs[b].mainParent = s[Len(s) - 1]
    BY <1>1, <1>2, <1>4 DEF PathUp
  <2>2. Len(s) - 1 \in 1..Len(s)
    <3>1. \A x \in Nat : x \in 1..x /\ x # 1 => x - 1 \in 1..x
      BY SMT
    <3>. QED BY <1>2, <1>4, <3>1
  <2>3. s[Len(s) - 1] \notin M
    BY <2>2 DEF PathUp
  <2>. QED BY <2>1, <2>3
<1>. QED BY <1>3, <1>4

(* ids, which ends in b, has got the orders after v's. *)
Reordered(S, v, ids, b, k, rs, os) ==
  /\ v \in Seq(S) /\ ids \in Seq(S) /\ ids # <<>> /\ ids[Len(ids)] = b
  /\ \A i, j \in 1..Len(ids) : ids[i] = ids[j] => i = j
  /\ k \in Int /\ k = Len(v) - 1
  /\ rs[b].order = k + Len(ids)
  /\ \A i \in 1..Len(v \o ids) : os[i - 1] = (v \o ids)[i]

(* The blocks getOrderChangeList reports are the ones given an order. *)
LEMMA NewsAreIds ==
  ASSUME NEW S, NEW v, NEW ids, NEW b, NEW k, NEW rs, NEW os, Reordered(S, v, ids, b, k, rs, os)
  PROVE  getOrderChangeList(rs, os, b, k + 1) = ids
<1>. DEFINE t == v \o ids
<1>. /\ v \in Seq(S) /\ ids \in Seq(S) /\ ids # <<>> /\ ids[Len(ids)] = b
     /\ \A i, j \in 1..Len(ids) : ids[i] = ids[j] => i = j
     /\ k \in Int /\ k = Len(v) - 1
     /\ rs[b].order = k + Len(ids)
     /\ \A i \in 1..Len(v \o ids) : os[i - 1] = (v \o ids)[i]
  BY DEF Reordered
<1>1. Len(v) \in Nat /\ Len(ids) \in Nat /\ Len(ids) \in 1..Len(ids) /\ 1 \in 1..Len(ids) /\ k + 1 = Len(v)
  BY SMT
<1>2. t \in Seq(S) /\ Len(t) = Len(v) + Len(ids) /\ \A i \in 1..Len(ids) : t[Len(v) + i] = ids[i]
  BY SMT
<1>. HIDE DEF t
<1>3. os[k + 1] = ids[1]
  <2>1. Len(v) + 1 \in 1..Len(t) /\ Len(v) + 1 - 1 = Len(v)
    BY <1>1, <1>2, SMT
  <2>2. os[(Len(v) + 1) - 1] = t[Len(v) + 1]
    BY <2>1 DEF t
  <2>3. (Len(v) + 1) - 1 = Len(v)
    BY <1>1, SMT
  <2>. QED BY <1>1, <1>2, <2>2, <2>3
<1>4. CASE ids[1] = b
  <2>1. Len(ids) = 1
    BY <1>1, <1>4
  <2>2. ids = <<b>>
    BY <1>4, <2>1, SMT
  <2>. QED BY <1>3, <1>4, <2>2 DEF getOrderChangeList
<1>5. CASE ids[1] # b
  <2>. DEFINE o == byOrder(os, Len(v), Len(t) - 1)
  <2>1. rs[b].order = Len(t) - 1
    BY <1>1, <1>2, SMT
  <2>2. getOrderChangeList(rs, os, b, k + 1) = o
    BY <1>1, <1>3, <1>5, <2>1 DEF getOrderChangeList
  <2>3. Len(v) \in 0..Len(t) /\ Len(t) - Len(v) = Len(ids)
    BY <1>1, <1>2, SMT
  <2>4. \A i \in 1..Len(t) : os[i - 1] = t[i]
    BY DEF t
  <2>5. o \in Seq(S) /\ Part(o, t, Len(v), Len(t))
    BY <1>2, <2>3, <2>4, ByOrderPart
  <2>. HIDE DEF o
  <2>6. Len(o) = Len(ids) /\ \A i \in 1..Len(o) : o[i] = ids[i]
    BY <1>2, <2>3, <2>5 DEF Part
  <2>7. o = ids
    BY <2>5, <2>6, SeqSame
  <2>. QED BY <2>2, <2>7
<1>. QED BY <1>4, <1>5

(* The chain's new end starts from the block of the main chain the new     *)
(* block's main-parent chain meets.                                        *)
Rebuilt(bs, b, m, v, ids) ==
  /\ m \in mainChain /\ (bs[b].mainParent \in mainChain => m = bs[b].mainParent)
  /\ Linear(bs, v, {}, m) /\ Begins(v, chain)
  /\ Linear(bs, ids, Upto(bs, m), b)
  /\ chain' = v \o ids

NewTip(bs) == getBluest(bs, updateTips(bs)) = blockTotal

(* The new block becomes the main tip. *)
LEMMA MoveSettled ==
  ASSUME LinkInv, NEW bs, Prepared(bs, blockTotal), MoveMainTip(bs), NewTip(bs)
  PROVE  Settled(bs, blockTotal) /\ \E m, v, ids : Rebuilt(bs, blockTotal, m, v, ids)
<1>. DEFINE n    == blockTotal
            path == mainPath(bs, n)
            m    == intersectionOf(bs, path)
            k    == bs[m].order
            ids  == newlyOrdered(bs, path)
            L    == rollBackMainChain(bs, m)
            U    == (0..n) \ Upto(bs, n)
            rs   == updateMainOrder(bs, ids, k)
            os   == commitOrder(ids, k)
            olds == byOrder(orderIds, k + 1, bs[mainTip].order)
            news == getOrderChangeList(rs, os, n, k + 1)
<1>1. n \in Nat /\ n \in 0..n /\ n \notin 0..(n - 1) /\ \A c \in 0..(n - 1) : c \in 0..n
  BY SMT DEF LinkInv
<1>2. /\ Acyclic(bs, n) /\ Chained(bs, n) /\ ChainOf(bs, mainChain, mainTip)
      /\ HasBodies(bs) /\ Ordered(bs, n) /\ DOMAIN bs = 0..n
  BY DEF Prepared, Arranged, Acyclic
<1>3. Linear(bs, chain, {}, mainTip) /\ Stacked(bs, mainChain, chain) /\ Numbered(bs, chain, orderIds)
  BY DEF Prepared, Arranged
<1>4. /\ mainTip \in 0..(n - 1) /\ mainChain \in SUBSET (0..(n - 1)) /\ n \notin Upto(bs, mainTip)
      /\ GenesisId \in mainChain /\ n \in (0..n) \ mainChain
  BY <1>1 DEF Prepared, ChainOf
<1>5. getAnticone(bs, n) = U
  BY <1>1, <1>2, AnticoneFacts
<1>6. /\ mainTip' = n /\ mainChain' = L \cup Range(path) /\ orderIds' = os /\ diffAnticone' = U
      /\ blocks' = preUpdateVirtualBlock(rs, U)
      /\ chain' = connectDagChain(n, optimizeReorganizeResult(news, olds), U)
  BY <1>5, SMT DEF MoveMainTip, NewTip
<1>7. PathUp(bs, mainChain, path, n)
  BY <1>2, <1>4, MainPathFacts
<1>8. m = bs[path[1]].mainParent /\ m \in mainChain /\ path \in Seq(0..n)
  BY <1>2, <1>7 DEF PathUp, intersectionOf
<1>. HIDE DEF path, m
<1>9. /\ Linear(bs, ids, Upto(bs, m), n)
      /\ \A i \in 1..Len(path) : \E u : Linear(bs, u, Upto(bs, m), path[i]) /\ Begins(u, ids)
  BY <1>2, <1>4, <1>7, <1>8, NewlyOrderedLists
<1>. HIDE DEF ids
<1>10. PICK v : Linear(bs, v, {}, m) /\ Begins(v, chain)
  BY <1>3, <1>8 DEF Stacked
<1>11. L \in SUBSET mainChain /\ \A c \in L : c \in Upto(bs, m)
  <2>1. L = {c \in mainChain : bs[c].height <= bs[m].height}
    BY <1>2, <1>8, RollBackFacts
  <2>2. \A c \in mainChain : bs[c].height <= bs[m].height => c \in Upto(bs, m)
    <3>. SUFFICES ASSUME NEW c \in mainChain, bs[c].height <= bs[m].height PROVE c \in Upto(bs, m)
      OBVIOUS
    <3>1. m \in mainChain
      BY <1>8
    <3>. QED BY <1>2, <3>1, ChainBelow
  <2>. QED BY <2>1, <2>2
<1>. HIDE DEF L
<1>12. \A c \in Range(path) : c \in 0..n /\ \E u : Linear(bs, u, Upto(bs, m), c) /\ Begins(u, ids)
  <2>. SUFFICES ASSUME NEW c \in Range(path)
                PROVE  c \in 0..n /\ \E u : Linear(bs, u, Upto(bs, m), c) /\ Begins(u, ids)
    OBVIOUS
  <2>1. PICK i \in 1..Len(path) : path[i] = c
    BY <1>8, SMT DEF Range
  <2>2. path[i] \in 0..n
    BY <1>8, SeqAt
  <2>. QED BY <1>9, <2>1, <2>2
<1>13. Linear(bs, v \o ids, {}, n) /\ Stacked(bs, L \cup Range(path), v \o ids)
  BY <1>3, <1>9, <1>10, <1>11, <1>12, MoveStacked
<1>14. /\ k = Len(v) - 1 /\ Renumbered(bs, rs, ids, k)
       /\ SameBodies(bs, preUpdateVirtualBlock(rs, U))
       /\ Numbered(preUpdateVirtualBlock(rs, U), v \o ids, os)
       /\ NoOrder(preUpdateVirtualBlock(rs, U), U)
  <2>1. Acyclic(bs, n) /\ HasBodies(bs) /\ n \in 0..n
    BY <1>1, <1>2
  <2>2. Numbered(bs, chain, orderIds) /\ Linear(bs, v, {}, m) /\ Begins(v, chain) /\ Linear(bs, ids, Upto(bs, m), n)
    BY <1>3, <1>9, <1>10
  <2>3. /\ k = Len(v) - 1 /\ Renumbered(bs, rs, ids, k)
        /\ SameBodies(bs, preUpdateVirtualBlock(rs, U))
        /\ Numbered(preUpdateVirtualBlock(rs, U), v \o ids, os)
        /\ \A c \in U : preUpdateVirtualBlock(rs, U)[c].order = MaxBlockOrder
    <3>1. Renewal(bs, n, chain, v, m, ids, n)
      BY <2>1, <2>2 DEF Renewal
    <3>2. Renewed(bs, n, v, m, ids, n)
      BY <3>1, MoveNumbered
    <3>. QED BY <3>2 DEF Renewed
  <2>. QED BY <2>3 DEF NoOrder
<1>15. /\ chain \in Seq(0..n) /\ v \in Seq(0..n) /\ ids \in Seq(0..n)
       /\ \A i \in 1..Len(chain) : chain[i] \in Upto(bs, mainTip)
  <2>1. m \in 0..n /\ mainTip \in 0..n
    BY <1>1, <1>4, <1>8
  <2>2. \A c \in 0..n : Upto(bs, c) \subseteq 0..n
    BY <1>2, PastStep DEF Upto
  <2>3. chain \in Seq(Upto(bs, mainTip)) /\ v \in Seq(Upto(bs, m)) /\ ids \in Seq(Upto(bs, n))
    BY <1>3, <1>9, <1>10, LinearEnds
  <2>4. \A i \in 1..Len(chain) : chain[i] \in Upto(bs, mainTip)
    BY <1>3, LinearEnds
  <2>. QED BY <1>1, <2>1, <2>2, <2>3, <2>4, SeqWider
<1>16. /\ Len(chain) \in Nat /\ Len(chain) \in 1..Len(chain) /\ chain[Len(chain)] = mainTip
       /\ \A i, j \in 1..Len(chain) : chain[i] = chain[j] => i = j
  BY <1>3, LinearEnds
<1>17. /\ Len(ids) \in 1..Len(ids) /\ ids[Len(ids)] = n /\ ids # <<>>
       /\ \A i, j \in 1..Len(ids) : ids[i] = ids[j] => i = j
  BY <1>9, LinearEnds DEF Linear
<1>18. news = ids
  <2>1. k \in Int
    BY <1>14, <1>15, SMT
  <2>2. rs[n].order = k + Len(ids)
    BY <1>14, <1>17 DEF Renumbered
  <2>3. \A i \in 1..Len(v \o ids) : os[i - 1] = (v \o ids)[i]
    BY <1>14 DEF Numbered
  <2>4. k = Len(v) - 1 /\ v \in Seq(0..n) /\ ids \in Seq(0..n)
    BY <1>14, <1>15
  <2>5. /\ ids[Len(ids)] = n /\ ids # <<>>
        /\ \A i, j \in 1..Len(ids) : ids[i] = ids[j] => i = j
    BY <1>17
  <2>. HIDE DEF os, rs, k
  <2>6. Reordered(0..n, v, ids, n, k, rs, os)
    BY <2>1, <2>2, <2>3, <2>4, <2>5 DEF Reordered
  <2>. QED BY <2>6, NewsAreIds
<1>19. olds \in Seq(0..n) /\ Part(olds, chain, Len(v), Len(chain))
  <2>1. bs[mainTip].order = Len(chain) - 1
    BY <1>3, <1>16 DEF Numbered
  <2>2. k + 1 = Len(v) /\ Len(v) \in 0..Len(chain)
    <3>1. Len(v) \in Nat /\ Len(v) <= Len(chain)
      BY <1>10 DEF Begins
    <3>. QED BY <1>14, <1>16, <3>1, SMT
  <2>3. \A i \in 1..Len(chain) : orderIds[i - 1] = chain[i]
    BY <1>3 DEF Numbered
  <2>. QED BY <1>15, <2>1, <2>2, <2>3, ByOrderPart
<1>. HIDE DEF news, olds, rs, os, k
<1>20. U = {} => \A i \in 1..Len(olds) : \E j \in 1..Len(ids) : ids[j] = olds[i]
  <2>. SUFFICES ASSUME U = {}, NEW i \in 1..Len(olds) PROVE \E j \in 1..Len(ids) : ids[j] = olds[i]
    OBVIOUS
  <2>1. Len(v) \in Nat /\ Len(v) <= Len(chain)
    BY <1>10 DEF Begins
  <2>2. Len(olds) = Len(chain) - Len(v) /\ olds[i] = chain[Len(v) + i]
    BY <1>19 DEF Part
  <2>3. Len(v) + i \in 1..Len(chain) /\ Len(v) + i \notin 1..Len(v)
    BY <1>16, <2>1, <2>2, SMT
  <2>4. olds[i] \in 0..n
    BY <1>15, <2>2, <2>3, SeqAt
  <2>5. olds[i] \in Upto(bs, n)
    BY <2>4
  <2>6. olds[i] \notin Upto(bs, m)
    <3>. SUFFICES ASSUME olds[i] \in Upto(bs, m) PROVE FALSE
      OBVIOUS
    <3>1. PICK j \in 1..Len(v) : v[j] = olds[i]
      BY <1>10 DEF Linear, Lists
    <3>2. j \in 1..Len(chain)
      BY <1>16, <2>1, SMT
    <3>3. chain[j] = chain[Len(v) + i]
      BY <1>10, <2>2, <3>1 DEF Begins
    <3>. QED BY <1>16, <2>3, <3>2, <3>3
  <2>. QED BY <1>9, <2>5, <2>6 DEF Linear, Lists
<1>21. IsFiniteSet(U)
  <2>1. IsFiniteSet(0..n)
    BY <1>1, FS_Interval, SMT
  <2>2. U \subseteq 0..n
    OBVIOUS
  <2>. QED BY <2>1, <2>2, FS_Subset
<1>22. \A i \in 1..Len(chain) : chain[i] # n
  BY <1>4, <1>15
<1>. HIDE DEF U
<1>23. connectDagChain(n, optimizeReorganizeResult(ids, olds), U) = v \o ids
  <2>1. chain \in Seq(0..n) /\ v \in Seq(0..n) /\ ids \in Seq(0..n) /\ Begins(v, chain)
    BY <1>10, <1>15
  <2>2. \A i, j \in 1..Len(chain) : chain[i] = chain[j] => i = j
    BY <1>16
  <2>3. ids # <<>> /\ ids[Len(ids)] = n
    BY <1>17
  <2>4. Exchange(0..n, v, olds, ids, n, U)
    BY <1>19, <1>20, <1>21, <1>22, <2>1, <2>2, <2>3 DEF Exchange
  <2>5. Exchanged(v, olds, ids, n, U)
    BY <2>4, ConnectedChain
  <2>. QED BY <2>5 DEF Exchanged
<1>24. chain' = v \o ids
  BY <1>6, <1>18, <1>23
<1>25. mainChain' \in SUBSET (0..n)
  BY <1>1, <1>4, <1>6, <1>11, <1>12
<1>26. Settled(bs, n)
  BY <1>1, <1>6, <1>13, <1>14, <1>24, <1>25 DEF Settled, U
<1>27. bs[n].mainParent \in mainChain => m = bs[n].mainParent
  <2>. SUFFICES ASSUME bs[n].mainParent \in mainChain PROVE m = bs[n].mainParent
    OBVIOUS
  <2>1. bs[path[1]].mainParent = bs[n].mainParent
    BY <1>7, PathOne, SMT
  <2>. QED BY <1>8, <2>1
<1>28. Rebuilt(bs, n, m, v, ids)
  BY <1>8, <1>9, <1>10, <1>24, <1>27 DEF Rebuilt
<1>. QED BY <1>26, <1>28

-----------------------------------------------------------------------------
(* Every step. *)

(* Orders are all that a change of the main tip writes. *)
LEMMA TipStepBodies ==
  ASSUME NEW bs, HasBodies(bs), KeepMainTip(bs) \/ MoveMainTip(bs)
  PROVE  SameBodies(bs, blocks')
<1>1. CASE KeepMainTip(bs)
  <2>1. PICK S : blocks' = preUpdateVirtualBlock(bs, S)
    BY <1>1 DEF KeepMainTip
  <2>2. Unnumbered(bs, preUpdateVirtualBlock(bs, S), S)
    BY PreUpdateVirtualBlockFacts
  <2>. QED BY <2>1, <2>2 DEF Unnumbered
<1>2. CASE MoveMainTip(bs)
  <2>1. PICK ids, start, S :
          blocks' = preUpdateVirtualBlock(updateMainOrder(bs, ids, start), S)
    BY <1>2 DEF MoveMainTip
  <2>. DEFINE rs == updateMainOrder(bs, ids, start)
  <2>2. DOMAIN rs = DOMAIN bs /\ \A b \in DOMAIN bs : \E o : rs[b] = bs[b] \/ rs[b] = [bs[b] EXCEPT !.order = o]
    BY DEF updateMainOrder
  <2>. HIDE DEF rs
  <2>3. SameBodies(bs, rs)
    <3>. SUFFICES ASSUME NEW b \in DOMAIN bs
                  PROVE  /\ BodyFields \subseteq DOMAIN rs[b]
                         /\ rs[b].blue = bs[b].blue /\ rs[b].red = bs[b].red
                         /\ rs[b].diffOrder = bs[b].diffOrder
      BY <2>2 DEF SameBodies
    <3>1. BodyFields \subseteq DOMAIN bs[b]
      BY DEF HasBodies
    <3>2. PICK o : rs[b] = bs[b] \/ rs[b] = [bs[b] EXCEPT !.order = o]
      BY <2>2
    <3>. QED BY <3>1, <3>2, SMT DEF BodyFields
  <2>4. HasBodies(rs)
    BY <2>3 DEF SameBodies, HasBodies
  <2>5. Unnumbered(rs, preUpdateVirtualBlock(rs, S), S)
    BY <2>4, PreUpdateVirtualBlockFacts
  <2>6. SameBodies(rs, blocks')
    BY <2>1, <2>5 DEF Unnumbered, rs
  <2>. QED BY <2>3, <2>6 DEF SameBodies
<1>. QED BY <1>1, <1>2

(* What a step did. *)
Stepped(bs, ps) ==
  /\ Prepared(bs, blockTotal) /\ Settled(bs, blockTotal)
  /\ Grown(bs, blockTotal, blocks', blockTotal) /\ SameColours(bs, blocks')
  /\ bs[blockTotal].parents = ps /\ OnBluest(bs, ps) /\ Bluest(bs, DOMAIN blocks, mainTip)
  /\ DOMAIN blocks = 0..(blockTotal - 1) /\ DOMAIN bs = 0..blockTotal
  /\ blockTotal \in Nat /\ blockTotal' = blockTotal + 1
  /\ \/ /\ Bluest(bs, 0..blockTotal, mainTip)
        /\ mainTip' = mainTip /\ mainChain' = mainChain /\ chain' = chain
     \/ /\ mainTip' = blockTotal /\ Bluest(bs, 0..blockTotal, blockTotal)
        /\ \E m, v, ids : Rebuilt(bs, blockTotal, m, v, ids)

(* Adding a block. *)
LEMMA AddBlockStepped ==
  ASSUME OrderInv, NEW ps \in SUBSET DOMAIN blocks, ps # {}, NEW h \in Hashes, Fresh(h), AddBlock(ps, h),
         WalkExact'
  PROVE  OrderInv' /\ Stepped(coloured(ps, h), ps)
<1>. DEFINE n  == blockTotal
            bs == coloured(ps, h)
<1>1. MainInv /\ LinkInv /\ ColourInv /\ MainInv' /\ LinkInv'
  <2>1. MainInv
    BY DEF OrderInv
  <2>2. MainInv'
    BY <2>1, MainInvAddBlock
  <2>. QED BY <2>1, <2>2 DEF MainInv
<1>2. h \in Nat
  BY BlockAssumption
<1>3. HasColours(bs) /\ Extends(bs) /\ Chained(bs, n) /\ Ranked(bs, 0..n) /\ OnBluest(bs, ps)
  BY <1>1, <1>2, ColouredFacts
<1>4. HasBodies(bs)
  <2>1. HasColours(blocks) /\ HasBodies(blocks)
    BY <1>1 DEF OrderInv, ColourInv, Arranged
  <2>. QED BY <1>1, <2>1, ColouredBodies
<1>5. SameLinks(linkBlock(ps, h), bs) /\ DOMAIN bs = 0..n
  BY <1>1, ColouredLinks
<1>6. KeepMainTip(bs) \/ MoveMainTip(bs)
  BY DEF AddBlock
<1>. HIDE DEF bs
<1>7. n \in Nat /\ blockTotal' = n + 1 /\ blockTotal' - 1 = n /\ n <= n /\ DOMAIN blocks = 0..(n - 1)
  <2>1. blockTotal' = n + 1 /\ n \in Nat /\ DOMAIN blocks = 0..(n - 1)
    BY <1>1 DEF AddBlock, LinkInv
  <2>. QED BY <2>1, SMT
<1>8. Acyclic(bs, n) /\ bs[n].parents = ps
  BY <1>1, <1>5, ColouredAcyclic
<1>9. SameLinks(linkBlock(ps, h), blocks')
  BY <1>1, AddBlockLinks
<1>10. DOMAIN blocks' = 0..n
  BY <1>5, <1>9 DEF SameLinks
<1>11. Acyclic(blocks', n)
  BY <1>1, <1>9, <1>10, ColouredAcyclic
<1>12. Grown(bs, n, blocks', n)
  <2>1. \A c \in 0..n : (blocks')[c].parents = bs[c].parents
    BY <1>5, <1>9 DEF SameLinks
  <2>. QED BY <1>7, <1>8, <1>11, <2>1 DEF Grown
<1>13. SameColours(bs, blocks')
  BY <1>3, <1>6, TipStepColours
<1>14. SameBodies(bs, blocks')
  BY <1>4, <1>6, TipStepBodies
<1>15. Exact(bs, n)
  <2>1. Exact(blocks', n)
    BY <1>10 DEF WalkExact, Exact, Upto
  <2>. QED BY <1>3, <1>12, <1>13, <1>14, <2>1, ExactSame
<1>16. Prepared(bs, n)
  BY <1>15, PreparedDag DEF bs
<1>17. ChainOf(bs, mainChain, mainTip) /\ Bluest(bs, DOMAIN blocks, mainTip)
  BY <1>1, <1>3, <1>5, ExtendsKeep
<1>18. /\ Settled(bs, n)
       /\ \/ /\ Bluest(bs, 0..n, mainTip)
             /\ mainTip' = mainTip /\ mainChain' = mainChain /\ chain' = chain
          \/ /\ mainTip' = n /\ Bluest(bs, 0..n, n)
             /\ \E m, v, ids : Rebuilt(bs, n, m, v, ids)
  <2>1. CASE KeepMainTip(bs)
    <3>1. mainTip' = mainTip /\ mainChain' = mainChain /\ chain' = chain
      BY <2>1 DEF KeepMainTip
    <3>2. Bluest(bs, 0..n, mainTip)
      BY <1>1, <1>3, <1>17, <2>1, KeepMainTipBluest
    <3>3. Settled(bs, n)
      BY <1>16, <2>1, KeepSettled
    <3>. QED BY <3>1, <3>2, <3>3
  <2>2. CASE MoveMainTip(bs)
    <3>1. mainTip' = n /\ Bluest(bs, 0..n, n) /\ getBluest(bs, updateTips(bs)) = n
      BY <1>1, <1>3, <1>17, <2>2, MoveMainTipBluest
    <3>2. NewTip(bs)
      BY <3>1 DEF NewTip
    <3>3. Settled(bs, n) /\ \E m, v, ids : Rebuilt(bs, n, m, v, ids)
      BY <1>1, <1>16, <2>2, <3>2, MoveSettled
    <3>. QED BY <3>1, <3>3
  <2>. QED BY <1>6, <2>1, <2>2
<1>19. Stepped(bs, ps)
  BY <1>3, <1>5, <1>7, <1>8, <1>12, <1>13, <1>16, <1>17, <1>18 DEF Stepped
<1>20. Arranged(blocks', n, mainTip', mainChain', chain', orderIds') /\ Upto(blocks', mainTip') = Upto(bs, mainTip')
  <2>1. Ordered(bs, n) /\ Split(bs, n)
    BY <1>16 DEF Prepared, Arranged
  <2>2. /\ mainTip' \in 0..n /\ mainChain' \in SUBSET (0..n) /\ Linear(bs, chain', {}, mainTip')
        /\ Stacked(bs, mainChain', chain') /\ Numbered(blocks', chain', orderIds')
    BY <1>18 DEF Settled
  <2>3. Arranged(blocks', n, mainTip', mainChain', chain', orderIds')
    BY <1>12, <1>13, <1>14, <2>1, <2>2, ArrangedSame
  <2>4. SamePasts(bs, n, blocks')
    BY <1>12, GrownPast
  <2>. QED BY <2>2, <2>3, <2>4 DEF SamePasts
<1>21. diffAnticone' = (DOMAIN blocks') \ Upto(blocks', mainTip') /\ NoOrder(blocks', diffAnticone')
  BY <1>10, <1>18, <1>20 DEF Settled
<1>22. OrderInv'
  BY <1>1, <1>7, <1>20, <1>21 DEF OrderInv
<1>. QED BY <1>19, <1>22 DEF bs

(* The genesis block is in order. *)
LEMMA OrderInvInit == Init => OrderInv
<1>. SUFFICES ASSUME Init PROVE OrderInv
  OBVIOUS
<1>1. MainInv /\ LinkInv
  BY MainInvInit DEF MainInv
<1>2. /\ blockTotal - 1 = 0 /\ mainTip = 0 /\ mainChain = {0} /\ chain = <<0>> /\ diffAnticone = {}
      /\ DOMAIN blocks = {0} /\ orderIds = [o \in {0} |-> 0] /\ 0..0 = {0}
  BY SMT DEF Init, GenesisId
<1>3. blocks[0].order = 0 /\ blocks[0].parents = {} /\ BodyFields \subseteq DOMAIN blocks[0]
  BY SMT DEF Init, GenesisId, Block, BodyFields
<1>4. HasBodies(blocks) /\ Ordered(blocks, 0) /\ Split(blocks, 0)
  BY <1>2, <1>3 DEF HasBodies, Ordered, Split, GenesisId
<1>5. Acyclic(blocks, 0)
  BY <1>1, <1>2, LinksAcyclic
<1>6. 0 \in 0..0 /\ 0 \in Nat
  BY SMT
<1>7. Past(blocks, 0) = {} /\ Upto(blocks, 0) = {0}
  <2>1. \A c : c \notin Past(blocks, 0)
    BY <1>3, <1>5, <1>6, PastStep
  <2>. QED BY <2>1 DEF Upto
<1>8. Linear(blocks, <<0>>, {}, 0)
  <2>1. Lists(blocks, <<0>>, {}, Upto(blocks, 0))
    BY <1>5, <1>6, <1>7, ListsOne
  <2>2. <<0>> # <<>> /\ <<0>>[Len(<<0>>)] = 0
    OBVIOUS
  <2>. QED BY <2>1, <2>2 DEF Linear
<1>9. Stacked(blocks, {0}, <<0>>)
  <2>1. Begins(<<0>>, <<0>>)
    BY SMT DEF Begins
  <2>. QED BY <1>8, <2>1 DEF Stacked
<1>10. Numbered(blocks, <<0>>, [o \in {0} |-> 0])
  BY <1>3, SMT DEF Numbered
<1>11. DOMAIN blocks \ Upto(blocks, mainTip) = {} /\ NoOrder(blocks, {})
  BY <1>2, <1>7 DEF NoOrder
<1>. QED BY <1>1, <1>2, <1>4, <1>8, <1>9, <1>10, <1>11 DEF OrderInv, Arranged

=============================================================================
