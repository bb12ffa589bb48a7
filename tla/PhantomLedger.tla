---------------------------- MODULE PhantomLedger ---------------------------
(***************************************************************************)
(* The total order and the connected chain through every step: first where *)
(* the walks of getDiffAnticone are wide enough, then where the links of   *)
(* the DAG are short enough for them to be.  There the connected chain is  *)
(* the ledger of DagLedger.                                                *)
(***************************************************************************)
EXTENDS PhantomOrder

(* The leaves below are for Zenon, but for those that name another prover. *)
USE Zenon

-----------------------------------------------------------------------------
(* What the invariant says. *)

Counted(s, C) == Len(s) \in Nat /\ Range(s) = C /\ IsFiniteSet(C) /\ Cardinality(C) = Len(s)

(* A list in order has each member of B \ A once. *)
LEMMA ListsCount ==
  ASSUME NEW bs, NEW s, NEW A, NEW B, Lists(bs, s, A, B)
  PROVE  Counted(s, B \ A)
<1>. DEFINE C == B \ A
            D == 1..Len(s)
<1>1. s \in Seq(B) /\ \A i \in D : s[i] \notin A
  BY DEF Lists
<1>2. Len(s) \in Nat /\ DOMAIN s = D /\ s \in [D -> B]
  BY <1>1, SMT
<1>3. \A c \in C : \E i \in D : s[i] = c
  BY DEF Lists
<1>4. \A i, j \in D : s[i] = s[j] => i = j
  BY DEF Lists
<1>. HIDE DEF D
<1>5. \A i \in D : s[i] \in C
  BY <1>1, <1>2
<1>. HIDE DEF C
<1>6. s \in [D -> C]
  BY <1>2, <1>5
<1>7. s \in Bijection(D, C)
  BY <1>2, <1>3, <1>4, <1>6 DEF Bijection, Injection, Surjection, IsInjective
<1>8. ExistsBijection(1..Len(s), C)
  BY <1>7 DEF ExistsBijection, D
<1>9. Cardinality(C) = Len(s)
  BY <1>2, <1>8, FS_CountingElements
<1>10. IsFiniteSet(C)
  <2>1. IsFiniteSet(1..Len(s))
    BY <1>2, FS_Interval, SMT
  <2>. QED BY <1>8, <2>1, FS_Bijection
<1>11. Range(s) = C
  BY <1>2, <1>3, <1>5 DEF Range
<1>. QED BY <1>2, <1>9, <1>10, <1>11 DEF Counted, C

(* The chain lists the main tip and its past in order. *)
Listing ==
  /\ chain \in Seq(DOMAIN blocks) /\ Len(chain) \in Nat /\ Len(chain) \in 1..Len(chain)
  /\ chain[Len(chain)] = mainTip
  /\ \A i, j \in 1..Len(chain) : chain[i] = chain[j] => i = j
  /\ \A i \in 1..Len(chain) : chain[i] \in Upto(blocks, mainTip)
  /\ \A c \in Upto(blocks, mainTip) : \E i \in 1..Len(chain) : chain[i] = c
  /\ \A i \in 1..Len(chain) : \A p \in blocks[chain[i]].parents : \E j \in 1..(i - 1) : chain[j] = p
  /\ \A i \in 1..Len(chain) :
       blocks[chain[i]].order = i - 1 /\ i - 1 \in DOMAIN orderIds /\ orderIds[i - 1] = chain[i]
  /\ mainTip \in DOMAIN blocks /\ Upto(blocks, mainTip) \subseteq DOMAIN blocks
  /\ mainTip \notin Past(blocks, mainTip)
  /\ blocks[mainTip].order = Len(chain) - 1

(* It follows from the invariant. *)
LEMMA ChainListing ==
  ASSUME OrderInv
  PROVE  Listing
<1>1. /\ Linear(blocks, chain, {}, mainTip) /\ Numbered(blocks, chain, orderIds) /\ LinkInv
      /\ mainTip \in DOMAIN blocks
  BY DEF OrderInv, Arranged, MainInv, ChainOf
<1>2. Acyclic(blocks, blockTotal - 1) /\ DOMAIN blocks = 0..(blockTotal - 1)
  BY <1>1, LinksAcyclic
<1>3. Upto(blocks, mainTip) \subseteq DOMAIN blocks
  BY <1>1, <1>2, PastStep DEF Upto
<1>4. mainTip \notin Past(blocks, mainTip)
  <2>. SUFFICES ASSUME mainTip \in Past(blocks, mainTip) PROVE FALSE
    OBVIOUS
  <2>1. mainTip \in 0..(blockTotal - 1)
    BY <1>1, <1>2
  <2>2. mainTip < mainTip
    BY <1>2, <2>1, PastOlder
  <2>. QED BY <2>1, <2>2, SMT
<1>5. /\ chain \in Seq(Upto(blocks, mainTip)) /\ Len(chain) \in Nat /\ Len(chain) \in 1..Len(chain)
      /\ chain[Len(chain)] = mainTip
      /\ \A i \in 1..Len(chain) : chain[i] \in Upto(blocks, mainTip)
      /\ \A i, j \in 1..Len(chain) : chain[i] = chain[j] => i = j
  BY <1>1, LinearEnds
<1>6. chain \in Seq(DOMAIN blocks)
  BY <1>3, <1>5, SeqWider
<1>7. /\ \A c \in Upto(blocks, mainTip) : \E i \in 1..Len(chain) : chain[i] = c
      /\ \A i \in 1..Len(chain) : \A p \in blocks[chain[i]].parents : \E j \in 1..(i - 1) : chain[j] = p
  BY <1>1 DEF Linear, Lists
<1>8. \A i \in 1..Len(chain) :
        blocks[chain[i]].order = i - 1 /\ i - 1 \in DOMAIN orderIds /\ orderIds[i - 1] = chain[i]
  BY <1>1 DEF Numbered
<1>9. blocks[mainTip].order = Len(chain) - 1
  BY <1>5, <1>8
<1>. QED BY <1>1, <1>3, <1>4, <1>5, <1>6, <1>7, <1>8, <1>9 DEF Listing

(* The diff anticones are exact. *)
LEMMA InvDiffAnticone ==
  ASSUME OrderInv, WalkExact
  PROVE  DiffAnticoneExact
<1>. SUFFICES ASSUME NEW b \in DOMAIN blocks \ {GenesisId}
              PROVE  LET r == blocks[b]
                         d == Past(blocks, b) \ (Past(blocks, r.mainParent) \cup {r.mainParent})
                     IN  /\ r.blue \cup r.red = d /\ r.blue \cap r.red = {}
                         /\ Range(r.diffOrder) = d /\ Len(r.diffOrder) = Cardinality(d)
  BY DEF DiffAnticoneExact
<1>. DEFINE r == blocks[b]
            d == Past(blocks, b) \ (Past(blocks, r.mainParent) \cup {r.mainParent})
<1>1. DOMAIN blocks = 0..(blockTotal - 1)
  BY LinksAcyclic DEF OrderInv, MainInv
<1>2. Lists(blocks, r.diffOrder, Upto(blocks, r.mainParent), Past(blocks, b)) /\ r.blue \cap r.red = {}
  BY <1>1 DEF OrderInv, Arranged, Ordered, Split
<1>3. r.blue \cup r.red = d
  BY DEF WalkExact
<1>4. d = Past(blocks, b) \ Upto(blocks, r.mainParent)
  BY DEF Upto
<1>5. Range(r.diffOrder) = d /\ Cardinality(d) = Len(r.diffOrder)
  <2>. HIDE DEF d, r
  <2>1. Counted(r.diffOrder, Past(blocks, b) \ Upto(blocks, r.mainParent))
    BY <1>2, ListsCount
  <2>. QED BY <1>4, <2>1 DEF Counted
<1>. QED BY <1>2, <1>3, <1>5

(* The order covers the past of the main tip. *)
LEMMA InvOrderCovers ==
  ASSUME OrderInv
  PROVE  OrderCoversPast
<1>. DEFINE P == Past(blocks, mainTip)
            U == Upto(blocks, mainTip)
<1>1. Listing
  BY ChainListing
<1>2. U = P \cup {mainTip} /\ mainTip \in U
  BY DEF Upto
<1>3. diffAnticone = DOMAIN blocks \ U /\ \A c \in diffAnticone : blocks[c].order = MaxBlockOrder
  BY DEF OrderInv, NoOrder
<1>4. \A c \in U : blocks[c].order # MaxBlockOrder
  <2>. SUFFICES ASSUME NEW c \in U PROVE blocks[c].order # MaxBlockOrder
    OBVIOUS
  <2>1. PICK i \in 1..Len(chain) : chain[i] = c
    BY <1>1 DEF Listing
  <2>2. blocks[c].order = i - 1
    BY <1>1, <2>1 DEF Listing
  <2>3. i - 1 \in Nat
    BY SMT
  <2>. QED BY <2>2, <2>3, RuleAssumption
<1>5. {b \in DOMAIN blocks : blocks[b].order # MaxBlockOrder} = U
  <2>1. U \subseteq DOMAIN blocks
    BY <1>1 DEF Listing
  <2>. HIDE DEF U
  <2>. QED BY <1>3, <1>4, <2>1
<1>6. blocks[mainTip].order = Cardinality(P)
  <2>1. Lists(blocks, chain, {}, U)
    BY DEF OrderInv, Arranged, Linear
  <2>2. U \ {} = U
    OBVIOUS
  <2>. HIDE DEF U
  <2>3. IsFiniteSet(U) /\ Cardinality(U) = Len(chain)
    <3>1. Counted(chain, U \ {})
      BY <2>1, ListsCount
    <3>. QED BY <2>2, <3>1 DEF Counted
  <2>4. U \ {mainTip} = P
    <3>1. mainTip \notin P
      BY <1>1 DEF Listing
    <3>. QED BY <1>2, <3>1
  <2>5. Cardinality(P) = Len(chain) - 1
    <3>1. Cardinality(U \ {mainTip}) = Cardinality(U) - 1
      BY <1>2, <2>3, FS_RemoveElement
    <3>. QED BY <2>3, <2>4, <3>1
  <2>. QED BY <1>1, <2>5 DEF Listing
<1>7. \A o \in 0..blocks[mainTip].order : o \in DOMAIN orderIds /\ blocks[orderIds[o]].order = o
  <2>. SUFFICES ASSUME NEW o \in 0..blocks[mainTip].order
                PROVE  o \in DOMAIN orderIds /\ blocks[orderIds[o]].order = o
    OBVIOUS
  <2>1. Len(chain) \in Nat /\ blocks[mainTip].order = Len(chain) - 1
    BY <1>1 DEF Listing
  <2>2. o + 1 \in 1..Len(chain) /\ (o + 1) - 1 = o
    BY <2>1, SMT
  <2>. DEFINE i == o + 1
  <2>3. i \in 1..Len(chain) /\ i - 1 = o
    BY <2>2
  <2>. HIDE DEF i
  <2>4. blocks[chain[i]].order = i - 1 /\ i - 1 \in DOMAIN orderIds /\ orderIds[i - 1] = chain[i]
    BY <1>1, <2>3 DEF Listing
  <2>. QED BY <2>3, <2>4
<1>. HIDE DEF P, U
<1>. QED BY <1>2, <1>3, <1>5, <1>6, <1>7 DEF OrderCoversPast, P

(* Parents come first. *)
LEMMA InvTopological ==
  ASSUME OrderInv
  PROVE  OrderTopological
<1>1. Listing
  BY ChainListing
<1>. SUFFICES ASSUME NEW b \in DOMAIN blocks \ diffAnticone, NEW p \in blocks[b].parents
              PROVE  blocks[p].order # MaxBlockOrder /\ blocks[p].order < blocks[b].order
  BY DEF OrderTopological
<1>2. b \in Upto(blocks, mainTip)
  BY DEF OrderInv
<1>3. PICK i \in 1..Len(chain) : chain[i] = b
  BY <1>1, <1>2 DEF Listing
<1>4. PICK j \in 1..(i - 1) : chain[j] = p
  BY <1>1, <1>3 DEF Listing
<1>5. j \in 1..Len(chain) /\ j - 1 \in Nat /\ j - 1 < i - 1
  <2>1. Len(chain) \in Nat
    BY <1>1 DEF Listing
  <2>. QED BY <2>1, SMT
<1>6. blocks[b].order = i - 1 /\ blocks[p].order = j - 1
  BY <1>1, <1>3, <1>4, <1>5 DEF Listing
<1>7. blocks[p].order # MaxBlockOrder
  BY <1>5, <1>6, RuleAssumption
<1>. QED BY <1>5, <1>6, <1>7

(* The chain is the order. *)
LEMMA InvChainMatches ==
  ASSUME OrderInv
  PROVE  ChainMatchesOrder
<1>. DEFINE S == DOMAIN blocks
            o == byOrder(orderIds, 0, Len(chain) - 1)
<1>1. /\ chain \in Seq(S) /\ Len(chain) \in Nat /\ blocks[mainTip].order = Len(chain) - 1
      /\ \A i \in 1..Len(chain) : orderIds[i - 1] = chain[i]
  BY ChainListing DEF Listing
<1>2. 0 \in 0..Len(chain)
  BY <1>1, SMT
<1>3. o \in Seq(S) /\ Part(o, chain, 0, Len(chain))
  BY <1>1, <1>2, ByOrderPart
<1>. HIDE DEF o, S
<1>4. Len(chain) - 0 = Len(chain) /\ \A i \in 1..Len(chain) : 0 + i = i
  BY <1>1, SMT
<1>5. Len(o) = Len(chain) /\ \A i \in 1..Len(o) : o[i] = chain[i]
  <2>1. Len(o) = Len(chain) - 0 /\ \A i \in 1..(Len(chain) - 0) : o[i] = chain[0 + i]
    BY <1>3 DEF Part
  <2>2. Len(o) = Len(chain)
    BY <1>4, <2>1
  <2>3. ASSUME NEW i \in 1..Len(chain) PROVE o[i] = chain[i]
    <3>1. i \in 1..(Len(chain) - 0) /\ 0 + i = i
      BY <1>1, SMT
    <3>. QED BY <2>1, <3>1
  <2>. QED BY <2>2, <2>3
<1>6. o = chain
  BY <1>1, <1>3, <1>5, SeqSame
<1>. QED BY <1>1, <1>6 DEF ChainMatchesOrder, o

(* A block on the main tip only adds to the chain. *)
LEMMA StepKeepsPast ==
  ASSUME OrderInv, OrderInv', NEW bs, NEW ps, Stepped(bs, ps), (blocks')[blockTotal].mainParent = mainTip
  PROVE  /\ Len(chain) <= Len(chain') /\ SubSeq(chain', 1, Len(chain)) = chain
         /\ \A b \in DOMAIN blocks : blocks[b].order # MaxBlockOrder => (blocks')[b].order = blocks[b].order
         /\ mainTip' = blockTotal
<1>. DEFINE n == blockTotal
<1>1. Listing
  BY ChainListing
<1>2. n \in 0..n /\ DOMAIN bs = 0..n /\ DOMAIN blocks = 0..(n - 1) /\ n \notin 0..(n - 1)
  <2>1. n \in Nat /\ DOMAIN bs = 0..n /\ DOMAIN blocks = 0..(n - 1)
    BY DEF Stepped
  <2>. QED BY <2>1, SMT
<1>3. bs[n].mainParent = mainTip
  BY <1>2 DEF Stepped, SameColours
<1>4. ~Bluest(bs, 0..n, mainTip)
  <2>. SUFFICES ASSUME Bluest(bs, 0..n, mainTip) PROVE FALSE
    OBVIOUS
  <2>1. mainTip # n /\ mainTip \in 0..n
    BY <1>1, <1>2 DEF Listing, Bluest
  <2>2. IsBluer(bs, mainTip, n)
    BY <1>2, <2>1 DEF Bluest
  <2>3. bs[mainTip].blueNum < bs[n].blueNum
    BY <1>3 DEF Stepped, OnBluest
  <2>4. bs[mainTip].blueNum \in Nat /\ bs[n].blueNum \in Nat
    BY <1>2, <2>1 DEF Stepped, Prepared, Ranked
  <2>. QED BY <2>2, <2>3, <2>4, SMT DEF IsBluer
<1>5. mainTip' = n /\ \E m, v, ids : Rebuilt(bs, n, m, v, ids)
  BY <1>4 DEF Stepped
<1>6. PICK m, v, ids : Rebuilt(bs, n, m, v, ids)
  BY <1>5
<1>7. m = mainTip
  <2>1. mainTip \in mainChain
    BY DEF OrderInv, MainInv, ChainOf
  <2>. QED BY <1>3, <1>6, <2>1 DEF Rebuilt
<1>8. Linear(bs, v, {}, mainTip) /\ Begins(v, chain) /\ Linear(bs, ids, Upto(bs, mainTip), n) /\ chain' = v \o ids
  BY <1>6, <1>7 DEF Rebuilt
<1>9. /\ v \in Seq(Upto(bs, mainTip)) /\ Len(v) \in Nat /\ Len(v) \in 1..Len(v) /\ v[Len(v)] = mainTip
      /\ ids \in Seq(Upto(bs, n))
  <2>1. /\ v \in Seq(Upto(bs, mainTip)) /\ Len(v) \in Nat /\ Len(v) \in 1..Len(v) /\ v[Len(v)] = mainTip
    <3>. DEFINE t == mainTip
    <3>1. Linear(bs, v, {}, t)
      BY <1>8
    <3>. HIDE DEF t
    <3>2. v \in Seq(Upto(bs, t)) /\ Len(v) \in Nat /\ Len(v) \in 1..Len(v) /\ v[Len(v)] = t
      BY <3>1, LinearEnds
    <3>. QED BY <3>2 DEF t
  <2>2. ids \in Seq(Upto(bs, n))
    BY <1>8 DEF Linear, Lists
  <2>. QED BY <2>1, <2>2
<1>10. Len(v) = Len(chain)
  <2>1. Len(chain) \in Nat /\ Len(v) <= Len(chain)
    BY <1>1, <1>8 DEF Listing, Begins
  <2>2. Len(v) \in 1..Len(chain) /\ Len(chain) \in 1..Len(chain)
    BY <1>9, <2>1, SMT
  <2>3. chain[Len(v)] = mainTip
    BY <1>8, <1>9 DEF Begins
  <2>4. chain[Len(chain)] = mainTip /\ \A i, j \in 1..Len(chain) : chain[i] = chain[j] => i = j
    BY <1>1 DEF Listing
  <2>5. chain[Len(v)] = chain[Len(chain)]
    BY <2>3, <2>4
  <2>. QED BY <2>2, <2>4, <2>5
<1>11. Begins(v, v \o ids)
  BY <1>9, BeginsConcat
<1>12. Len(chain') \in Nat /\ Len(chain) <= Len(chain') /\ \A i \in 1..Len(chain) : (chain')[i] = chain[i]
  <2>1. Len(v \o ids) \in Nat /\ Len(v) <= Len(v \o ids) /\ \A i \in 1..Len(v) : v[i] = (v \o ids)[i]
    BY <1>11 DEF Begins
  <2>2. \A i \in 1..Len(v) : v[i] = chain[i]
    BY <1>8 DEF Begins
  <2>. QED BY <1>8, <1>10, <2>1, <2>2
<1>13. SubSeq(chain', 1, Len(chain)) = chain
  <2>. DEFINE S == DOMAIN blocks'
              t == SubSeq(chain', 1, Len(chain))
  <2>1. Linear(blocks', chain', {}, mainTip')
    BY DEF OrderInv, Arranged
  <2>2. chain' \in Seq(Upto(blocks', mainTip')) /\ chain \in Seq(DOMAIN blocks) /\ Len(chain) \in Nat
    BY <1>1, <2>1, LinearEnds DEF Listing
  <2>. DEFINE W == Upto(blocks', mainTip') \cup DOMAIN blocks
              c == chain'
  <2>3. chain' \in Seq(W) /\ chain \in Seq(W)
    BY <2>2, SeqWider
  <2>. HIDE DEF W, c
  <2>4. ASSUME NEW e \in Seq(W), Len(chain) <= Len(e) PROVE /\ SubSeq(e, 1, Len(chain)) \in Seq(W)
                    /\ Len(SubSeq(e, 1, Len(chain))) = Len(chain)
                    /\ \A i \in 1..Len(chain) : SubSeq(e, 1, Len(chain))[i] = e[i]
    BY <2>2, <2>4, SMT
  <2>5. t \in Seq(W) /\ Len(t) = Len(chain) /\ \A i \in 1..Len(chain) : t[i] = (chain')[i]
    BY <1>12, <2>3, <2>4
  <2>. HIDE DEF t
  <2>6. \A i \in 1..Len(t) : t[i] = chain[i]
    BY <1>12, <2>5
  <2>7. t = chain
    BY <2>3, <2>5, <2>6, SeqSame
  <2>. QED BY <2>7 DEF t
<1>14. ASSUME NEW b \in DOMAIN blocks, blocks[b].order # MaxBlockOrder
       PROVE  (blocks')[b].order = blocks[b].order
  <2>1. b \in Upto(blocks, mainTip)
    BY <1>14 DEF OrderInv, NoOrder
  <2>2. PICK i \in 1..Len(chain) : chain[i] = b
    BY <1>1, <2>1 DEF Listing
  <2>3. i \in 1..Len(chain') /\ (chain')[i] = b
    <3>1. Len(chain) \in Nat
      BY <1>1 DEF Listing
    <3>2. i \in 1..Len(chain')
      BY <1>12, <3>1, SMT
    <3>. QED BY <1>12, <2>2, <3>2
  <2>4. Numbered(blocks', chain', orderIds')
    BY DEF OrderInv, Arranged
  <2>5. (blocks')[(chain')[i]].order = i - 1
    BY <2>3, <2>4 DEF Numbered
  <2>6. blocks[chain[i]].order = i - 1
    BY <1>1, <2>2 DEF Listing
  <2>. QED BY <2>2, <2>3, <2>5, <2>6
<1>. QED BY <1>5, <1>12, <1>13, <1>14

-----------------------------------------------------------------------------
(* The order, through every step. *)

(* Every step keeps the invariant where the walk of the new block's diff   *)
(* anticone was wide enough.                                               *)
LEMMA OrderInvStep == OrderInv /\ [NextAnyParents]_vars /\ WalkExact' => OrderInv'
<1>. SUFFICES ASSUME OrderInv, [NextAnyParents]_vars, WalkExact' PROVE OrderInv'
  OBVIOUS
<1>1. CASE NextAnyParents
  <2>1. PICK ps \in (SUBSET DOMAIN blocks) \ {{}}, h \in Hashes : Fresh(h) /\ AddBlock(ps, h)
    BY <1>1 DEF NextAnyParents
  <2>. QED BY <2>1, AddBlockStepped
<1>2. CASE UNCHANGED vars
  <2>1. /\ blockTotal' = blockTotal /\ blocks' = blocks /\ tips' = tips
        /\ mainTip' = mainTip /\ mainChain' = mainChain /\ orderIds' = orderIds
        /\ diffAnticone' = diffAnticone /\ chain' = chain
    BY <1>2 DEF vars
  <2>2. MainInv'
    BY <2>1 DEF OrderInv, MainInv, LinkInv, LinksConsistent, ColourInv
  <2>. QED BY <2>1, <2>2 DEF OrderInv
<1>. QED BY <1>1, <1>2

(* A block on the main tip leaves the order below it alone. *)
LEMMA FutureStep ==
  OrderInv /\ [NextAnyParents]_vars /\ WalkExact'
    => [ (blockTotal' # blockTotal /\ (blocks')[blockTotal].mainParent = mainTip)
         => /\ Len(chain) <= Len(chain')
            /\ SubSeq(chain', 1, Len(chain)) = chain
            /\ \A b \in DOMAIN blocks :
                 blocks[b].order # MaxBlockOrder
                   => (blocks')[b].order = blocks[b].order ]_vars
<1>. SUFFICES ASSUME OrderInv, NextAnyParents, WalkExact', (blocks')[blockTotal].mainParent = mainTip
              PROVE  /\ Len(chain) <= Len(chain') /\ SubSeq(chain', 1, Len(chain)) = chain
                     /\ \A b \in DOMAIN blocks :
                          blocks[b].order # MaxBlockOrder => (blocks')[b].order = blocks[b].order
  OBVIOUS
<1>1. PICK ps \in (SUBSET DOMAIN blocks) \ {{}}, h \in Hashes : Fresh(h) /\ AddBlock(ps, h)
  BY DEF NextAnyParents
<1>2. OrderInv' /\ Stepped(coloured(ps, h), ps)
  BY <1>1, AddBlockStepped
<1>. QED BY <1>2, StepKeepsPast

(* The invariant holds of a DAG whose diff anticones were all found, for   *)
(* any parents isDAG accepts.                                              *)
LEMMA OrderInvHolds == SpecAnyParents /\ []WalkExact => []OrderInv
BY OrderInvInit, OrderInvStep, PTL DEF SpecAnyParents

(* Where the bounded walk of getDiffAnticone is wide enough for every      *)
(* block, getDiffAnticoneOrder lists every diff anticone exactly.          *)
THEOREM DiffAnticoneAnyParents == SpecAnyParents /\ []WalkExact => []DiffAnticoneExact
<1>1. OrderInv /\ WalkExact => DiffAnticoneExact
  BY InvDiffAnticone
<1>. QED BY <1>1, OrderInvHolds, PTL

(* There the blocks with an order are the main tip and its past, and the   *)
(* stored index agrees with the blocks (updateMainOrder, commitOrder).     *)
THEOREM OrderCoversPastAnyParents == SpecAnyParents /\ []WalkExact => []OrderCoversPast
<1>1. OrderInv => OrderCoversPast
  BY InvOrderCovers
<1>. QED BY <1>1, OrderInvHolds, PTL

(* There every block that has an order comes after its parents.            *)
THEOREM OrderTopologicalAnyParents == SpecAnyParents /\ []WalkExact => []OrderTopological
<1>1. OrderInv => OrderTopological
  BY InvTopological
<1>. QED BY <1>1, OrderInvHolds, PTL

(* There the chain connectDagChain keeps is the total order, block by      *)
(* block.                                                                  *)
THEOREM ChainMatchesOrderAnyParents == SpecAnyParents /\ []WalkExact => []ChainMatchesOrder
<1>1. OrderInv => ChainMatchesOrder
  BY InvChainMatches
<1>. QED BY <1>1, OrderInvHolds, PTL

(* There a block that builds on the main tip moves nothing that has an     *)
(* order ("The future can not affect the past").                           *)
THEOREM FutureKeepsPastAnyParents == SpecAnyParents /\ []WalkExact => FutureKeepsPast
BY FutureStep, OrderInvHolds, PTL DEF SpecAnyParents, FutureKeepsPast

-----------------------------------------------------------------------------
(* What the chain above relies on: the abstract ledger of DagLedger. *)

Parents(bs) == [c \in DOMAIN bs |-> bs[c].parents]

Ledger == INSTANCE DagLedger WITH
            Ids <- 0..(MaxBlocks - 1), dag <- Parents(blocks), ledger <- chain

(* The past of a block is the same in the DAG without colours. *)
LEMMA PastInLedger ==
  ASSUME NEW bs, NEW n, Acyclic(bs, n), NEW b \in 0..n
  PROVE  Ledger!PastIn(Parents(bs), b) = Past(bs, b)
<1>. DEFINE D == 0..n
            d == Parents(bs)
            past[c \in D] == d[c] \cup UNION {past[p] : p \in d[c]}
            f == [c \in D |-> Past(bs, c)]
<1>1. n \in Nat /\ DOMAIN bs = D /\ DOMAIN d = D /\ \A c \in D : d[c] = bs[c].parents
  BY DEF Acyclic, Parents
<1>2. \A c \in D : \A p \in bs[c].parents : p \in D /\ <<p, c>> \in Older(n)
  BY ParentsOlder
<1>3. Ledger!PastIn(Parents(bs), b) = past[b]
  BY <1>1 DEF Ledger!PastIn
<1>. HIDE DEF d
<1>4. \A c \in D : f[c] = d[c] \cup UNION {f[p] : p \in d[c]}
  <2>. SUFFICES ASSUME NEW c \in D PROVE f[c] = d[c] \cup UNION {f[p] : p \in d[c]}
    OBVIOUS
  <2>1. Past(bs, c) = bs[c].parents \cup UNION {Past(bs, p) : p \in bs[c].parents}
    BY PastFacts
  <2>2. f[c] = Past(bs, c) /\ d[c] = bs[c].parents /\ \A p \in d[c] : f[p] = Past(bs, p)
    BY <1>1, <1>2
  <2>. HIDE DEF f
  <2>3. UNION {f[p] : p \in d[c]} = UNION {Past(bs, p) : p \in bs[c].parents}
    BY <2>2
  <2>. QED BY <2>1, <2>2, <2>3
<1>5. f = [c \in D |-> d[c] \cup UNION {f[p] : p \in d[c]}]
  BY <1>4
<1>6. past = [c \in D |-> d[c] \cup UNION {past[p] : p \in d[c]}]
  <2>. HIDE DEF f
  <2>. QED BY <1>5
<1>. HIDE DEF past
<1>. DEFINE T == {c \in D : past[c] # Past(bs, c)}
<1>7. T = {}
  <2>1. SUFFICES ASSUME T # {} PROVE FALSE
    OBVIOUS
  <2>2. PICK c \in T : \A x \in T : <<x, c>> \notin Older(n)
    <3>1. T \in SUBSET D /\ Founded(Older(n), D)
      BY <1>1, OlderFounded
    <3>. HIDE DEF T, D
    <3>. QED BY <2>1, <3>1 DEF Founded
  <2>3. c \in D /\ d[c] = bs[c].parents /\ \A p \in bs[c].parents : past[p] = Past(bs, p)
    BY <1>1, <1>2, <2>2
  <2>4. UNION {past[p] : p \in d[c]} = UNION {Past(bs, p) : p \in bs[c].parents}
    BY <2>3
  <2>5. past[c] = bs[c].parents \cup UNION {Past(bs, p) : p \in bs[c].parents}
    BY <1>6, <2>3, <2>4
  <2>6. Past(bs, c) = bs[c].parents \cup UNION {Past(bs, p) : p \in bs[c].parents}
    BY <2>3, PastFacts
  <2>. QED BY <2>2, <2>5, <2>6
<1>. QED BY <1>3, <1>7

(* A list in topological order linearizes. *)
LEMMA LinearLinearizes ==
  ASSUME NEW bs, NEW n, Acyclic(bs, n), NEW b \in 0..n, NEW s, Linear(bs, s, {}, b)
  PROVE  Ledger!Linearizes(s, Parents(bs), b)
<1>. DEFINE U == Upto(bs, b)
<1>1. /\ s \in Seq(U)
      /\ \A c \in U : \E i \in 1..Len(s) : s[i] = c
      /\ \A i, j \in 1..Len(s) : s[i] = s[j] => i = j
      /\ \A i \in 1..Len(s) : \A p \in bs[s[i]].parents : \E j \in 1..(i - 1) : s[j] = p
  BY DEF Linear, Lists
<1>2. U \subseteq 0..n /\ DOMAIN bs = 0..n /\ U = Past(bs, b) \cup {b}
  BY PastStep DEF Upto, Acyclic
<1>. HIDE DEF U
<1>3. Len(s) \in Nat /\ DOMAIN s = 1..Len(s) /\ \A i \in 1..Len(s) : s[i] \in U
  BY <1>1, SMT
<1>4. Ledger!IsInjective(s)
  BY <1>1, <1>3 DEF Ledger!IsInjective
<1>5. Ledger!Range(s) = Ledger!PastIn(Parents(bs), b) \cup {b}
  <2>1. \A c : c \in Ledger!Range(s) <=> \E i \in 1..Len(s) : s[i] = c
    BY <1>3 DEF Ledger!Range
  <2>2. Ledger!Range(s) = U
    <3>. DEFINE R == Ledger!Range(s)
    <3>1. \A c : c \in R <=> \E i \in 1..Len(s) : s[i] = c
      BY <2>1
    <3>. HIDE DEF R
    <3>2. \A c : c \in R <=> c \in U
      <4>1. \A c \in U : \E i \in 1..Len(s) : s[i] = c
        BY <1>1
      <4>2. \A i \in 1..Len(s) : s[i] \in U
        BY <1>3
      <4>. QED BY <3>1, <4>1, <4>2
    <3>3. R = U
      BY <3>2
    <3>. QED BY <3>3 DEF R
  <2>. QED BY <1>2, <2>2, PastInLedger
<1>6. ASSUME NEW i \in 1..Len(s), NEW j \in 1..Len(s), s[i] \in Parents(bs)[s[j]]
      PROVE  i < j
  <2>1. s[i] \in bs[s[j]].parents
    BY <1>2, <1>3, <1>6 DEF Parents
  <2>2. PICK k \in 1..(j - 1) : s[k] = s[i]
    BY <1>1, <2>1
  <2>3. k \in 1..Len(s) /\ k < j
    BY <1>3, SMT
  <2>4. k = i
    BY <1>1, <2>2, <2>3
  <2>. QED BY <2>3, <2>4
<1>. QED BY <1>4, <1>5, <1>6 DEF Ledger!Linearizes

(* A block on the main tip has it as its main parent. *)
LEMMA OnMainTip ==
  ASSUME NEW bs, NEW ps \in SUBSET DOMAIN blocks, Stepped(bs, ps), mainTip \in ps
  PROVE  (blocks')[blockTotal].mainParent = mainTip
<1>. DEFINE n == blockTotal
            m == bs[n].mainParent
<1>1. n \in Nat /\ n \in 0..n /\ DOMAIN blocks \subseteq 0..n /\ DOMAIN bs = 0..n
  <2>1. n \in Nat /\ DOMAIN blocks = 0..(n - 1) /\ DOMAIN bs = 0..n
    BY DEF Stepped
  <2>. QED BY <2>1, SMT
<1>2. Bluest(bs, ps, m) /\ Bluest(bs, DOMAIN blocks, mainTip) /\ Ranked(bs, 0..n)
  BY DEF Stepped, OnBluest, Prepared
<1>3. m = mainTip
  <2>. HIDE DEF m
  <2>1. SUFFICES ASSUME m # mainTip PROVE FALSE
    OBVIOUS
  <2>2. m \in 0..n /\ mainTip \in 0..n /\ IsBluer(bs, m, mainTip) /\ IsBluer(bs, mainTip, m)
    BY <1>1, <1>2, <2>1 DEF Bluest
  <2>. QED BY <1>2, <2>2, BluerOrder
<1>. QED BY <1>1, <1>3 DEF Stepped, SameColours

(* The DAG without colours grows by the new block. *)
LEMMA ParentsGrow ==
  ASSUME NEW bs, NEW ps, Stepped(bs, ps)
  PROVE  /\ Ledger!Grow(blockTotal, ps)
         /\ Acyclic(blocks', blockTotal) /\ blockTotal \in 0..blockTotal
<1>. DEFINE n == blockTotal
<1>1. /\ n \in Nat /\ DOMAIN blocks = 0..(n - 1) /\ DOMAIN bs = 0..n /\ bs[n].parents = ps
      /\ Grown(bs, n, blocks', n) /\ Grown(blocks, n - 1, bs, n)
  BY DEF Stepped, Prepared
<1>2. 0..n = (0..(n - 1)) \cup {n} /\ n \notin 0..(n - 1) /\ n \in 0..n
  BY <1>1, SMT
<1>3. Acyclic(blocks', n) /\ DOMAIN blocks' = 0..n
  BY <1>1 DEF Grown, Acyclic
<1>4. \A c \in 0..n : (blocks')[c].parents = IF c = n THEN ps ELSE blocks[c].parents
  BY <1>1, <1>2 DEF Grown
<1>5. Parents(blocks') = [c \in DOMAIN Parents(blocks) \cup {n} |-> IF c = n THEN ps ELSE Parents(blocks)[c]]
  BY <1>1, <1>2, <1>3, <1>4 DEF Parents
<1>6. n \notin DOMAIN Parents(blocks)
  BY <1>1, <1>2 DEF Parents
<1>. QED BY <1>2, <1>3, <1>5, <1>6 DEF Ledger!Grow

(* Adding a block is a step of the ledger: on the main tip it extends it,  *)
(* elsewhere it leaves it alone or takes its end over.                     *)
LEMMA LedgerStep ==
  ASSUME OrderInv, NEW ps \in SUBSET DOMAIN blocks, ps # {}, NEW h \in Hashes, Fresh(h), AddBlock(ps, h),
         WalkExact'
  PROVE  Ledger!Next
<1>. DEFINE n  == blockTotal
            bs == coloured(ps, h)
<1>1. OrderInv' /\ Stepped(bs, ps)
  BY AddBlockStepped
<1>. HIDE DEF bs
<1>2. n \in 0..(MaxBlocks - 1)
  <2>1. n \in Nat /\ n < MaxBlocks
    BY <1>1 DEF Stepped, AddBlock
  <2>. QED BY <2>1, BlockAssumption, SMT
<1>3. ps \in (SUBSET DOMAIN Parents(blocks)) \ {{}}
  BY DEF Parents
<1>4. Ledger!Grow(n, ps) /\ Acyclic(blocks', n) /\ n \in 0..n
  BY <1>1, ParentsGrow
<1>5. chain[Len(chain)] = mainTip
  BY ChainListing DEF Listing
<1>6. ASSUME mainTip' = n PROVE Ledger!Linearizes(chain', Parents(blocks'), n)
  <2>1. Linear(blocks', chain', {}, n)
    BY <1>1, <1>6 DEF OrderInv, Arranged
  <2>. QED BY <1>4, <2>1, LinearLinearizes
<1>7. CASE mainTip \in ps
  <2>1. (blocks')[n].mainParent = mainTip
    BY <1>1, <1>7, OnMainTip
  <2>2. SubSeq(chain', 1, Len(chain)) = chain /\ mainTip' = n
    BY <1>1, <2>1, StepKeepsPast
  <2>3. Ledger!Extend(n, ps)
    BY <1>4, <1>5, <1>6, <1>7, <2>2 DEF Ledger!Extend, Ledger!LastBlock
  <2>. QED BY <1>2, <1>3, <2>3 DEF Ledger!Next
<1>8. CASE mainTip \notin ps
  <2>1. CASE chain' = chain
    <3>1. Ledger!Ignore(n, ps)
      BY <1>4, <1>5, <1>8, <2>1 DEF Ledger!Ignore, Ledger!LastBlock
    <3>. QED BY <1>2, <1>3, <3>1 DEF Ledger!Next
  <2>2. CASE mainTip' = n
    <3>1. Ledger!Switch(n, ps)
      BY <1>4, <1>5, <1>6, <1>8, <2>2 DEF Ledger!Switch, Ledger!LastBlock
    <3>. QED BY <1>2, <1>3, <3>1 DEF Ledger!Next
  <2>. QED BY <1>1, <2>1, <2>2 DEF Stepped
<1>. QED BY <1>7, <1>8

(* Where the bounded walk is wide enough, the DAG keeps the promise the    *)
(* chain above it relies on: each block extends the ledger, takes its end  *)
(* over or leaves it alone, and the ledger always lists its last block's   *)
(* past before that block, ancestors first.                                *)
THEOREM LedgerAnyParents == SpecAnyParents /\ []WalkExact => Ledger!Spec
<1>1. Init => Ledger!Init
  <2>. SUFFICES ASSUME Init PROVE Ledger!Init
    OBVIOUS
  <2>1. blocks[0].parents = {} /\ DOMAIN blocks = {0} /\ chain = <<0>>
    BY SMT DEF Init, Block, GenesisId
  <2>. QED BY <2>1 DEF Parents, Ledger!Init
<1>2. OrderInv /\ [NextAnyParents]_vars /\ WalkExact' => [Ledger!Next]_<<Parents(blocks), chain>>
  <2>. SUFFICES ASSUME OrderInv, [NextAnyParents]_vars, WalkExact'
                PROVE  [Ledger!Next]_<<Parents(blocks), chain>>
    OBVIOUS
  <2>1. CASE NextAnyParents
    <3>1. PICK ps \in (SUBSET DOMAIN blocks) \ {{}}, h \in Hashes : Fresh(h) /\ AddBlock(ps, h)
      BY <2>1 DEF NextAnyParents
    <3>2. Ledger!Next
      BY <3>1, LedgerStep
    <3>. QED BY <3>2
  <2>2. CASE UNCHANGED vars
    <3>1. blocks' = blocks /\ chain' = chain
      BY <2>2 DEF vars
    <3>. QED BY <3>1
  <2>. QED BY <2>1, <2>2
<1>. QED BY <1>1, <1>2, OrderInvHolds, PTL DEF SpecAnyParents, Ledger!Spec

-----------------------------------------------------------------------------
(* When the bounded walk is wide enough. *)

(* No block that is merged in, other than by the main parent, has a parent *)
(* more than one layer below it, unless that parent is at most             *)
(* MaxTipLayerGap + 3 layers below the main parent of the merging block.   *)
ShortLinks ==
  \A b \in DOMAIN blocks \ {GenesisId} :
    LET m == blocks[b].mainParent
    IN  \A c \in Past(blocks, b) \ (Past(blocks, m) \cup {m}) : \A p \in blocks[c].parents :
          \/ blocks[c].layer <= blocks[p].layer + 1
          \/ blocks[m].layer <= blocks[p].layer + MaxTipLayerGap + 3

(* The colours of b split the diff anticone found in a DAG with bs' links. *)
Walked(bs, cs, b) ==
  /\ "mainParent" \in DOMAIN cs[b]
  /\ \E set : /\ SameLinks(bs, set) /\ set[b].mainParent = cs[b].mainParent
              /\ cs[b].blue \cup cs[b].red = getDiffAnticone(set, b)

(* updateBlockColor colours what getDiffAnticone finds. *)
LEMMA UpdateBlockColorWalked ==
  ASSUME NEW bs, HasBodies(bs), HasLinks(bs), HasColours(bs), NEW b \in DOMAIN bs
  PROVE  Walked(bs, updateBlockColor(bs, b), b)
<1>. DEFINE tp   == getBluest(bs, bs[b].parents)
            h    == bs[tp].height + 1
            set  == [bs EXCEPT ![b].mainParent = tp, ![b].height = h]
            diff == getDiffAnticone(set, b)
            blue == {c \in diff : coloringRule(set, getKChain(set, b), c)}
            n    == bs[tp].blueNum + 1 + Cardinality(blue)
            red  == diff \ blue
            cs   == [set EXCEPT ![b].blueNum = n, ![b].blue = blue, ![b].red = red]
<1>1. updateBlockColor(bs, b) = cs
  BY SMT DEF updateBlockColor
<1>2. blue \cup red = diff
  <2>1. blue \subseteq diff
    <3>. HIDE DEF diff
    <3>. QED OBVIOUS
  <2>. HIDE DEF blue, diff
  <2>. QED BY <2>1
<1>3. diff = getDiffAnticone(set, b)
  OBVIOUS
<1>. HIDE DEF tp, diff, blue, n, red, h
<1>4. SameLinks(bs, set)
  BY SMT DEF HasLinks, SameLinks, LinkFields
<1>5. b \in DOMAIN set /\ BodyFields \subseteq DOMAIN set[b] /\ "mainParent" \in DOMAIN set[b]
  BY SMT DEF HasBodies, HasColours, BodyFields, ColourFields
<1>. HIDE DEF set
<1>6. /\ cs[b].blue = blue /\ cs[b].red = red /\ cs[b].mainParent = set[b].mainParent
      /\ "mainParent" \in DOMAIN cs[b]
  BY <1>5 DEF BodyFields
<1>. HIDE DEF cs
<1>7. cs[b].blue \cup cs[b].red = getDiffAnticone(set, b)
  BY <1>2, <1>3, <1>6
<1>8. Walked(bs, cs, b)
  BY <1>4, <1>6, <1>7 DEF Walked
<1>. QED BY <1>1, <1>8

(* So does AddBlock. *)
LEMMA ColouredWalked ==
  ASSUME LinkInv, HasColours(blocks), HasBodies(blocks), NEW ps \in SUBSET DOMAIN blocks, ps # {}, NEW h
  PROVE  Walked(linkBlock(ps, h), coloured(ps, h), blockTotal)
<1>. DEFINE n == blockTotal
            l == linkBlock(ps, h)
            cs == updateBlockColor(l, n)
            o == getDiffAnticoneOrder(cs, n)
            ds == [cs EXCEPT ![n].diffOrder = o]
<1>1. HasBodies(l) /\ HasLinks(l) /\ DOMAIN l = 0..n /\ HasColours(l)
  BY LinkBlockBodies, LinkBlockLinks, LinkBlockColours DEF Linked
<1>2. n \in DOMAIN l
  BY <1>1, SMT DEF LinkInv
<1>. HIDE DEF l
<1>3. Walked(l, cs, n)
  BY <1>1, <1>2, UpdateBlockColorWalked
<1>4. HasBodies(cs) /\ DOMAIN cs = DOMAIN l
  BY <1>1, <1>2, UpdateBlockColorBodies
<1>5. coloured(ps, h) = ds
  BY DEF coloured, updateBlockOrder, l
<1>. HIDE DEF cs, o
<1>6. n \in DOMAIN cs /\ BodyFields \subseteq DOMAIN cs[n]
  BY <1>2, <1>4 DEF HasBodies
<1>7. /\ ds[n].blue = cs[n].blue /\ ds[n].red = cs[n].red /\ ds[n].mainParent = cs[n].mainParent
      /\ "mainParent" \in DOMAIN ds[n]
  <2>1. "mainParent" \in DOMAIN cs[n]
    BY <1>3 DEF Walked
  <2>. QED BY <1>6, <2>1 DEF BodyFields
<1>. HIDE DEF ds
<1>8. Walked(l, ds, n)
  BY <1>3, <1>7 DEF Walked
<1>. QED BY <1>5, <1>8 DEF l

(* The links of the invariant fall in layers. *)
LEMMA LinksLayered ==
  ASSUME LinkInv
  PROVE  Layered(blocks, blockTotal - 1)
<1>1. DOMAIN blocks = 0..(blockTotal - 1)
  BY DEF LinkInv
<1>2. \A c \in DOMAIN blocks :
        /\ c # GenesisId => blocks[c].parents # {}
        /\ c # GenesisId => \A p \in blocks[c].parents : blocks[c].layer > blocks[p].layer
        /\ c = GenesisId => blocks[c].parents = {}
  <2>1. \A c \in DOMAIN blocks :
          /\ c # GenesisId => blocks[c].parents # {}
          /\ c # GenesisId => \A p \in blocks[c].parents : blocks[c].layer > blocks[p].layer
    BY DEF LinkInv, LinksConsistent
  <2>2. ASSUME NEW c \in DOMAIN blocks, c = GenesisId PROVE blocks[c].parents = {}
    <3>1. blocks[c].parents \subseteq 0..(c - 1)
      BY DEF LinkInv
    <3>2. 0..(c - 1) = {}
      BY <2>2, SMT DEF GenesisId
    <3>. QED BY <3>1, <3>2
  <2>. QED BY <2>1, <2>2
<1>3. \A c \in DOMAIN blocks : blocks[c].layer \in Nat /\ \A p \in blocks[c].parents : p \in DOMAIN blocks
  <2>. SUFFICES ASSUME NEW c \in DOMAIN blocks
                PROVE  blocks[c].layer \in Nat /\ \A p \in blocks[c].parents : p \in DOMAIN blocks
    OBVIOUS
  <2>1. c \in 0..(blockTotal - 1) /\ blockTotal \in Nat /\ blocks[c].layer \in 0..c /\ blocks[c].parents \subseteq 0..(c - 1)
    BY <1>1 DEF LinkInv
  <2>2. blocks[c].layer \in Nat /\ \A p \in 0..(c - 1) : p \in 0..(blockTotal - 1)
    BY <2>1, SMT
  <2>. QED BY <1>1, <2>1, <2>2
<1>4. ASSUME NEW c \in DOMAIN blocks, NEW p \in blocks[c].parents PROVE blocks[p].layer < blocks[c].layer
  <2>1. blocks[c].layer > blocks[p].layer
    BY <1>2
  <2>2. blocks[c].layer \in Nat /\ blocks[p].layer \in Nat
    BY <1>3
  <2>. QED BY <2>1, <2>2, SMT
<1>. QED BY <1>1, <1>2, <1>3, <1>4 DEF Layered

InLayers == Layered(blocks, blockTotal - 1)

(* After a step, too. *)
LEMMA LayeredStep == LinkInv' => InLayers'
<1>1. LinkInv => InLayers
  BY LinksLayered DEF InLayers
<1>. QED BY <1>1, PTL

(* Colouring a block whose parents name no ancestor of another: the DAG    *)
(* getDiffAnticone walks is one it finds the diff anticone of.             *)
LEMMA NewWalkCase ==
  ASSUME LinkInv, NEW ps \in SUBSET DOMAIN blocks, ps # {}, NEW h, AddBlock(ps, h), Antichain(ps), ShortLinks',
         NEW m \in ps, (blocks')[blockTotal].mainParent = m,
         NEW set, SameLinks(linkBlock(ps, h), set), set[blockTotal].mainParent = m
  PROVE  WalkCase(set, blockTotal, blockTotal, m)
<1>. DEFINE n == blockTotal
            l == linkBlock(ps, h)
            g == MaxTipLayerGap
<1>1. LinkInv' /\ blockTotal' = n + 1 /\ SameLinks(l, blocks')
  BY LinkInvAddBlock, AddBlockLinks DEF AddBlock
<1>2. n \in Nat /\ n \in 0..n /\ n # 0 /\ n + 1 - 1 = n /\ DOMAIN blocks = 0..(n - 1) /\ \A c \in 0..(n - 1) : c \in 0..n
  BY SMT DEF LinkInv
<1>3. Linked(l, ps)
  BY LinkBlockLinks
<1>4. DOMAIN l = 0..n /\ DOMAIN set = 0..n /\ DOMAIN blocks' = 0..n
  BY <1>1, <1>3 DEF Linked, SameLinks
<1>5. /\ Acyclic(set, n) /\ set[n].parents = ps /\ Grown(blocks, n - 1, set, n)
      /\ Acyclic(blocks', n) /\ Grown(blocks, n - 1, blocks', n)
  BY <1>1, <1>4, ColouredAcyclic
<1>6. \A c \in 0..n : (blocks')[c].parents = set[c].parents /\ (blocks')[c].layer = set[c].layer
  BY <1>1, <1>4 DEF SameLinks
<1>7. Layered(set, n)
  <2>1. ASSUME NEW c \in 0..n
        PROVE  /\ (blocks')[c].layer \in Nat
               /\ c # GenesisId => (blocks')[c].parents # {}
               /\ \A p \in (blocks')[c].parents : (blocks')[p].layer < (blocks')[c].layer
    <3>1. Layered(blocks', blockTotal' - 1)
      BY <1>1, LayeredStep DEF InLayers
    <3>2. blockTotal' - 1 = n
      BY <1>1, <1>2, SMT
    <3>3. Layered(blocks', n)
      BY <3>1, <3>2
    <3>. QED BY <3>3 DEF Layered
  <2>2. \A c \in 0..n : \A p \in set[c].parents : p \in 0..n
    BY <1>5, ParentsOlder
  <2>. QED BY <1>6, <2>1, <2>2 DEF Layered
<1>8. SamePasts(blocks, n - 1, set) /\ SamePasts(set, n, blocks')
  <2>1. Grown(set, n, blocks', n)
    <3>1. n <= n
      BY <1>2, SMT
    <3>. QED BY <1>5, <1>6, <3>1 DEF Grown
  <2>. QED BY <1>5, <2>1, GrownPast
<1>9. m \in 0..n /\ m \in 0..(n - 1) /\ m \in set[n].parents
  BY <1>2, <1>5
<1>10. ASSUME NEW q \in set[n].parents
       PROVE  q \notin Past(set, m) /\ set[m].layer <= set[q].layer + g
  <2>1. q \in ps /\ q \in 0..(n - 1)
    BY <1>2, <1>5
  <2>2. q \notin Past(set, m)
    <3>1. q \notin Past(blocks, m)
      BY <2>1 DEF Antichain
    <3>. QED BY <1>8, <1>9, <3>1 DEF SamePasts
  <2>3. blocks[m].layer - blocks[q].layer <= g
    BY <2>1 DEF AddBlock, isDAG, checkLayerGap
  <2>4. blocks[m].layer = set[m].layer /\ blocks[q].layer = set[q].layer
    BY <1>2, <1>3, <1>4, <1>9, <2>1 DEF Linked, SameLinks
  <2>5. set[m].layer \in Nat /\ set[q].layer \in Nat
    BY <1>2, <1>7, <1>9, <2>1 DEF Layered
  <2>6. set[m].layer <= set[q].layer + g
    BY <2>3, <2>4, <2>5, RuleAssumption, SMT
  <2>. QED BY <2>2, <2>6
<1>11. ASSUME NEW c \in Past(set, n) \ Upto(set, m), NEW p \in set[c].parents
       PROVE  set[c].layer <= set[p].layer + 1 \/ set[m].layer <= set[p].layer + g + 3
  <2>1. /\ Past(blocks', n) = Past(set, n) /\ Upto(blocks', m) = Upto(set, m)
        /\ c \in 0..n
    BY <1>2, <1>8, <1>9 DEF SamePasts
  <2>2. p \in 0..n /\ p \in (blocks')[c].parents
    BY <1>5, <1>6, <2>1, ParentsOlder
  <2>3. n \in DOMAIN blocks' \ {GenesisId}
    BY <1>2, <1>4 DEF GenesisId
  <2>4. \/ (blocks')[c].layer <= (blocks')[p].layer + 1
        \/ (blocks')[m].layer <= (blocks')[p].layer + g + 3
    BY <2>1, <2>2, <2>3 DEF ShortLinks, Upto
  <2>. QED BY <1>6, <1>9, <2>1, <2>2, <2>4
<1>. HIDE DEF g
<1>. QED BY <1>2, <1>5, <1>7, <1>9, <1>10, <1>11 DEF WalkCase, g

(* A block added with parents none of which is an ancestor of another has  *)
(* its diff anticone found.                                                *)
LEMMA AddBlockWalkExact ==
  ASSUME OrderInv, WalkExact, NEW ps \in SUBSET DOMAIN blocks, ps # {}, NEW h \in Hashes, Fresh(h),
         AddBlock(ps, h), Antichain(ps), ShortLinks'
  PROVE  WalkExact'
<1>. DEFINE n  == blockTotal
            l  == linkBlock(ps, h)
            bs == coloured(ps, h)
            m  == bs[n].mainParent
<1>1. MainInv /\ LinkInv /\ ColourInv /\ HasColours(blocks) /\ HasBodies(blocks)
  BY DEF OrderInv, MainInv, ColourInv, Arranged
<1>2. h \in Nat
  BY BlockAssumption
<1>3. HasColours(bs) /\ Extends(bs) /\ OnBluest(bs, ps)
  BY <1>1, <1>2, ColouredFacts
<1>4. HasBodies(bs) /\ KeepsBodies(bs)
  BY <1>1, ColouredBodies
<1>5. SameLinks(l, bs) /\ DOMAIN bs = 0..n
  BY <1>1, ColouredLinks
<1>6. KeepMainTip(bs) \/ MoveMainTip(bs)
  BY DEF AddBlock
<1>7. Walked(l, bs, n)
  BY <1>1, ColouredWalked
<1>. HIDE DEF bs, l
<1>8. SameColours(bs, blocks') /\ SameBodies(bs, blocks')
  BY <1>3, <1>4, <1>6, TipStepColours, TipStepBodies
<1>9. n \in Nat /\ n \in 0..n /\ 0..n = (0..(n - 1)) \cup {n} /\ n \notin 0..(n - 1) /\ DOMAIN blocks = 0..(n - 1)
  BY <1>1, SMT DEF LinkInv
<1>10. SameLinks(l, blocks') /\ DOMAIN blocks' = 0..n
  <2>1. SameLinks(l, blocks')
    BY <1>1, AddBlockLinks DEF l
  <2>. QED BY <1>5, <2>1 DEF SameLinks
<1>11. m \in ps /\ (blocks')[n].mainParent = m
  BY <1>3, <1>5, <1>8, <1>9 DEF OnBluest, Bluest, SameColours
<1>12. Grown(blocks, n - 1, blocks', n) /\ Acyclic(blocks', n)
  BY <1>1, <1>10, ColouredAcyclic DEF l
<1>13. (blocks')[n].blue \cup (blocks')[n].red = Past(blocks', n) \ Upto(blocks', m)
  <2>1. PICK set : /\ SameLinks(l, set) /\ set[n].mainParent = m
                   /\ bs[n].blue \cup bs[n].red = getDiffAnticone(set, n)
    BY <1>7 DEF Walked
  <2>. HIDE DEF m
  <2>2. WalkCase(set, n, n, m)
    BY <1>1, <1>11, <2>1, NewWalkCase DEF l
  <2>3. Found(set, n, m)
    BY <2>2, DiffAnticoneFound
  <2>4. (blocks')[n].blue = bs[n].blue /\ (blocks')[n].red = bs[n].red
    BY <1>5, <1>8, <1>9 DEF SameBodies
  <2>5. SamePasts(set, n, blocks') /\ m \in 0..n
    <3>1. n <= n
      BY <1>9, SMT
    <3>2. Acyclic(set, n) /\ m \in 0..n
      BY <2>2 DEF WalkCase
    <3>3. \A c \in 0..n : (blocks')[c].parents = set[c].parents
      <4>1. DOMAIN l = 0..n
        BY <1>5 DEF SameLinks
      <4>. QED BY <1>10, <2>1, <4>1 DEF SameLinks
    <3>4. Grown(set, n, blocks', n)
      BY <1>12, <3>1, <3>2, <3>3 DEF Grown
    <3>. QED BY <3>2, <3>4, GrownPast
  <2>6. Past(blocks', n) = Past(set, n) /\ Upto(blocks', m) = Upto(set, m)
    BY <1>9, <2>5 DEF SamePasts
  <2>. QED BY <2>1, <2>3, <2>4, <2>6 DEF Found
<1>. HIDE DEF m
<1>14. ASSUME NEW b \in DOMAIN blocks', b # GenesisId
       PROVE  LET r == (blocks')[b]
              IN  r.blue \cup r.red = Past(blocks', b) \ (Past(blocks', r.mainParent) \cup {r.mainParent})
  <2>1. CASE b = n
    BY <1>11, <1>13, <2>1 DEF Upto
  <2>2. CASE b # n
    <3>1. b \in 0..(n - 1) /\ b \in DOMAIN blocks \ {GenesisId} /\ b \in DOMAIN bs
      BY <1>5, <1>9, <1>10, <1>14, <2>2
    <3>2. /\ (blocks')[b].blue = blocks[b].blue /\ (blocks')[b].red = blocks[b].red
          /\ (blocks')[b].mainParent = blocks[b].mainParent
      BY <1>3, <1>4, <1>8, <3>1 DEF SameBodies, SameColours, KeepsBodies, Extends
    <3>3. blocks[b].mainParent \in 0..(n - 1)
      <4>1. blocks[b].mainParent \in 0..(b - 1)
        BY <1>1, <1>9, <3>1 DEF ColourInv, Chained
      <4>. QED BY <1>9, <3>1, <4>1, SMT
    <3>4. SamePasts(blocks, n - 1, blocks')
      BY <1>12, GrownPast
    <3>5. /\ Past(blocks', b) = Past(blocks, b)
          /\ Past(blocks', blocks[b].mainParent) = Past(blocks, blocks[b].mainParent)
      BY <3>1, <3>3, <3>4 DEF SamePasts
    <3>6. blocks[b].blue \cup blocks[b].red
            = Past(blocks, b) \ (Past(blocks, blocks[b].mainParent) \cup {blocks[b].mainParent})
      BY <3>1 DEF WalkExact
    <3>. QED BY <3>2, <3>5, <3>6
  <2>. QED BY <2>1, <2>2
<1>. QED BY <1>14 DEF WalkExact

(* Every step keeps both. *)
LEMMA WalkStep == OrderInv /\ WalkExact /\ [Next]_vars /\ ShortLinks' => OrderInv' /\ WalkExact'
<1>. SUFFICES ASSUME OrderInv, WalkExact, [Next]_vars, ShortLinks' PROVE OrderInv' /\ WalkExact'
  OBVIOUS
<1>1. CASE Next
  <2>1. PICK ps \in (SUBSET DOMAIN blocks) \ {{}}, h \in Hashes : Fresh(h) /\ Antichain(ps) /\ AddBlock(ps, h)
    BY <1>1 DEF Next
  <2>2. WalkExact'
    BY <2>1, AddBlockWalkExact
  <2>. QED BY <2>1, <2>2, AddBlockStepped
<1>2. CASE UNCHANGED vars
  <2>1. blocks' = blocks
    BY <1>2 DEF vars
  <2>2. WalkExact'
    BY <2>1 DEF WalkExact
  <2>. QED BY <1>2, <2>2, OrderInvStep
<1>. QED BY <1>1, <1>2

(* As long as no block that is merged in reaches too far down, the bounded *)
(* walk of getDiffAnticone finds every diff anticone, for every anticone   *)
(* size and layer gap.                                                     *)
THEOREM WalkAlwaysExact == Spec /\ []ShortLinks => []WalkExact
<1>1. Init => WalkExact
  <2>. SUFFICES ASSUME Init PROVE WalkExact
    OBVIOUS
  <2>1. DOMAIN blocks \ {GenesisId} = {}
    BY SMT DEF Init
  <2>. QED BY <2>1 DEF WalkExact
<1>. QED BY <1>1, OrderInvInit, WalkStep, PTL DEF Spec

(* Then each diff anticone is coloured and listed exactly                  *)
(* (getDiffAnticone, getDiffAnticoneOrder).                                *)
THEOREM DiffAnticoneAlwaysExact == Spec /\ []ShortLinks => []DiffAnticoneExact
<1>1. Next => NextAnyParents
  BY SMT DEF Next, NextAnyParents
<1>2. Spec => SpecAnyParents
  BY <1>1, PTL DEF Spec, SpecAnyParents
<1>. QED BY <1>2, WalkAlwaysExact, DiffAnticoneAnyParents, PTL

(* Then the total order covers the main tip's past and has every block     *)
(* after its parents, the connected chain is that order through every      *)
(* reorganization, no block moves what is below the main tip it builds on, *)
(* and the chain above sees the ledger it was promised.                    *)
THEOREM OrderAlwaysHolds ==
  Spec /\ []ShortLinks
    => /\ []OrderCoversPast /\ []OrderTopological /\ []ChainMatchesOrder
       /\ FutureKeepsPast /\ Ledger!Spec
<1>1. Next => NextAnyParents
  BY SMT DEF Next, NextAnyParents
<1>2. Spec => SpecAnyParents
  BY <1>1, PTL DEF Spec, SpecAnyParents
<1>. QED BY <1>2, WalkAlwaysExact, OrderCoversPastAnyParents, OrderTopologicalAnyParents,
            ChainMatchesOrderAnyParents, FutureKeepsPastAnyParents, LedgerAnyParents, PTL

(* A DAG of at most MaxTipLayerGap + 5 blocks has no link too long. *)
LEMMA YoungDag ==
  ASSUME LinkInv, ColourInv, blockTotal <= MaxTipLayerGap + 5
  PROVE  ShortLinks
<1>. DEFINE n == blockTotal - 1
<1>. SUFFICES ASSUME NEW b \in DOMAIN blocks, b # GenesisId, NEW c \in Past(blocks, b), NEW p \in blocks[c].parents
              PROVE  blocks[blocks[b].mainParent].layer <= blocks[p].layer + MaxTipLayerGap + 3
  BY DEF ShortLinks
<1>. DEFINE m == blocks[b].mainParent
<1>1. Acyclic(blocks, n) /\ DOMAIN blocks = 0..n
  BY LinksAcyclic
<1>2. c \in 0..n
  BY <1>1, PastStep
<1>3. p \in DOMAIN blocks
  BY <1>1, <1>2, ParentsOlder
<1>4. m \in 0..(b - 1)
  BY <1>1 DEF ColourInv, Chained
<1>5. blockTotal \in Nat /\ b \in 0..n /\ p \in 0..n
  BY <1>1, <1>3 DEF LinkInv
<1>6. m \in 0..n /\ m <= MaxTipLayerGap + 3
  BY <1>4, <1>5, RuleAssumption, SMT
<1>7. blocks[m].layer \in 0..m /\ blocks[p].layer \in 0..p
  BY <1>1, <1>3, <1>6 DEF LinkInv
<1>. HIDE DEF m
<1>8. blocks[m].layer <= blocks[p].layer + MaxTipLayerGap + 3
  BY <1>5, <1>6, <1>7, RuleAssumption, SMT
<1>. QED BY <1>8 DEF m

(* All of this holds unconditionally of every DAG that small: the order is *)
(* exact, topological and the chain's, for every anticone size and hashes. *)
THEOREM YoungDagOrdered ==
  ASSUME MaxBlocks <= MaxTipLayerGap + 5
  PROVE  Spec => /\ []DiffAnticoneExact /\ []OrderCoversPast /\ []OrderTopological
                 /\ []ChainMatchesOrder /\ FutureKeepsPast /\ Ledger!Spec
<1>. DEFINE Small == blockTotal <= MaxTipLayerGap + 5
<1>1. Init => Small
  BY RuleAssumption, SMT DEF Init
<1>2. Next => NextAnyParents
  BY SMT DEF Next, NextAnyParents
<1>3. MainInv /\ Small /\ [NextAnyParents]_vars => MainInv' /\ Small'
  <2>. SUFFICES ASSUME MainInv, Small, [NextAnyParents]_vars PROVE MainInv' /\ Small'
    OBVIOUS
  <2>1. CASE NextAnyParents
    <3>1. PICK ps \in (SUBSET DOMAIN blocks) \ {{}}, h \in Hashes : Fresh(h) /\ AddBlock(ps, h)
      BY <2>1 DEF NextAnyParents
    <3>2. MainInv'
      BY <3>1, MainInvAddBlock
    <3>3. blockTotal' = blockTotal + 1 /\ blockTotal < MaxBlocks /\ blockTotal \in Nat
      BY <3>1 DEF AddBlock, MainInv, LinkInv
    <3>. QED BY <3>2, <3>3, RuleAssumption, BlockAssumption, SMT
  <2>2. CASE UNCHANGED vars
    <3>1. /\ blockTotal' = blockTotal /\ blocks' = blocks /\ tips' = tips
          /\ mainTip' = mainTip /\ mainChain' = mainChain
      BY <2>2 DEF vars
    <3>. QED BY <3>1 DEF MainInv, LinkInv, LinksConsistent, ColourInv
  <2>. QED BY <2>1, <2>2
<1>4. MainInv /\ Small => ShortLinks
  BY YoungDag DEF MainInv
<1>5. Spec => []ShortLinks
  BY <1>1, <1>2, <1>3, <1>4, MainInvInit, PTL DEF Spec
<1>. QED BY <1>5, DiffAnticoneAlwaysExact, OrderAlwaysHolds, PTL

=============================================================================
