---------------------------- MODULE PhantomRules ----------------------------
(***************************************************************************)
(* The pure part of the block DAG (core/blockdag): what the PHANTOM        *)
(* instance computes from the blocks it holds.                             *)
(*                                                                         *)
(* A DAG is a function bs from block ids to block records; ids are given   *)
(* in order of arrival and 0 is the genesis block.  A record has the       *)
(* fields of Block and PhantomBlock that decide anything:                  *)
(*   hash                the rank of the block's hash (hashes are compared *)
(*                       as strings and never computed with)               *)
(*   parents, children   sets of ids                                       *)
(*   layer, height, mainParent, blueNum, order                             *)
(*   blue, red           blueDiffAnticone and redDiffAnticone              *)
(*   diffOrder           the index the code stores with each member of     *)
(*                       the two sets, as the sequence it comes from       *)
(***************************************************************************)
EXTENDS Integers, Sequences, FiniteSets, Functions

CONSTANTS anticoneSize,     \* the k of PHANTOM
          MaxTipLayerGap,   \* parents further apart in layers are refused
          MaxId,            \* "no block"
          MaxBlockOrder     \* the order of a block that has none

ASSUME RuleAssumption ==
  /\ anticoneSize \in Nat
  /\ MaxTipLayerGap \in Nat
  /\ MaxId \notin Nat
  /\ MaxBlockOrder \notin Nat

GenesisId == 0

ParentsOf(bs, S) == UNION {bs[b].parents : b \in S}

-----------------------------------------------------------------------------
(* Who is bluer: the larger blueNum, then the smaller hash. *)

(* Mutant: the block that arrived first wins a tie. *)
IsBluerByArrival(bs, a, b) ==
  \/ bs[a].blueNum > bs[b].blueNum
  \/ bs[a].blueNum = bs[b].blueNum /\ a < b

IsBluer(bs, a, b) ==
  \/ bs[a].blueNum > bs[b].blueNum
  \/ bs[a].blueNum = bs[b].blueNum /\ bs[a].hash < bs[b].hash

getBluest(bs, S) == CHOOSE b \in S : \A c \in S \ {b} : IsBluer(bs, b, c)

-----------------------------------------------------------------------------
(* Parents a new block may have. *)

(* Mutant: the parents are compared with the whole DAG. *)
checkLayerGapOfDag(bs, ps) ==
  \A p \in ps, q \in DOMAIN bs : bs[q].layer - bs[p].layer <= MaxTipLayerGap

checkLayerGap(bs, ps) ==
  \A p, q \in ps : bs[p].layer - bs[q].layer <= MaxTipLayerGap

checkLegality(bs, ps) ==
  \A p \in ps : bs[p].parents \cap ps = {} /\ bs[p].children \cap ps = {}

-----------------------------------------------------------------------------
(* The diff anticone of a block: what its other parents bring in that the  *)
(* main parent's past does not hold.  The code walks a tree of parents     *)
(* from the other parents down (nodes, of which the expanded ones have     *)
(* their parents in the tree) and widens, one generation at a time, the    *)
(* part of the main parent's past it knows (sub).                          *)

inMainSubDag(bs, walk) ==
  LET reached[b \in walk.nodes] ==
        \/ b \in walk.sub
        \/ \E c \in walk.expanded : b \in bs[c].parents /\ reached[c]
  IN  {b \in walk.nodes : reached[b]}

getTreeTips(bs, walk) ==
  (walk.nodes \ inMainSubDag(bs, walk)) \ walk.expanded

(* Mutant: the main parent's past is not followed. *)
widenSubNot(bs, walk) == walk

widenSub(bs, walk) == [walk EXCEPT !.sub = @ \cup ParentsOf(bs, @)]

(* The tree before its first step, and the main parent's past as far as it *)
(* is followed before.                                                     *)
firstWalk(bs, b) ==
  LET first[i \in 0..(MaxTipLayerGap + 2)] ==
        IF i = 0
        THEN [sub |-> {GenesisId, bs[b].mainParent},
              nodes |-> bs[b].parents \ {bs[b].mainParent}, expanded |-> {}]
        ELSE widenSub(bs, first[i - 1])
  IN  first[MaxTipLayerGap + 2]

lastWalk(bs, w) ==
  LET Ids   == DOMAIN bs
      Walks == [sub : SUBSET Ids, nodes : SUBSET Ids, expanded : SUBSET Ids]
      descend[walk \in Walks] ==
        IF getTreeTips(bs, walk) = {} THEN walk
        ELSE LET wide == widenSub(bs, walk)
                 now  == getTreeTips(bs, wide)
             IN  descend[[wide EXCEPT !.nodes = @ \cup ParentsOf(bs, now),
                                      !.expanded = @ \cup now]]
  IN  descend[w]

getDiffAnticone(bs, b) ==
  LET last == lastWalk(bs, firstWalk(bs, b))
  IN  IF Cardinality(bs[b].parents) <= 1 THEN {}
      ELSE (bs[b].parents \ {bs[b].mainParent})
             \cup (last.nodes \ inMainSubDag(bs, last))

(* IsDAG: a block with several parents must bring one of them in.          *)
IsDAG(bs, ps) ==
  \/ Cardinality(ps) = 1
  \/ LET v  == Cardinality(DOMAIN bs)
         vb == [parents |-> ps, mainParent |-> getBluest(bs, ps)]
     IN  getDiffAnticone([x \in DOMAIN bs \cup {v} |->
                            IF x = v THEN vb ELSE bs[x]], v) \cap ps # {}

isDAG(bs, ps) ==
  checkLayerGap(bs, ps) /\ checkLegality(bs, ps) /\ IsDAG(bs, ps)

-----------------------------------------------------------------------------
(* Colouring: the k-chain of a block is its main-parent chain down to      *)
(* where more than anticoneSize blue blocks have been merged; a block is   *)
(* blue when its own main-parent chain meets it above the chain's end.     *)

getKChain(bs, b) ==
  LET chain[c \in DOMAIN bs, merged \in Nat] ==
        LET count == merged + Cardinality(bs[c].blue)
        IN  IF count > anticoneSize \/ bs[c].mainParent = MaxId
            THEN [blocks |-> {c}, miniLayer |-> bs[c].layer]
            ELSE LET rest == chain[bs[c].mainParent, count]
                 IN  [rest EXCEPT !.blocks = @ \cup {c}]
  IN  chain[b, 0]

coloringRule(bs, kc, b) ==
  LET blue[c \in DOMAIN bs] ==
        /\ bs[c].layer >= kc.miniLayer
        /\ \/ c \in kc.blocks
           \/ bs[c].mainParent # MaxId /\ blue[bs[c].mainParent]
  IN  blue[b]

-----------------------------------------------------------------------------
(* The order in which a block's diff anticone enters the total order. *)

(* Mutant: sorted by id, which depends on the order of arrival. *)
SortIdList(bs, S) ==
  [i \in 1..Cardinality(S) |->
     CHOOSE b \in S : Cardinality({c \in S : c < b}) = i - 1]

SortHashList(bs, S) ==
  [i \in 1..Cardinality(S) |->
     CHOOSE b \in S : Cardinality({c \in S : bs[c].hash < bs[b].hash}) = i - 1]

sortBlocks(bs, lastBlock, blue, toSort, diff) ==
  LET remaining == (toSort \ {lastBlock}) \cap diff
  IN  (IF lastBlock \in diff \cap toSort THEN <<lastBlock>> ELSE <<>>)
      \o SortHashList(bs, remaining \cap blue)
      \o SortHashList(bs, remaining \ blue)

getDiffAnticoneOrder(bs, b) ==
  LET blue == bs[b].blue
      diff == blue \cup bs[b].red
      drain[st \in Seq(diff) \X Seq(diff)] ==
        LET ordered == st[1]
            toOrder == st[2]
            cur     == Head(toOrder)
            missing == (bs[cur].parents \cap diff) \ Range(ordered)
        IN  IF toOrder = <<>> THEN ordered
            ELSE IF cur \in Range(ordered)
            THEN drain[<<ordered, Tail(toOrder)>>]
            ELSE IF missing # {}
            THEN drain[<<ordered, sortBlocks(bs, bs[cur].mainParent, blue,
                                             missing, diff) \o toOrder>>]
            ELSE drain[<<Append(ordered, cur), Tail(toOrder)>>]
  IN  drain[<<<<>>, sortBlocks(bs, bs[b].mainParent, blue,
                               bs[b].parents, diff)>>]

-----------------------------------------------------------------------------
(* The anticone of a block that no block follows yet: the blocks whose     *)
(* every child is in it.                                                   *)
getAnticone(bs, b) ==
  LET virtualTip[c \in DOMAIN bs] ==
        c # b /\ \A d \in bs[c].children : virtualTip[d]
  IN  {c \in DOMAIN bs : virtualTip[c]}

=============================================================================
