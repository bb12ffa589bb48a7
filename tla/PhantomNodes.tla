---------------------------- MODULE PhantomNodes ----------------------------
(***************************************************************************)
(* Two nodes that hold the block DAG of Phantom.  The first one accepts    *)
(* new blocks; the second one receives them in any order that delivers     *)
(* parents first (BlockChain.ProcessBlock keeps the others as orphans).    *)
(* Ids differ between the nodes, so blocks are compared by hash.           *)
(***************************************************************************)
EXTENDS Integers, Sequences, FiniteSets

CONSTANTS anticoneSize, MaxTipLayerGap, MaxId, MaxBlockOrder, MaxBlocks, Hashes

VARIABLES totalA, blocksA, tipsA, mainTipA, mainChainA, orderIdsA, diffA, chainA,
          totalB, blocksB, tipsB, mainTipB, mainChainB, orderIdsB, diffB, chainB

varsA == <<totalA, blocksA, tipsA, mainTipA, mainChainA, orderIdsA, diffA, chainA>>
varsB == <<totalB, blocksB, tipsB, mainTipB, mainChainB, orderIdsB, diffB, chainB>>

A == INSTANCE Phantom WITH
       blockTotal <- totalA, blocks <- blocksA, tips <- tipsA,
       mainTip <- mainTipA, mainChain <- mainChainA, orderIds <- orderIdsA,
       diffAnticone <- diffA, chain <- chainA

B == INSTANCE Phantom WITH
       blockTotal <- totalB, blocks <- blocksB, tips <- tipsB,
       mainTip <- mainTipB, mainChain <- mainChainB, orderIds <- orderIdsB,
       diffAnticone <- diffB, chain <- chainB

HashSet(bs, S) == {bs[b].hash : b \in S}
HashSeq(bs, s) == [i \in 1..Len(s) |-> bs[s[i]].hash]

(* Blocks of the first node the second one does not have, but whose        *)
(* parents it has; and those parents as ids of the second node.            *)
Deliverable ==
  {b \in DOMAIN blocksA :
     /\ blocksA[b].hash \notin HashSet(blocksB, DOMAIN blocksB)
     /\ HashSet(blocksA, blocksA[b].parents) \subseteq HashSet(blocksB, DOMAIN blocksB)}

ParentsAtB(b) ==
  {c \in DOMAIN blocksB : blocksB[c].hash \in HashSet(blocksA, blocksA[b].parents)}

Init == A!Init /\ B!Init

Create == A!Next /\ UNCHANGED varsB

Deliver ==
  /\ \E b \in Deliverable : B!AddBlock(ParentsAtB(b), blocksA[b].hash)
  /\ UNCHANGED varsA

Next == Create \/ Deliver

Spec == Init /\ [][Next]_<<varsA, varsB>>

-----------------------------------------------------------------------------
(* What updateBlockColor and updateBlockOrder settle about a block. *)
Facts(bs, b) ==
  LET r == bs[b]
  IN  [hash |-> r.hash, layer |-> r.layer, height |-> r.height,
       blueNum |-> r.blueNum,
       parents |-> HashSet(bs, r.parents),
       mainParent |-> IF r.mainParent = MaxId THEN {} ELSE HashSet(bs, {r.mainParent}),
       blue |-> HashSet(bs, r.blue), red |-> HashSet(bs, r.red),
       diffOrder |-> HashSeq(bs, r.diffOrder)]

(* Whatever the order of arrival, a block gets the same main parent,       *)
(* height, layer, blueNum, colours and diff anticone order at both nodes   *)
(* (updateBlockColor, updateBlockOrder).                                   *)
BlocksAgree ==
  \A b \in DOMAIN blocksA, c \in DOMAIN blocksB :
    blocksA[b].hash = blocksB[c].hash => Facts(blocksA, b) = Facts(blocksB, c)

(* Nodes that hold the same blocks have connected the same chain, with the *)
(* same main tip and the same blocks left without an order.                *)
NodesConverge ==
  HashSet(blocksA, DOMAIN blocksA) = HashSet(blocksB, DOMAIN blocksB)
    => /\ HashSeq(blocksA, chainA) = HashSeq(blocksB, chainB)
       /\ blocksA[mainTipA].hash = blocksB[mainTipB].hash
       /\ HashSet(blocksA, diffA) = HashSet(blocksB, diffB)
       /\ HashSet(blocksA, mainChainA) = HashSet(blocksB, mainChainB)

(* isDAG answers alike at both nodes: a block one node accepted is never   *)
(* refused by the other once it has the parents.                           *)
NeverRefused ==
  \A b \in Deliverable : B!isDAG(blocksB, ParentsAtB(b))

=============================================================================
