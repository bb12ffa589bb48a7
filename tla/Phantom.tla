------------------------------ MODULE Phantom ------------------------------
(***************************************************************************)
(* The block DAG of one node: BlockDAG with its PHANTOM instance, and the  *)
(* sequence of blocks the chain has connected because of it.               *)
(*                                                                         *)
(* Everything happens under the chain lock, so one block is one step: the  *)
(* DAG takes it in, recolours and reorders, and hands the chain the blocks *)
(* to disconnect and to connect.                                           *)
(***************************************************************************)
EXTENDS PhantomRules

CONSTANTS MaxBlocks,   \* bound: blocks in the DAG, genesis included
          Hashes       \* ranks of the hashes a block may have

ASSUME BlockAssumption ==
  /\ MaxBlocks \in Nat
  /\ Hashes \subseteq Nat \ {0}

VARIABLES
  blockTotal,     \* BlockDAG.blockTotal
  blocks,         \* BlockDAG.blocks: id -> record, see PhantomRules
  tips,           \* BlockDAG.tips
  mainTip,        \* Phantom.mainChain.tip
  mainChain,      \* ids Phantom.mainChain.Has answers true for
  orderIds,       \* the id stored for each order (commitOrder over the database)
  diffAnticone,   \* Phantom.diffAnticone: blocks without an order
  chain           \* ids connected by connectBlock, oldest first

vars == <<blockTotal, blocks, tips, mainTip, mainChain, orderIds, diffAnticone,
          chain>>

Block(h, ps, l) ==
  [hash |-> h, parents |-> ps, children |-> {}, layer |-> l, height |-> 0,
   mainParent |-> MaxId, blueNum |-> 0, blue |-> {}, red |-> {},
   diffOrder |-> <<>>, order |-> MaxBlockOrder]

Init ==
  /\ blockTotal = 1
  /\ blocks = [b \in {GenesisId} |-> [Block(0, {}, 0) EXCEPT !.order = 0]]
  /\ tips = {GenesisId}
  /\ mainTip = GenesisId
  /\ mainChain = {GenesisId}
  /\ orderIds = [o \in {0} |-> GenesisId]
  /\ diffAnticone = {}
  /\ chain = <<GenesisId>>

-----------------------------------------------------------------------------
(* BlockDAG.AddBlock: the new block and its links. *)

maxLayer(ps) ==
  CHOOSE l \in {blocks[p].layer : p \in ps} :
    \A p \in ps : blocks[p].layer <= l

linkBlock(ps, h) ==
  [b \in 0..blockTotal |->
     IF b = blockTotal THEN Block(h, ps, maxLayer(ps) + 1)
     ELSE [blocks[b] EXCEPT
             !.children = IF b \in ps THEN @ \cup {blockTotal} ELSE @]]

(* Mutant: parents stay tips. *)
updateTipsKeepParents(bs) == tips \cup {blockTotal}

updateTips(bs) == {b \in tips : bs[b].children = {}} \cup {blockTotal}

-----------------------------------------------------------------------------
(* Phantom.AddBlock: colour and order of the new block b. *)

updateBlockColor(bs, b) ==
  LET tp   == getBluest(bs, bs[b].parents)
      set  == [bs EXCEPT ![b].mainParent = tp,
                         ![b].height = bs[tp].height + 1]
      diff == getDiffAnticone(set, b)
      blue == {c \in diff : coloringRule(set, getKChain(set, b), c)}
  IN  [set EXCEPT ![b].blueNum = bs[tp].blueNum + 1 + Cardinality(blue),
                  ![b].blue = blue,
                  ![b].red = diff \ blue]

updateBlockOrder(bs, b) == [bs EXCEPT ![b].diffOrder = getDiffAnticoneOrder(bs, b)]

coloured(ps, h) ==
  updateBlockOrder(updateBlockColor(linkBlock(ps, h), blockTotal), blockTotal)

-----------------------------------------------------------------------------
(* Phantom.updateMainChain. *)

isMaxMainTip(bs, tip) == tip # mainTip /\ IsBluer(bs, tip, mainTip)

(* The main-parent chain from b down to the main chain, nearest first, and *)
(* the block of the main chain it ends in.                                 *)
mainPath(bs, b) ==
  LET path[c \in DOMAIN bs] ==
        IF c \in mainChain THEN <<>>
        ELSE Append(IF bs[c].mainParent = MaxId THEN <<>>
                    ELSE path[bs[c].mainParent], c)
  IN  path[b]

(* Mutant: one main-chain block too low. *)
intersectionBelow(bs, path) ==
  LET c == bs[path[1]].mainParent
  IN  IF c = GenesisId THEN c ELSE bs[c].mainParent

intersectionOf(bs, path) == bs[path[1]].mainParent

(* Mutant: nothing is rolled back. *)
rollBackNothing(bs, intersection) == mainChain

rollBackMainChain(bs, intersection) ==
  LET above[c \in DOMAIN bs] ==
        IF c = intersection THEN {}
        ELSE {c} \cup (IF bs[c].mainParent = MaxId THEN {}
                       ELSE above[bs[c].mainParent])
  IN  mainChain \ above[mainTip]

(* updateMainOrder: along the path each block's diff anticone takes the    *)
(* next orders and then the block itself does.                             *)
(* Mutant: each block of the path goes before its diff anticone. *)
newlyOrderedTooEarly(bs, path) ==
  LET upto[i \in 0..Len(path)] ==
        IF i = 0 THEN <<>>
        ELSE Append(upto[i - 1], path[i]) \o bs[path[i]].diffOrder
  IN  upto[Len(path)]

newlyOrdered(bs, path) ==
  LET upto[i \in 0..Len(path)] ==
        IF i = 0 THEN <<>>
        ELSE Append(upto[i - 1] \o bs[path[i]].diffOrder, path[i])
  IN  upto[Len(path)]

updateMainOrder(bs, ids, start) ==
  [b \in DOMAIN bs |->
     IF b \in Range(ids)
     THEN [bs[b] EXCEPT !.order =
             start + (CHOOSE i \in DOMAIN ids :
                        ids[i] = b /\ \A j \in DOMAIN ids : ids[j] = b => j <= i)]
     ELSE bs[b]]

commitOrder(ids, start) ==
  [o \in DOMAIN orderIds \cup {start + i : i \in DOMAIN ids} |->
     IF o - start \in DOMAIN ids THEN ids[o - start] ELSE orderIds[o]]

(* Mutants: blocks keep a stale order, or get the wrong "none". *)
keepStaleOrder(bs, unordered) == bs

orderMaxId(bs, unordered) ==
  [b \in DOMAIN bs |->
     IF b \in unordered THEN [bs[b] EXCEPT !.order = MaxId] ELSE bs[b]]

preUpdateVirtualBlock(bs, unordered) ==
  [b \in DOMAIN bs |->
     IF b \in unordered THEN [bs[b] EXCEPT !.order = MaxBlockOrder] ELSE bs[b]]

-----------------------------------------------------------------------------
(* What the DAG tells the chain: the blocks whose order changed, the ones  *)
(* with an order first (news) and those without (in no fixed order), and   *)
(* the blocks that held these orders before (olds).                        *)

byOrder(ids, from, to) == [i \in 1..(to - from + 1) |-> ids[from + i - 1]]

getOrderChangeList(bs, ids, tip, from) ==
  IF ids[from] = tip THEN <<tip>> ELSE byOrder(ids, from, bs[tip].order)

(* The common start of the two lists is dropped from both. *)
commonStart(news, olds) ==
  CHOOSE n \in 0..Len(olds) :
    /\ n <= Len(news)
    /\ \A i \in 1..n : news[i] = olds[i]
    /\ (n < Len(news) /\ n < Len(olds)) => news[n + 1] # olds[n + 1]

(* Mutant: the common start is dropped from one list only. *)
optimizeNewsOnly(news, olds) ==
  [news |-> SubSeq(news, commonStart(news, olds) + 1, Len(news)), olds |-> olds]

optimizeReorganizeResult(news, olds) ==
  LET n == commonStart(news, olds)
  IN  [news |-> SubSeq(news, n + 1, Len(news)),
       olds |-> SubSeq(olds, n + 1, Len(olds))]

(* connectDagChain: one new order and nothing else moved is an extension   *)
(* by the new block; anything more is a reorganization, which pops the     *)
(* olds off the end of the chain and pushes the news that have an order.   *)
(* Mutant: a reorganization does not disconnect the old blocks. *)
connectWithoutDisconnect(b, change, unordered) == chain \o change.news

connectDagChain(b, change, unordered) ==
  IF Len(change.news) + Cardinality(unordered) = 1
  THEN Append(chain, b)
  ELSE SubSeq(chain, 1, Len(chain) - Len(change.olds)) \o change.news

-----------------------------------------------------------------------------
(* A block that does not become the main tip has no order. *)
KeepMainTip(bs) ==
  /\ ~isMaxMainTip(bs, getBluest(bs, updateTips(bs)))
  /\ diffAnticone' = diffAnticone \cup {blockTotal}
  /\ blocks' = preUpdateVirtualBlock(bs, diffAnticone \cup {blockTotal})
  /\ UNCHANGED <<mainTip, mainChain, orderIds, chain>>

(* The bluest tip becomes the main tip: the orders above its intersection  *)
(* with the main chain are given anew.                                     *)
MoveMainTip(bs) ==
  LET tip          == getBluest(bs, updateTips(bs))
      path         == mainPath(bs, tip)
      intersection == intersectionOf(bs, path)
      start        == bs[intersection].order
      ids          == newlyOrdered(bs, path)
      olds         == byOrder(orderIds, start + 1, bs[mainTip].order)
      unordered    == getAnticone(bs, tip)
      reordered    == updateMainOrder(bs, ids, start)
      news         == getOrderChangeList(reordered, commitOrder(ids, start),
                                         tip, start + 1)
  IN  /\ isMaxMainTip(bs, tip)
      /\ mainTip' = tip
      /\ mainChain' = rollBackMainChain(bs, intersection) \cup Range(path)
      /\ orderIds' = commitOrder(ids, start)
      /\ diffAnticone' = unordered
      /\ blocks' = preUpdateVirtualBlock(reordered, unordered)
      /\ chain' = connectDagChain(blockTotal,
                                  optimizeReorganizeResult(news, olds),
                                  unordered)

AddBlock(ps, h) ==
  /\ blockTotal < MaxBlocks
  /\ isDAG(blocks, ps)
  /\ blockTotal' = blockTotal + 1
  /\ tips' = updateTips(linkBlock(ps, h))
  /\ LET bs == coloured(ps, h) IN KeepMainTip(bs) \/ MoveMainTip(bs)

(* A miner names tips of some state of its own DAG as parents: no parent   *)
(* is an ancestor of another.                                              *)
Past(bs, b) ==
  LET past[c \in DOMAIN bs] ==
        bs[c].parents \cup UNION {past[p] : p \in bs[c].parents}
  IN  past[b]

Antichain(ps) == \A p, q \in ps : p \notin Past(blocks, q)

Fresh(h) == \A b \in DOMAIN blocks : blocks[b].hash # h

Next ==
  \E ps \in (SUBSET DOMAIN blocks) \ {{}}, h \in Hashes :
    Fresh(h) /\ Antichain(ps) /\ AddBlock(ps, h)

(* Blocks with any parents that isDAG accepts. *)
NextAnyParents ==
  \E ps \in (SUBSET DOMAIN blocks) \ {{}}, h \in Hashes :
    Fresh(h) /\ AddBlock(ps, h)

Spec == Init /\ [][Next]_vars

SpecAnyParents == Init /\ [][NextAnyParents]_vars

-----------------------------------------------------------------------------
(* Ids are 0 to blockTotal - 1 with none left out (AddBlock numbers them), *)
(* every id a field holds is one of a block, and an order is a number or   *)
(* MaxBlockOrder.                                                          *)
TypeOK ==
  /\ blockTotal \in 1..MaxBlocks
  /\ DOMAIN blocks = 0..(blockTotal - 1)
  /\ \A b \in DOMAIN blocks :
       /\ blocks[b].hash \in Hashes \cup {0}
       /\ blocks[b].parents \cup blocks[b].children \subseteq DOMAIN blocks
       /\ blocks[b].layer \in Nat
       /\ blocks[b].mainParent \in DOMAIN blocks \cup {MaxId}
       /\ blocks[b].order \in Nat \cup {MaxBlockOrder}
  /\ tips \subseteq DOMAIN blocks
  /\ mainTip \in DOMAIN blocks
  /\ mainChain \cup diffAnticone \subseteq DOMAIN blocks

(* The links are a DAG in arrival order: parents are older than their     *)
(* children, both link fields agree, a layer is one more than the highest  *)
(* parent's, and the tips updateTips keeps are exactly the childless       *)
(* blocks.                                                                 *)
LinksConsistent ==
  /\ \A b \in DOMAIN blocks :
       /\ \A p \in blocks[b].parents : p < b
       /\ blocks[b].children = {c \in DOMAIN blocks : b \in blocks[c].parents}
       /\ b # GenesisId =>
            /\ \E p \in blocks[b].parents : blocks[b].layer = blocks[p].layer + 1
            /\ \A p \in blocks[b].parents : blocks[b].layer > blocks[p].layer
  /\ tips = {b \in DOMAIN blocks : blocks[b].children = {}}

(* The colours of each block split exactly the blocks of its past that are *)
(* neither its main parent nor in the main parent's past: the bounded walk *)
(* of getDiffAnticone was wide enough.                                     *)
WalkExact ==
  \A b \in DOMAIN blocks \ {GenesisId} :
    LET r == blocks[b]
    IN  r.blue \cup r.red
          = Past(blocks, b) \ (Past(blocks, r.mainParent) \cup {r.mainParent})

(* getDiffAnticone finds, by its bounded walk, exactly the blocks of the   *)
(* new block's past that are neither the main parent nor in its past; the  *)
(* colours split them and getDiffAnticoneOrder lists each once ("error     *)
(* blue set" and "error block order" are never logged).                    *)
DiffAnticoneExact ==
  \A b \in DOMAIN blocks \ {GenesisId} :
    LET r == blocks[b]
        d == Past(blocks, b) \ (Past(blocks, r.mainParent) \cup {r.mainParent})
    IN  /\ r.blue \cup r.red = d
        /\ r.blue \cap r.red = {}
        /\ Range(r.diffOrder) = d
        /\ Len(r.diffOrder) = Cardinality(d)

(* The blocks with an order are the main tip and its past, the others are  *)
(* diffAnticone, and the stored index and the blocks' own order fields     *)
(* agree on every order from 0 to the main tip's.                          *)
OrderCoversPast ==
  /\ {b \in DOMAIN blocks : blocks[b].order # MaxBlockOrder}
       = Past(blocks, mainTip) \cup {mainTip}
  /\ diffAnticone = DOMAIN blocks \ (Past(blocks, mainTip) \cup {mainTip})
  /\ blocks[mainTip].order = Cardinality(Past(blocks, mainTip))
  /\ \A o \in 0..blocks[mainTip].order :
       o \in DOMAIN orderIds /\ blocks[orderIds[o]].order = o

(* Every block that has an order comes after all of its parents.           *)
OrderTopological ==
  \A b \in DOMAIN blocks \ diffAnticone :
    \A p \in blocks[b].parents :
      blocks[p].order # MaxBlockOrder /\ blocks[p].order < blocks[b].order

(* The main tip is bluer than every other block, not only than the other   *)
(* tips, and mainChain.Has answers for exactly its main-parent chain.      *)
MainChainFromBluest ==
  /\ \A b \in DOMAIN blocks \ {mainTip} : IsBluer(blocks, mainTip, b)
  /\ mainTip \in mainChain
  /\ GenesisId \in mainChain
  /\ \A b \in mainChain \ {GenesisId} : blocks[b].mainParent \in mainChain
  /\ \A b, c \in mainChain :
       b # c => blocks[b].height # blocks[c].height
  /\ Cardinality(mainChain) = blocks[mainTip].height + 1

(* The news and olds of each AddBlock keep the connected chain equal to    *)
(* the total order, block by block, through every reorganization.          *)
ChainMatchesOrder ==
  chain = byOrder(orderIds, 0, blocks[mainTip].order)

(* "The future can not affect the past" (reorganizeChain): a block that    *)
(* builds on the main tip only adds to the end of the connected chain, and *)
(* every block that has an order keeps it.                                 *)
FutureKeepsPast ==
  [][ (blockTotal' # blockTotal /\ blocks'[blockTotal].mainParent = mainTip)
      => /\ Len(chain) <= Len(chain')
         /\ SubSeq(chain', 1, Len(chain)) = chain
         /\ \A b \in DOMAIN blocks :
              blocks[b].order # MaxBlockOrder
                => blocks'[b].order = blocks[b].order ]_vars

=============================================================================
