----------------------------- MODULE ChainStore -----------------------------
(***************************************************************************)
(* A node that takes blocks in, crashes at any point of doing so, and      *)
(* starts again from what is in its database.                              *)
(*                                                                         *)
(* maybeAcceptBlock writes one block in many database transactions, each   *)
(* of which is atomic and survives a crash only with all earlier ones      *)
(* (database/ffldb): first the steps of ChainState, then the best state,   *)
(* then what BlockDAG.commit writes.  (The raw block and its hash's id are *)
(* stored too; writing either again changes nothing.)                      *)
(***************************************************************************)
EXTENDS ChainState

CONSTANTS Bodies,       \* Bodies[b]: the transaction lists block b may have
          MaxCrashes    \* bound: crashes in a behaviour

ASSUME BodyAssumption ==
  /\ DOMAIN Bodies = 1..(MaxBlocks - 1)
  /\ \A b \in DOMAIN Bodies : \A txs \in Bodies[b] : IsInjective(txs)
  /\ MaxCrashes \in Nat

VARIABLES
  bodies,     \* block -> its transactions after the coinbase, in order
  store,      \* ChainState: on disk but for tokenTip and invalid
  disk,       \* the DAG and the best state, as the database has them
  mode,       \* "up", "down" or "refused" (the node does not start)
  accepted,   \* history: the DAG and chain before the interrupted block
  torn,       \* history: a start succeeded after a crash between chain steps
  crashes

storeVars == <<bodies, store, disk, mode, accepted, torn, crashes>>

(* Block.Encode writes no children; Load links them again. *)
Stored(bs) == [b \in DOMAIN bs |-> [bs[b] EXCEPT !.children = {}]]

InitStore ==
  /\ Init
  /\ bodies = [b \in {GenesisId} |-> <<>>]
  /\ store = Genesis
  /\ disk = [total |-> 1, tip |-> GenesisId, tokenTip |-> GenesisId,
             blocks |-> Stored(blocks), invalid |-> {}, order |-> orderIds,
             main |-> mainChain]
  /\ mode = "up"
  /\ accepted = <<>>
  /\ torn = FALSE
  /\ crashes = 0

-----------------------------------------------------------------------------
(* The database transactions of connectDagChain, in order. *)

change == optimizeReorganizeResult(chain', chain)

Flatten(s, f(_)) == SX!FlattenSeq([i \in DOMAIN s |-> f(s[i])])

chainSteps ==
  Flatten(SX!Reverse(change.olds), LAMBDA b : <<<<"untoken", b>>, <<"disconnect", b>>>>)
  \o Flatten(change.news, LAMBDA b : <<<<"connect", b>>, <<"token", b>>>>)

(* While the chain is being changed mainChain.Has still finds the ids that *)
(* commit has yet to remove from the database.                             *)
dagWhileConnecting ==
  [blocks |-> blocks', main |-> mainChain \cup mainChain', unordered |-> diffAnticone']

chainStep(s, step) ==
  LET b   == step[2]
      txs == bodies'[b]
  IN  CASE step[1] = "untoken"    -> tokenRollback(s, b)
        [] step[1] = "disconnect" -> disconnectBlock(s, txs, b)
        [] step[1] = "connect"    ->
             connectBlock(s, txs, b, blocks'[b].order,
                          {c \in DOMAIN blocks' : CheckBlueAndMature(dagWhileConnecting, b, c)})
        [] step[1] = "token"      -> tokenConnect(s, txs, b)

(* The states the first n steps can leave, of which there is one. *)
storeAfter(n) ==
  CHOOSE after \in SX!FoldLeft(LAMBDA S, step : {chainStep(s, step) : s \in S},
                               {store}, SubSeq(chainSteps, 1, n)) : TRUE

(* updateBestState, then commit: the order index, the blocks that changed  *)
(* (new, attached or unordered by UpdateWeight, detached by ValidBlock),   *)
(* and the ids of the main chain one by one, of which S are written.       *)
(* Mutant: a block that loses its order is not written. *)
committedNews == {blockTotal} \cup Range(change.news)

committedBlocks ==
  {blockTotal} \cup Range(change.news) \cup Range(change.olds)
    \cup (IF mainTip' = mainTip THEN {} ELSE diffAnticone')

putBestState(d, s) ==
  [d EXCEPT !.total = blockTotal', !.tip = mainTip', !.tokenTip = s.tokenTip]

putOrders(d) == [d EXCEPT !.order = orderIds']

putBlocks(d, s) ==
  [d EXCEPT
     !.blocks = [b \in DOMAIN @ \cup committedBlocks |->
                   IF b \in committedBlocks THEN Stored(blocks')[b] ELSE @[b]],
     !.invalid = (@ \ committedBlocks) \cup (s.invalid \cap committedBlocks)]

mainChainIds == (mainChain \ mainChain') \cup (mainChain' \ mainChain)

putMainChain(d, S) == [d EXCEPT !.main = (@ \ (S \ mainChain')) \cup (S \cap mainChain')]

diskAfter(n, S) ==
  LET k  == n - Len(chainSteps)
      d1 == putBestState(disk, store')
      d2 == putOrders(d1)
      d3 == putBlocks(d2, store')
  IN  IF k <= 0 THEN disk
      ELSE IF k = 1 THEN d1
      ELSE IF k = 2 THEN d2
      ELSE putMainChain(d3, S)

lastStep == Len(chainSteps) + 3

-----------------------------------------------------------------------------
TakeBlock(ps, h) ==
  /\ mode = "up" /\ ~torn
  /\ Antichain(ps)
  /\ AddBlock(ps, h)
  /\ \E txs \in Bodies[blockTotal] : bodies' = With(bodies, blockTotal, txs)

(* maybeAcceptBlock runs to its end. *)
AcceptBlock(ps, h) ==
  /\ TakeBlock(ps, h)
  /\ store' = storeAfter(Len(chainSteps))
  /\ disk' = diskAfter(lastStep, mainChainIds)
  /\ UNCHANGED <<mode, accepted, torn, crashes>>

(* The node stops after n of the transactions, the last one or the main    *)
(* chain's ids in part.                                                    *)
CrashAt(n, S) ==
  /\ store' = storeAfter(IF n < Len(chainSteps) THEN n ELSE Len(chainSteps))
  /\ disk' = diskAfter(n, S)
  /\ torn' = (0 < n /\ n <= Len(chainSteps))

CrashInBlock(ps, h) ==
  /\ crashes < MaxCrashes
  /\ TakeBlock(ps, h)
  /\ \E n \in 0..lastStep, S \in SUBSET mainChainIds :
       (n < lastStep => S = {}) /\ CrashAt(n, S)
  /\ accepted' = [blocks |-> blocks, chain |-> chain, order |-> orderIds,
                  main |-> mainChain]
  /\ mode' = "down"
  /\ crashes' = crashes + 1

-----------------------------------------------------------------------------
(* BlockChain.New: initChainState and BlockDAG.Load, then Manager.Init.    *)

loadedBlocks ==
  [b \in 0..(disk.total - 1) |->
     [disk.blocks[b] EXCEPT
        !.children = {c \in 0..(disk.total - 1) : b \in disk.blocks[c].parents}]]

loadedTips == {b \in DOMAIN loadedBlocks : loadedBlocks[b].children = {}}

loadedTip == getBluest(loadedBlocks, loadedTips)

(* The order index must have every ordered block under its order. *)
OrdersAgree ==
  \A b \in DOMAIN loadedBlocks :
    loadedBlocks[b].order # MaxBlockOrder =>
      /\ loadedBlocks[b].order \in DOMAIN disk.order
      /\ disk.order[loadedBlocks[b].order] = b

CheckMainChainDB ==
  LET below[b \in DOMAIN loadedBlocks] ==
        {b} \cup IF loadedBlocks[b].mainParent = MaxId THEN {}
                 ELSE below[loadedBlocks[b].mainParent]
  IN  disk.main = below[loadedTip]

(* Mutant: the main chain bucket is not compared. *)
LoadWithoutMainChain ==
  /\ 0..(disk.total - 1) \subseteq DOMAIN disk.blocks
  /\ OrdersAgree
  /\ loadedTip = disk.tip

Load ==
  /\ 0..(disk.total - 1) \subseteq DOMAIN disk.blocks
  /\ OrdersAgree
  /\ CheckMainChainDB
  /\ loadedTip = disk.tip

loadedStore == [store EXCEPT !.tokenTip = disk.tokenTip, !.invalid = disk.invalid]

bestOrder == loadedBlocks[loadedTip].order

(* Manager.Init: orders above the best one are looked up and taken off the *)
(* index, which fails when the order index does not have them; then the    *)
(* index is brought up to the best order.                                  *)
indexOrders ==
  SX!SetToSortSeq((bestOrder + 1)..(Len(store.indexed) - 1), LAMBDA o, p : o > p)

indexRollback(s) ==
  SX!FoldLeft(LAMBDA a, o : indexDisconnect(a, bodies[disk.order[o]], disk.order[o]),
              s, indexOrders)

indexCatchUp(s) ==
  SX!FoldLeft(LAMBDA a, o : indexConnect(a, bodies[disk.order[o]], disk.order[o], o),
              s, SX!SetToSortSeq(Len(s.indexed)..bestOrder, LAMBDA o, p : o < p))

Starts ==
  /\ Load
  /\ disk.tokenTip \in DOMAIN store.tokens
  /\ Range(indexOrders) \subseteq DOMAIN disk.order

Start ==
  /\ mode = "down"
  /\ Starts
  /\ mode' = "up"
  /\ blockTotal' = disk.total
  /\ blocks' = loadedBlocks
  /\ tips' = loadedTips
  /\ mainTip' = loadedTip
  /\ mainChain' = disk.main
  /\ orderIds' = disk.order
  /\ diffAnticone' = {b \in DOMAIN loadedBlocks : loadedBlocks[b].order = MaxBlockOrder}
  /\ chain' = byOrder(disk.order, 0, bestOrder)
  /\ bodies' = Restrict(bodies, DOMAIN loadedBlocks)
  /\ store' = indexCatchUp(indexRollback(loadedStore))
  /\ accepted' = <<>>
  /\ UNCHANGED <<disk, torn, crashes>>

RefuseToStart ==
  /\ mode = "down"
  /\ ~Starts
  /\ mode' = "refused"
  /\ torn' = FALSE
  /\ UNCHANGED <<vars, bodies, store, disk, accepted, crashes>>

-----------------------------------------------------------------------------
NextStore(h) ==
  \/ \E ps \in (SUBSET DOMAIN blocks) \ {{}} : AcceptBlock(ps, h) \/ CrashInBlock(ps, h)
  \/ Start
  \/ RefuseToStart

-----------------------------------------------------------------------------
(* What is stored is a function of the DAG alone, however many blocks were *)
(* disconnected and connected again on the way: the unspent outputs, the   *)
(* journal, the transaction index, the token states and every block's      *)
(* status are those of a node that connects the present order from genesis *)
(* once.  A coinbase may be spent when it is blue on the main chain and    *)
(* deep enough in the block's past.                                        *)
BlueAndMature(v, t) ==
  /\ t \in Past(blocks, v)
  /\ blocks[v].layer - blocks[t].layer >= CoinbaseMaturity
  /\ \E c \in mainChain : t = c \/ t \in blocks[c].blue

Replayed ==
  LET step(s, b) ==
        tokenConnect(connectBlock(s, bodies[b], b, blocks[b].order,
                                  {c \in DOMAIN blocks : BlueAndMature(b, c)}),
                     bodies[b], b)
      upto[i \in DOMAIN chain] ==
        IF i = 1 THEN {Genesis} ELSE {step(s, chain[i]) : s \in upto[i - 1]}
  IN  CHOOSE s \in upto[Len(chain)] : TRUE

StoreIsReplay == mode = "up" /\ ~torn => store = Replayed

(* The database has the DAG as memory has it whenever no block is being    *)
(* taken in, though commit writes only the blocks it was told of.          *)
DiskMatchesMemory ==
  mode = "up" =>
    disk = [total |-> blockTotal, tip |-> mainTip, tokenTip |-> store.tokenTip,
            blocks |-> Stored(blocks), invalid |-> store.invalid,
            order |-> orderIds, main |-> mainChain]

(* A start that is not refused has the DAG from before the interrupted     *)
(* block or the one with it, never a mixture of what commit's transactions *)
(* wrote.                                                                  *)
LoadAllOrNothing ==
  [][ mode = "down" /\ mode' = "up" =>
        \/ /\ blocks' = accepted.blocks /\ chain' = accepted.chain
           /\ orderIds' = accepted.order /\ mainChain' = accepted.main
        \/ UNCHANGED vars ]_<<vars, storeVars>>

(* CheckBlueAndMature, by its searches for the main chain, answers what a  *)
(* walk over the whole past and the whole main chain would, for every pair *)
(* of blocks with an order.                                                *)
MaturityExact ==
  mode = "up" =>
    \A v, t \in DOMAIN blocks \ diffAnticone :
      v # GenesisId =>
        (CheckBlueAndMature([blocks |-> blocks, main |-> mainChain,
                             unordered |-> diffAnticone], v, t)
           <=> BlueAndMature(v, t))

(* "Batch check the blue and mature properties of blocks in views          *)
(* perspective" (CheckBlueAndMature): a coinbase that a valid connected    *)
(* block spends is blue and mature in the past of that block.              *)
SpentCoinbasesBlue ==
  \A b \in Range(chain) \ store.invalid :
    \A t \in Range(bodies[b]) \ TokenTxs :
      t \in DOMAIN store.txs /\ store.txs[t] = b =>
        \A c \in Range(Spends[t]) \ Txs : BlueAndMature(b, c)

(* "... from the point of view of the end of the main chain at the time of *)
(* the call" (fetchUtxosMain): whenever the node runs, the outputs it      *)
(* stores are those of the chain it runs on.                               *)
UtxoAtMainChainEnd == mode = "up" => store.utxo = Replayed.utxo

=============================================================================
