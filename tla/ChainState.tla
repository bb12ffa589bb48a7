----------------------------- MODULE ChainState -----------------------------
(***************************************************************************)
(* What BlockChain keeps for the blocks the DAG has ordered: the unspent   *)
(* outputs, the spend journal, the transaction index, the token states and *)
(* the status of every block, with the operations that connect a block to  *)
(* the end of the chain and take it off again.                             *)
(*                                                                         *)
(* A transaction has one output, which bears its name; the coinbase of     *)
(* block b has the output b.  Amounts, scripts and lock times are left     *)
(* out: what makes a block invalid here is an input that is missing, spent,*)
(* or a coinbase that is not blue and mature, and a token that exists.     *)
(***************************************************************************)
EXTENDS Phantom

SX == INSTANCE SequencesExt

CONSTANTS Txs,               \* transactions other than coinbases
          TokenTxs,          \* those of them that issue a new token
          Spends,            \* Spends[t]: the outputs t spends, in input order
          CoinbaseMaturity   \* Params.CoinbaseMaturity

ASSUME TxAssumption ==
  /\ TokenTxs \subseteq Txs
  /\ DOMAIN Spends = Txs
  /\ CoinbaseMaturity \in Nat \ {0}

(* What one node has stored.  Of a spent output the journal keeps the      *)
(* block that made it, not its name.                                       *)
Genesis ==
  [utxo     |-> [o \in {GenesisId} |-> GenesisId],  \* output -> block that made it
   journal  |-> <<>>,                               \* block -> what it spent
   txs      |-> <<>>,                               \* tx index: tx -> block
   indexed  |-> <<GenesisId>>,                      \* blocks of the tx index
   tokens   |-> [b \in {GenesisId} |-> [prev |-> MaxId, types |-> {}]],
   tokenTip |-> GenesisId,
   invalid  |-> {}]                                 \* blocks with StatusInvalid

Without(f, S) == [x \in DOMAIN f \ S |-> f[x]]
With(f, x, v) == [y \in DOMAIN f \cup {x} |-> IF y = x THEN v ELSE f[y]]

-----------------------------------------------------------------------------
(* BlockDAG.CheckBlueAndMature for one view v and one target t.  dag is    *)
(* what the DAG answers from while blocks are being connected: main is the *)
(* set of ids IsOnMainChain is true for.                                   *)

(* Breadth first over the links, in hash order, to the first block of the  *)
(* main chain.                                                             *)
getMainFork(dag, b, backward) ==
  LET links(c) == SortHashList(dag.blocks, IF backward THEN dag.blocks[c].children
                                           ELSE dag.blocks[c].parents)
      fork[q \in Seq(DOMAIN dag.blocks)] ==
        IF q = <<>> THEN MaxId
        ELSE IF Head(q) \in dag.main THEN Head(q)
        ELSE fork[Tail(q) \o links(Head(q))]
  IN  fork[<<b>>]

(* Down the main parents from the fork, as far as t can be found. *)
doIsBlue(dag, t, fork) ==
  LET bs == dag.blocks
      blue[c \in DOMAIN bs] ==
        \/ c = t
        \/ t \in bs[c].blue
        \/ /\ bs[c].layer >= bs[t].layer
           /\ bs[c].mainParent # MaxId
           /\ blue[bs[c].mainParent]
  IN  t \notin dag.unordered /\ blue[fork]

processMaturity(dag, v, t) ==
  LET bs         == dag.blocks
      targetFork == getMainFork(dag, t, TRUE)
      viewFork   == getMainFork(dag, v, FALSE)
  IN  /\ bs[v].layer - bs[t].layer >= CoinbaseMaturity
      /\ targetFork # MaxId
      /\ \/ /\ viewFork # MaxId
            /\ bs[viewFork].layer - bs[targetFork].layer >= CoinbaseMaturity
         \/ t \in Past(bs, v)

(* Mutant: the fork of the target is looked for among its ancestors. *)
CheckBlueAndMatureBelow(dag, v, t) ==
  /\ dag.blocks[v].layer > dag.blocks[t].layer
  /\ processMaturity(dag, v, t)
  /\ doIsBlue(dag, t, getMainFork(dag, t, FALSE))

CheckBlueAndMature(dag, v, t) ==
  /\ dag.blocks[v].layer > dag.blocks[t].layer
  /\ processMaturity(dag, v, t)
  /\ doIsBlue(dag, t, getMainFork(dag, t, TRUE))

-----------------------------------------------------------------------------
(* Connecting and disconnecting, as steps on the stored state s.           *)

IsDuplicateTx(s, t, b) == t \in DOMAIN s.txs /\ s.txs[t] # b

(* The transactions of b that CalculateDAGDuplicateTxs leaves. *)
own(s, txs, b) == SelectSeq(txs, LAMBDA t : ~IsDuplicateTx(s, t, b))

spending(s, txs, b) == SelectSeq(own(s, txs, b), LAMBDA t : t \notin TokenTxs)

tokenUpdates(s, txs, b) == {t \in Range(own(s, txs, b)) : t \in TokenTxs}

(* TokenState.Update: a token that exists cannot be issued again. *)
CheckTokenState(s, txs, b) ==
  tokenUpdates(s, txs, b) \cap s.tokens[s.tokenTip].types = {}

(* Outputs of blocks that are invalid now are not seen (IsInvalidOut). *)
fetchUtxosMain(s) == Restrict(s.utxo, {o \in DOMAIN s.utxo : s.utxo[o] \notin s.invalid})

(* mature: the blocks whose coinbase may be spent. *)
CheckTransactionInputs(view, t, mature) ==
  /\ Range(Spends[t]) \subseteq DOMAIN view.utxo
  /\ Range(Spends[t]) \ Txs \subseteq mature

connectTransaction(view, t, b) ==
  LET ins == Spends[t]
  IN  [view EXCEPT !.utxo = With(Without(@, Range(ins)), t, b),
                   !.stxos = @ \o [i \in DOMAIN ins |-> view.utxo[ins[i]]]]

(* The view after the block's transactions, in order, and what they spend; *)
(* the first one that fails ends it.                                       *)
checkTransactionsAndConnect(s, txs, b, mature) ==
  SX!FoldLeft(LAMBDA view, t :
                IF view.ok /\ CheckTransactionInputs(view, t, mature)
                THEN connectTransaction(view, t, b)
                ELSE [view EXCEPT !.ok = FALSE],
              [ok    |-> TRUE,
               utxo  |-> With(fetchUtxosMain(s), b, b),
               stxos |-> <<>>],
              spending(s, txs, b))

checkConnectBlock(s, txs, b, mature) ==
  [checkTransactionsAndConnect(s, txs, b, mature) EXCEPT
     !.ok = @ /\ CheckTokenState(s, txs, b)]

(* dbIndexConnectBlock with TxIndex.ConnectBlock: the block goes to the    *)
(* end of the index, an invalid one without its transactions.              *)
indexConnect(s, txs, b, order) ==
  IF Len(s.indexed) # order THEN s
  ELSE [s EXCEPT
          !.indexed = Append(@, b),
          !.txs = IF b \in s.invalid THEN @
                  ELSE [t \in DOMAIN @ \cup Range(own(s, txs, b)) |->
                          IF IsDuplicateTx(s, t, b) \/ t \notin Range(txs)
                          THEN @[t] ELSE b]]

(* Mutant: entries that another block has made go as well. *)
indexDisconnectAll(s, txs, b) ==
  IF s.indexed[Len(s.indexed)] # b THEN s
  ELSE [s EXCEPT !.indexed = SubSeq(@, 1, Len(@) - 1),
                 !.txs = Without(@, Range(txs))]

(* dbIndexDisconnectBlock: only the block at the tip is taken off. *)
indexDisconnect(s, txs, b) ==
  IF s.indexed[Len(s.indexed)] # b THEN s
  ELSE [s EXCEPT
          !.indexed = SubSeq(@, 1, Len(@) - 1),
          !.txs = Without(@, {t \in Range(txs) \cap DOMAIN @ : @[t] = b})]

(* connectBlock's transaction, after checkConnectBlock.  A block that      *)
(* fails is connected too, with an empty view.                             *)
connectBlock(s, txs, b, order, mature) ==
  LET view == checkConnectBlock(s, txs, b, mature)
      put  == [s EXCEPT
                 !.utxo = IF view.ok THEN view.utxo ELSE @,
                 !.journal = IF view.ok /\ view.stxos # <<>>
                             THEN With(@, b, view.stxos) ELSE @,
                 !.invalid = IF view.ok THEN @ ELSE @ \cup {b}]
  IN  indexConnect(put, txs, b, order)

(* updateTokenState: its own transaction after connectBlock's, for invalid *)
(* blocks as well.                                                         *)
tokenConnect(s, txs, b) ==
  LET updates == tokenUpdates(s, txs, b) IN
  IF updates = {} THEN s
  ELSE IF ~CheckTokenState(s, txs, b) THEN [s EXCEPT !.invalid = @ \cup {b}]
  ELSE [s EXCEPT
          !.tokens = With(@, b, [prev  |-> s.tokenTip,
                                 types |-> @[s.tokenTip].types \cup updates]),
          !.tokenTip = b]

tokenRollback(s, b) ==
  IF b = s.tokenTip /\ b \in DOMAIN s.tokens
  THEN [s EXCEPT !.tokens = Without(@, {b}), !.tokenTip = s.tokens[b].prev]
  ELSE s

(* disconnectTransactions: backwards through the block, each output is     *)
(* removed and each input comes back as the journal has it.  (A journal    *)
(* of the wrong length leaves the outputs alone.)                          *)
disconnectTransactions(s, txs, b) ==
  LET stxos == IF b \in DOMAIN s.journal THEN s.journal[b] ELSE <<>>
      ts    == spending(s, txs, b)
      step(a, t) ==
        LET ins   == Spends[t]
            first == a.left - Len(ins)
        IN  [left |-> first,
             utxo |-> [o \in (DOMAIN a.utxo \ {t}) \cup Range(ins) |->
                         IF o \in Range(ins)
                         THEN stxos[first + CHOOSE i \in DOMAIN ins : ins[i] = o]
                         ELSE a.utxo[o]]]
      spent == SX!FoldLeft(LAMBDA n, t : n + Len(Spends[t]), 0, ts)
  IN  IF Len(stxos) # spent THEN s.utxo
      ELSE SX!FoldLeft(step,
                       [left |-> Len(stxos), utxo |-> Without(s.utxo, {b})],
                       SX!Reverse(ts)).utxo

disconnectBlock(s, txs, b) ==
  LET undone == [s EXCEPT
                   !.utxo = IF b \in s.invalid THEN @
                            ELSE disconnectTransactions(s, txs, b),
                   !.invalid = @ \ {b},
                   !.journal = Without(@, {b})]
  IN  indexDisconnect(undone, txs, b)

=============================================================================
