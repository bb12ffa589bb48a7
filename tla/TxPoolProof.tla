---------------------------- MODULE TxPoolProof ----------------------------
(***************************************************************************)
(* The indexes of the memory pool are exact in every reachable state, and  *)
(* when every notification has been handled the pool agrees with the       *)
(* chain, for every set of transactions, whatever they spend, and every    *)
(* bound.                                                                  *)
(***************************************************************************)
EXTENDS TxPool, TLAPS, SequenceTheorems

(* The pool and its index. *)
PoolPart ==
  /\ pool \subseteq Txs
  /\ DOMAIN outpoints \subseteq OutPoints
  /\ \A o \in DOMAIN outpoints : outpoints[o] \in Txs
  /\ SpentIndexExact

(* The orphans and their index. *)
OrphanPart ==
  /\ orphans \subseteq Txs
  /\ DOMAIN orphansByPrev \subseteq Txs \cup {Base}
  /\ \A p \in DOMAIN orphansByPrev :
       /\ orphansByPrev[p] = {t \in orphans : p \in PrevTxs(t)}
       /\ orphansByPrev[p] # {}
  /\ \A t \in orphans : PrevTxs(t) \subseteq DOMAIN orphansByPrev

(* The chain and its notifications. *)
ChainPart ==
  /\ confirmed \in Seq(Txs)
  /\ expired \subseteq Txs
  /\ notes \in Seq([kind : {"connected", "disconnected"}, tx : Txs])
  /\ handling \in [tx : Txs \cup {Base}, step : 0..3]
  /\ undone \in 0..MaxUndone
  /\ gone \subseteq Txs

(* While ProcessTransaction holds the lock, what it checked of the pool    *)
(* before it looked at the chain still holds.                              *)
LockPart ==
  /\ processing \in [tx : Txs \cup {Base}, missing : BOOLEAN]
  /\ ~Unlocked => /\ processing.tx \in Txs
                  /\ ~haveTransaction(processing.tx)
                  /\ checkPoolDoubleSpend(processing.tx)

PoolInv == PoolPart /\ OrphanPart /\ pool \cap orphans = {} /\ ChainPart /\ LockPart

-----------------------------------------------------------------------------
(* The inductive invariant contains what the runs check of the pool. *)
LEMMA PoolInvImplies == PoolInv => TypeOK /\ SpentIndexExact /\ OrphanIndexExact
<1>. SUFFICES ASSUME PoolInv PROVE TypeOK /\ SpentIndexExact /\ OrphanIndexExact
  BY Zenon
<1>1. SpentIndexExact
  BY Zenon DEF PoolInv, PoolPart
<1>2. OrphanIndexExact
  BY Zenon DEF PoolInv, OrphanPart, OrphanIndexExact
<1>3. \A p \in DOMAIN orphansByPrev : orphansByPrev[p] \subseteq Txs
  BY Zenon DEF PoolInv, OrphanPart
<1>4. TypeOK
  BY <1>3, Zenon DEF PoolInv, PoolPart, OrphanPart, ChainPart, LockPart, TypeOK
<1>. QED BY <1>1, <1>2, <1>4

(* The inputs of a transaction name outpoints that exist (a TxIn). *)
LEMMA SpendsType ==
  ASSUME NEW t \in Txs
  PROVE  Spends[t] \subseteq OutPoints /\ PrevTxs(t) \subseteq Txs \cup {Base}
<1>1. Spends[t] \subseteq OutPoints
  BY TxAssumption, Zenon
<1>2. \A o \in OutPoints : o[1] \in Txs \cup {Base}
  BY Zenon DEF OutPoints
<1>. QED BY <1>1, <1>2 DEF PrevTxs

-----------------------------------------------------------------------------
(* removeTransaction, for any set of transactions, frees exactly what they *)
(* spent: the index stays exact.                                           *)
LEMMA RemoveTransactionsKeep ==
  ASSUME PoolPart, NEW S \in SUBSET Txs, removeTransactions(S)
  PROVE  PoolPart' /\ pool' \subseteq pool
<1>. DEFINE freed == UNION {Spends[t] : t \in S \cap pool}
            kept  == DOMAIN outpoints \ freed
<1>1. pool' = pool \ S
  BY Zenon DEF removeTransactions
<1>2. DOMAIN outpoints' = kept /\ \A o \in kept : outpoints'[o] = outpoints[o]
  BY Zenon DEF removeTransactions, Restrict
<1>3. ASSUME NEW o \in kept
      PROVE  outpoints[o] \in pool \ S /\ o \in Spends[outpoints[o]]
  <2>1. outpoints[o] \in pool /\ o \in Spends[outpoints[o]]
    BY Zenon DEF PoolPart, SpentIndexExact
  <2>. QED BY <2>1
<1>4. ASSUME NEW t \in pool \ S, NEW o \in Spends[t]
      PROVE  o \in kept /\ outpoints[o] = t
  <2>1. o \in DOMAIN outpoints /\ outpoints[o] = t
    BY Zenon DEF PoolPart, SpentIndexExact
  <2>2. \A u \in S \cap pool : o \in Spends[u] => outpoints[o] = u
    BY Zenon DEF PoolPart, SpentIndexExact
  <2>. QED BY <2>1, <2>2
<1>. HIDE DEF kept
<1>5. SpentIndexExact'
  BY <1>1, <1>2, <1>3, <1>4, Zenon DEF SpentIndexExact
<1>6. kept \subseteq DOMAIN outpoints
  BY Zenon DEF kept
<1>. QED BY <1>1, <1>2, <1>5, <1>6 DEF PoolPart

(* addTransaction indexes what the new transaction spends; since           *)
(* checkPoolDoubleSpend found none of it indexed, no entry is lost.        *)
LEMMA AddTransactionKeeps ==
  ASSUME PoolPart, NEW t \in Txs, checkPoolDoubleSpend(t), addTransaction(t)
  PROVE  PoolPart' /\ pool' = pool \cup {t}
<1>1. pool' = pool \cup {t}
  BY Zenon DEF addTransaction
<1>2. /\ DOMAIN outpoints' = DOMAIN outpoints \cup Spends[t]
      /\ \A o \in Spends[t] : outpoints'[o] = t
      /\ \A o \in DOMAIN outpoints : outpoints'[o] = outpoints[o]
  BY Zenon DEF addTransaction, checkPoolDoubleSpend
<1>3. SpentIndexExact'
  BY <1>1, <1>2, Zenon DEF SpentIndexExact, PoolPart
<1>. QED BY <1>1, <1>2, <1>3, SpendsType DEF PoolPart

(* addOrphan lists the orphan under every transaction it names. *)
LEMMA AddOrphanKeeps ==
  ASSUME OrphanPart, NEW t \in Txs, addOrphan(t)
  PROVE  OrphanPart' /\ orphans' \subseteq orphans \cup {t}
<1>1. CASE MaxOrphanTxs = 0
  <2>1. orphans' = orphans /\ orphansByPrev' = orphansByPrev
    BY <1>1, Zenon DEF addOrphan
  <2>. QED BY <2>1 DEF OrphanPart, PrevTxs
<1>2. CASE MaxOrphanTxs # 0
  <2>1. orphans' = orphans \cup {t}
    BY <1>2, Zenon DEF addOrphan
  <2>. DEFINE D == DOMAIN orphansByPrev \cup PrevTxs(t)
  <2>2. /\ DOMAIN orphansByPrev' = D
        /\ \A p \in D : orphansByPrev'[p] =
             (IF p \in DOMAIN orphansByPrev THEN orphansByPrev[p] ELSE {})
             \cup (IF p \in PrevTxs(t) THEN {t} ELSE {})
    BY <1>2, Zenon DEF addOrphan
  <2>3. D \subseteq Txs \cup {Base}
    BY SpendsType, Zenon DEF OrphanPart
  <2>4. ASSUME NEW p \in D
        PROVE  /\ orphansByPrev'[p] = {u \in orphans' : p \in PrevTxs(u)}
               /\ orphansByPrev'[p] # {}
    <3>1. (IF p \in DOMAIN orphansByPrev THEN orphansByPrev[p] ELSE {})
            = {u \in orphans : p \in PrevTxs(u)}
      BY Zenon DEF OrphanPart
    <3>2. orphansByPrev'[p] = {u \in orphans : p \in PrevTxs(u)}
                               \cup (IF p \in PrevTxs(t) THEN {t} ELSE {})
      BY <2>2, <3>1, Zenon
    <3>3. orphansByPrev'[p] = {u \in orphans' : p \in PrevTxs(u)}
      BY <2>1, <3>2, Zenon
    <3>4. p \in DOMAIN orphansByPrev \/ t \in orphansByPrev'[p]
      BY <3>2, Zenon
    <3>5. p \in DOMAIN orphansByPrev => orphansByPrev[p] # {}
      BY Zenon DEF OrphanPart
    <3>. QED BY <2>2, <3>3, <3>4, <3>5
  <2>5. \A u \in orphans' : PrevTxs(u) \subseteq D
    BY <2>1, Zenon DEF OrphanPart
  <2>. HIDE DEF D
  <2>6. OrphanPart'
    BY <2>1, <2>2, <2>3, <2>4, <2>5, Zenon DEF OrphanPart, PrevTxs
  <2>. QED BY <2>1, <2>6
<1>. QED BY <1>1, <1>2

(* removeOrphan takes the orphan off every list and drops the lists that   *)
(* become empty.                                                           *)
LEMMA RemoveOrphansKeep ==
  ASSUME OrphanPart, NEW S, removeOrphans(S)
  PROVE  OrphanPart' /\ orphans' \subseteq orphans
<1>. DEFINE out(p) == {t \in S \cap orphans : p \in PrevTxs(t)}
            left   == {p \in DOMAIN orphansByPrev :
                         out(p) = {} \/ orphansByPrev[p] \ out(p) # {}}
<1>1. orphans' = orphans \ S
  BY Zenon DEF removeOrphans
<1>2. /\ DOMAIN orphansByPrev' = left
      /\ \A p \in left : orphansByPrev'[p] = orphansByPrev[p] \ out(p)
  BY Zenon DEF removeOrphans
<1>3. ASSUME NEW p \in left
      PROVE  /\ orphansByPrev'[p] = {t \in orphans' : p \in PrevTxs(t)}
             /\ orphansByPrev'[p] # {}
  <2>1. orphansByPrev[p] = {t \in orphans : p \in PrevTxs(t)} /\ orphansByPrev[p] # {}
    BY Zenon DEF OrphanPart
  <2>2. orphansByPrev'[p] = orphansByPrev[p] \ out(p)
    BY <1>2, Zenon
  <2>3. orphansByPrev[p] \ out(p) = {t \in orphans' : p \in PrevTxs(t)}
    BY <1>1, <2>1, Zenon
  <2>4. orphansByPrev[p] \ out(p) # {}
    BY <2>1, Zenon
  <2>. QED BY <2>2, <2>3, <2>4
<1>4. ASSUME NEW t \in orphans', NEW p \in PrevTxs(t)
      PROVE  p \in left
  <2>1. p \in DOMAIN orphansByPrev /\ t \in orphansByPrev[p]
    BY <1>1, Zenon DEF OrphanPart
  <2>2. t \notin out(p)
    BY <1>1, Zenon
  <2>. QED BY <2>1, <2>2
<1>. HIDE DEF left
<1>5. left \subseteq Txs \cup {Base}
  BY Zenon DEF left, OrphanPart
<1>6. OrphanPart'
  BY <1>1, <1>2, <1>3, <1>4, <1>5, Zenon DEF OrphanPart, PrevTxs
<1>. QED BY <1>1, <1>6

(* processOrphans only removes orphans, so their index stays exact. *)
LEMMA ProcessOrphansKeeps ==
  ASSUME OrphanPart, NEW t, processOrphans(t)
  PROVE  OrphanPart' /\ orphans' \subseteq orphans
BY RemoveOrphansKeep, Zenon DEF processOrphans

-----------------------------------------------------------------------------
(* What a step leaves alone keeps its part. *)
LEMMA PoolPartUnchanged ==
  ASSUME PoolPart, UNCHANGED <<pool, outpoints>> PROVE PoolPart'
BY Zenon DEF PoolPart, SpentIndexExact

(* A step that leaves the orphans alone keeps their index. *)
LEMMA OrphanPartUnchanged ==
  ASSUME OrphanPart, UNCHANGED <<orphans, orphansByPrev>> PROVE OrphanPart'
BY Zenon DEF OrphanPart, PrevTxs

(* What ProcessTransaction saw under the lock stays true while it holds it. *)
LEMMA LockPartUnchanged ==
  ASSUME LockPart, UNCHANGED <<pool, outpoints, orphans, processing>>
  PROVE  LockPart'
BY Zenon DEF LockPart, Unlocked, haveTransaction, checkPoolDoubleSpend

(* An operation that holds the lock from start to end leaves LockPart      *)
(* nothing to say.                                                         *)
LEMMA LockPartFree ==
  ASSUME processing' = NotProcessing PROVE LockPart'
<1>1. NotProcessing \in [tx : Txs \cup {Base}, missing : BOOLEAN]
  BY Zenon DEF NotProcessing
<1>. QED BY <1>1 DEF LockPart, Unlocked, NotProcessing

-----------------------------------------------------------------------------
(* New makes an empty pool, which satisfies the invariant. *)
LEMMA PoolInvInit == Init => PoolInv
<1>. SUFFICES ASSUME Init PROVE PoolInv
  BY Zenon
<1>1. PoolPart
  BY Zenon DEF Init, PoolPart, SpentIndexExact
<1>2. OrphanPart
  BY Zenon DEF Init, OrphanPart
<1>3. ChainPart
  BY TxAssumption DEF Init, ChainPart, None
<1>4. LockPart
  BY Zenon DEF Init, LockPart, Unlocked, NotProcessing
<1>5. pool \cap orphans = {}
  BY Zenon DEF Init
<1>. QED BY <1>1, <1>2, <1>3, <1>4, <1>5 DEF PoolInv

(* The blocks of the chain do not touch the pool. *)
LEMMA ChainSteps ==
  ASSUME PoolInv,
         \/ \E t \in Txs : ConnectBlock(t) \/ ConnectInvalidBlock(t)
         \/ \E t \in Expiring : ReachExpiry(t)
         \/ DisconnectBlock
         \/ HandleDisconnected
  PROVE  PoolInv'
<1>. DEFINE Note == [kind : {"connected", "disconnected"}, tx : Txs]
<1>1. ChainPart
  BY Zenon DEF PoolInv
<1>2. UNCHANGED <<pool, outpoints, orphans, orphansByPrev, processing>>
  BY Zenon DEF ConnectBlock, ConnectInvalidBlock, ReachExpiry, DisconnectBlock,
         HandleDisconnected
<1>3. ChainPart'
  <2>1. ASSUME NEW t \in Txs, ConnectBlock(t) PROVE ChainPart'
    <3>1. confirmed' \in Seq(Txs)
      BY <1>1, <2>1 DEF ChainPart, ConnectBlock
    <3>2. notes' \in Seq(Note)
      BY <1>1, <2>1 DEF ChainPart, ConnectBlock, Notify
    <3>. QED BY <1>1, <2>1, <3>1, <3>2 DEF ChainPart, ConnectBlock
  <2>2. ASSUME NEW t \in Txs, ConnectInvalidBlock(t) PROVE ChainPart'
    <3>1. notes' \in Seq(Note)
      BY <1>1, <2>2 DEF ChainPart, ConnectInvalidBlock, Notify
    <3>2. undone' \in 0..MaxUndone
      BY <1>1, <2>2, TxAssumption DEF ChainPart, ConnectInvalidBlock
    <3>. QED BY <1>1, <2>2, <3>1, <3>2 DEF ChainPart, ConnectInvalidBlock
  <2>3. ASSUME NEW t \in Expiring, ReachExpiry(t) PROVE ChainPart'
    BY <1>1, <2>3, TxAssumption, Zenon DEF ChainPart, ReachExpiry
  <2>4. ASSUME DisconnectBlock PROVE ChainPart'
    <3>1. confirmed[Len(confirmed)] \in Txs
      BY <1>1, <2>4 DEF ChainPart, DisconnectBlock
    <3>2. confirmed' \in Seq(Txs)
      BY <1>1, <2>4 DEF ChainPart, DisconnectBlock
    <3>3. notes' \in Seq(Note)
      BY <1>1, <2>4, <3>1 DEF ChainPart, DisconnectBlock, Notify
    <3>4. undone' \in 0..MaxUndone
      BY <1>1, <2>4, TxAssumption DEF ChainPart, DisconnectBlock
    <3>. QED BY <1>1, <2>4, <3>1, <3>2, <3>3, <3>4 DEF ChainPart, DisconnectBlock
  <2>5. ASSUME HandleDisconnected PROVE ChainPart'
    BY <1>1, <2>5 DEF ChainPart, HandleDisconnected
  <2>. QED BY <2>1, <2>2, <2>3, <2>4, <2>5, SMTT(30)
<1>4. PoolPart' /\ OrphanPart' /\ LockPart'
  BY <1>2, PoolPartUnchanged, OrphanPartUnchanged, LockPartUnchanged, Zenon DEF PoolInv
<1>. QED BY <1>2, <1>3, <1>4 DEF PoolInv

(* ProcessTransaction checks the pool, looks at the chain and acts. *)
LEMMA ProcessSteps ==
  ASSUME PoolInv, (\E t \in Txs : BeginProcess(t)) \/ EndProcess
  PROVE  PoolInv'
<1>1. PoolPart /\ OrphanPart /\ pool \cap orphans = {} /\ LockPart /\ ChainPart
  BY Zenon DEF PoolInv
<1>2. ASSUME NEW t \in Txs, BeginProcess(t) PROVE PoolInv'
  <2>1. UNCHANGED <<pool, outpoints, orphans, orphansByPrev>> /\ ChainPart'
    BY <1>1, <1>2, Zenon DEF BeginProcess, ChainPart
  <2>2. processing' = [tx |-> t, missing |-> missingInputs(t) # {}]
    BY <1>2, Zenon DEF BeginProcess
  <2>3. /\ processing' \in [tx : Txs \cup {Base}, missing : BOOLEAN]
        /\ processing'.tx = t
    BY <2>2, Zenon
  <2>4. LockPart'
    BY <1>2, <2>1, <2>3, Zenon
       DEF BeginProcess, LockPart, haveTransaction, checkPoolDoubleSpend
  <2>. QED BY <1>1, <2>1, <2>4, PoolPartUnchanged, OrphanPartUnchanged, SMTT(30) DEF PoolInv
<1>3. ASSUME AcceptProcessed PROVE PoolInv'
  <2>. DEFINE t == processing.tx
  <2>1. t \in Txs /\ t \notin orphans /\ checkPoolDoubleSpend(t)
    BY <1>1, <1>3, Zenon DEF AcceptProcessed, LockPart, haveTransaction
  <2>2. PoolPart' /\ pool' = pool \cup {t}
    BY <1>1, <1>3, <2>1, AddTransactionKeeps, Zenon DEF AcceptProcessed
  <2>3. OrphanPart' /\ orphans' \subseteq orphans
    BY <1>1, <1>3, ProcessOrphansKeeps, Zenon DEF AcceptProcessed
  <2>4. LockPart'
    BY <1>3, LockPartFree, Zenon DEF AcceptProcessed
  <2>5. ChainPart'
    BY <1>1, <1>3, Zenon DEF AcceptProcessed, ChainPart
  <2>. QED BY <1>1, <2>1, <2>2, <2>3, <2>4, <2>5 DEF PoolInv
<1>4. ASSUME NEW allow \in BOOLEAN, OrphanProcessed(allow) PROVE PoolInv'
  <2>. DEFINE t == processing.tx
  <2>1. t \in Txs /\ t \notin pool
    BY <1>1, <1>4, Zenon DEF OrphanProcessed, LockPart, haveTransaction
  <2>2. UNCHANGED <<pool, outpoints>> /\ ChainPart'
    BY <1>1, <1>4, Zenon DEF OrphanProcessed, ChainPart
  <2>3. OrphanPart' /\ orphans' \subseteq orphans \cup {t}
    <3>1. CASE allow
      BY <1>1, <1>4, <2>1, <3>1, AddOrphanKeeps, Zenon DEF OrphanProcessed
    <3>2. CASE ~allow
      BY <1>1, <1>4, <3>2, OrphanPartUnchanged, Zenon DEF OrphanProcessed
    <3>. QED BY <3>1, <3>2
  <2>4. LockPart'
    BY <1>4, LockPartFree, Zenon DEF OrphanProcessed
  <2>. QED BY <1>1, <2>1, <2>2, <2>3, <2>4, PoolPartUnchanged DEF PoolInv
<1>. QED BY <1>2, <1>3, <1>4 DEF EndProcess

(* Operations that only remove: PruneExpiredTx and the four calls of the   *)
(* BlockConnected handler.                                                 *)
LEMMA RemovingSteps ==
  ASSUME PoolInv,
         \/ PruneExpiredTx \/ HandleRemoveTransaction \/ HandleRemoveDoubleSpends
         \/ HandleRemoveOrphan \/ HandleProcessOrphans
  PROVE  PoolInv'
<1>1. PoolPart /\ OrphanPart /\ pool \cap orphans = {} /\ LockPart /\ ChainPart
  BY Zenon DEF PoolInv
<1>2. LockPart'
  BY LockPartFree, Zenon DEF PruneExpiredTx, HandleRemoveTransaction,
     HandleRemoveDoubleSpends, HandleRemoveOrphan, HandleProcessOrphans, Unlocked
<1>3. \A t : withRedeemers(t) \subseteq Txs
  BY Zenon DEF withRedeemers
<1>4. ASSUME PruneExpiredTx PROVE PoolInv'
  <2>1. PoolPart' /\ pool' \subseteq pool
    BY <1>1, <1>3, <1>4, RemoveTransactionsKeep, Zenon DEF PruneExpiredTx
  <2>2. OrphanPart' /\ orphans' = orphans
    BY <1>1, <1>4, OrphanPartUnchanged, Zenon DEF PruneExpiredTx
  <2>3. ChainPart'
    BY <1>1, <1>4, Zenon DEF PruneExpiredTx, ChainPart
  <2>. QED BY <1>1, <1>2, <2>1, <2>2, <2>3 DEF PoolInv
<1>5. ASSUME HandleRemoveTransaction PROVE PoolInv'
  <2>. DEFINE Note == [kind : {"connected", "disconnected"}, tx : Txs]
  <2>1. Head(notes).tx \in Txs /\ notes' \in Seq(Note)
    <3>1. notes \in Seq(Note) /\ notes # <<>> /\ notes' = Tail(notes)
      BY <1>1, <1>5, Zenon DEF HandleRemoveTransaction, ChainPart
    <3>. HIDE DEF Note
    <3>2. Head(notes) \in Note /\ notes' \in Seq(Note)
      BY <3>1
    <3>. QED BY <3>2 DEF Note
  <2>2. PoolPart' /\ pool' \subseteq pool
    BY <1>1, <1>5, <2>1, RemoveTransactionsKeep, Zenon DEF HandleRemoveTransaction
  <2>3. OrphanPart' /\ orphans' = orphans
    BY <1>1, <1>5, OrphanPartUnchanged, Zenon DEF HandleRemoveTransaction
  <2>4. ChainPart'
    BY <1>1, <1>5, <2>1 DEF HandleRemoveTransaction, ChainPart
  <2>. QED BY <1>1, <1>2, <2>2, <2>3, <2>4 DEF PoolInv
<1>6. ASSUME HandleRemoveDoubleSpends PROVE PoolInv'
  <2>1. PoolPart' /\ pool' \subseteq pool
    BY <1>1, <1>3, <1>6, RemoveTransactionsKeep, Zenon DEF HandleRemoveDoubleSpends
  <2>2. OrphanPart' /\ orphans' = orphans
    BY <1>1, <1>6, OrphanPartUnchanged, Zenon DEF HandleRemoveDoubleSpends
  <2>3. ChainPart'
    BY <1>1, <1>6 DEF HandleRemoveDoubleSpends, ChainPart
  <2>. QED BY <1>1, <1>2, <2>1, <2>2, <2>3 DEF PoolInv
<1>7. ASSUME HandleRemoveOrphan PROVE PoolInv'
  <2>1. OrphanPart' /\ orphans' \subseteq orphans
    BY <1>1, <1>7, RemoveOrphansKeep, Zenon DEF HandleRemoveOrphan
  <2>2. PoolPart' /\ pool' = pool
    BY <1>1, <1>7, PoolPartUnchanged, Zenon DEF HandleRemoveOrphan
  <2>3. ChainPart'
    BY <1>1, <1>7 DEF HandleRemoveOrphan, ChainPart
  <2>. QED BY <1>1, <1>2, <2>1, <2>2, <2>3 DEF PoolInv
<1>8. ASSUME HandleProcessOrphans PROVE PoolInv'
  <2>1. OrphanPart' /\ orphans' \subseteq orphans
    BY <1>1, <1>8, ProcessOrphansKeeps, Zenon DEF HandleProcessOrphans
  <2>2. PoolPart' /\ pool' = pool
    BY <1>1, <1>8, PoolPartUnchanged, Zenon DEF HandleProcessOrphans
  <2>3. ChainPart'
    BY <1>1, <1>8 DEF HandleProcessOrphans, ChainPart, None
  <2>. QED BY <1>1, <1>2, <2>1, <2>2, <2>3 DEF PoolInv
<1>. QED BY <1>4, <1>5, <1>6, <1>7, <1>8

-----------------------------------------------------------------------------
(* The invariant holds of every behaviour: one case per kind of step. *)
LEMMA PoolInvariant == Spec => []PoolInv
<1>1. PoolInv /\ [Next]_vars => PoolInv'
  <2>. SUFFICES ASSUME PoolInv, [Next]_vars PROVE PoolInv'
    BY Zenon
  <2>1. CASE UNCHANGED vars
    <3>1. PoolPart' /\ OrphanPart' /\ LockPart'
      BY <2>1, PoolPartUnchanged, OrphanPartUnchanged, LockPartUnchanged, Zenon
         DEF PoolInv, vars
    <3>2. ChainPart' /\ (pool \cap orphans = {})'
      BY <2>1, Zenon DEF PoolInv, ChainPart, vars
    <3>. QED BY <3>1, <3>2 DEF PoolInv
  <2>2. CASE Next
    BY <2>2, ChainSteps, ProcessSteps, RemovingSteps, Zenon DEF Next, Handle
  <2>. QED BY <2>1, <2>2
<1>. QED BY <1>1, PoolInvInit, PTL DEF Spec

(* Type correctness of the memory pool model. *)
THEOREM TypeCorrect == Spec => []TypeOK
BY PoolInvariant, PoolInvImplies, PTL

(* In every reachable state outpoints is exactly the index of what the     *)
(* pool spends, so no two pool transactions spend the same output,         *)
(* however ProcessTransaction, PruneExpiredTx, the notification handler    *)
(* and the chain interleave (addTransaction, removeTransaction).           *)
THEOREM SpentIndexAlwaysExact == Spec => []SpentIndexExact
BY PoolInvariant, PoolInvImplies, PTL

(* In every reachable state orphansByPrev is exactly the index of what the *)
(* orphans name, without empty lists, and no transaction is both pooled    *)
(* and an orphan (addOrphan, removeOrphan, processOrphans).                *)
THEOREM OrphanIndexAlwaysExact == Spec => []OrphanIndexExact
BY PoolInvariant, PoolInvImplies, PTL

-----------------------------------------------------------------------------
(* The pool and the chain.  A pool transaction may lag behind the chain    *)
(* only by what a notification still to be handled will put right.  So the *)
(* argument is about which blocks the handler has yet to hear of: the last *)
(* ones of the chain, announced in the order they were connected, among    *)
(* notifications of blocks that turned out invalid or were disconnected    *)
(* since.                                                                  *)

Unspent(c, o) ==
  /\ o[1] = Base \/ \E i \in 1..Len(c) : o[1] = c[i]
  /\ \A i \in 1..Len(c) : o \notin Spends[c[i]]

(* Each block of the chain spends what earlier ones made, once. *)
ChainSound(c) ==
  \A i \in 1..Len(c) :
    /\ \A o \in Spends[c[i]] : o[1] = Base \/ \E j \in 1..(i - 1) : o[1] = c[j]
    /\ \A j \in 1..(i - 1) : c[j] # c[i] /\ Spends[c[j]] \cap Spends[c[i]] = {}

Note(t) == [kind |-> "connected", tx |-> t]

(* The blocks of c after the first h are announced in ns, at the places f. *)
Announced(c, ns, h, f) ==
  \A i \in (h + 1)..Len(c) :
    /\ f[i] \in 1..Len(ns) /\ ns[f[i]] = Note(c[i])
    /\ \A j \in (h + 1)..Len(c) : i < j => f[i] < f[j]

(* t, which is in the pool p or about to be, is not in the first h blocks, *)
(* and each of its inputs is there, or lost with a dropped transaction, or *)
(* spent by a block that is still announced or whose handler is about to   *)
(* look for double spends.                                                 *)
Settled(c, p, g, hd, t, h) ==
  /\ \A i \in 1..h : t # c[i]
  /\ \A o \in Spends[t] :
       \/ Unspent(c, o) \/ o[1] \in p \cup g
       \/ \E i \in (h + 1)..Len(c) : o \in Spends[c[i]]
       \/ hd.step = 1 /\ t # hd.tx /\ o \in Spends[hd.tx]

(* The pool with the transaction that ProcessTransaction is about to add. *)
Entering == IF ~Unlocked /\ ~processing.missing THEN pool \cup {processing.tx} ELSE pool

SettledUpTo(h) == \A t \in Entering : Settled(confirmed, pool, gone, handling, t, h)

SpendInv ==
  /\ ChainSound(confirmed)
  /\ \E h \in 0..Len(confirmed) :
       /\ \E f \in [(h + 1)..Len(confirmed) -> 1..Len(notes)] : Announced(confirmed, notes, h, f)
       /\ SettledUpTo(h)

-----------------------------------------------------------------------------
(* The outputs of transactions, by the transaction they belong to. *)
LEMMA OutsMember ==
  ASSUME NEW S, NEW o \in OutPoints PROVE o \in OutsOf(S) <=> o[1] \in S
BY DEF OutPoints, OutsOf, Outs

(* The chain's outputs, by the blocks. *)
LEMMA UtxoMember ==
  ASSUME confirmed \in Seq(Txs), NEW o \in OutPoints PROVE o \in utxo <=> Unspent(confirmed, o)
<1>1. o \in OutsOf(Confirmed) <=> o[1] \in Confirmed
  BY OutsMember, Zenon
<1>2. o[1] \in Confirmed <=> o[1] = Base \/ \E i \in 1..Len(confirmed) : o[1] = confirmed[i]
  BY DEF Confirmed, Range
<1>3. o \in UNION {Spends[t] : t \in Range(confirmed)}
        <=> \E i \in 1..Len(confirmed) : o \in Spends[confirmed[i]]
  BY DEF Range
<1>. QED BY <1>1, <1>2, <1>3 DEF utxo, Unspent

(* A chain without its last block. *)
LEMMA FrontLength ==
  ASSUME NEW c, NEW n \in Nat, \A i \in 1..n : c[i] \in Txs
  PROVE  Len(SubSeq(c, 1, n)) = n
<1>1. Len(SubSeq(c, 1, n)) = IF 1 <= n THEN n - 1 + 1 ELSE 0
  BY SubSeqProperties, SMT
<1>. QED BY <1>1

LEMMA FrontFacts ==
  ASSUME NEW c \in Seq(Txs), c # <<>>
  PROVE  LET d == SubSeq(c, 1, Len(c) - 1)
         IN  /\ Len(c) \in Nat \ {0} /\ Len(d) = Len(c) - 1
             /\ \A i \in 1..(Len(c) - 1) : d[i] = c[i]
<1>1. Len(c) \in Nat \ {0}
  OBVIOUS
<1>2. Len(c) - 1 \in Nat /\ \A i \in 1..(Len(c) - 1) : c[i] \in Txs
  BY <1>1
<1>3. Len(SubSeq(c, 1, Len(c) - 1)) = Len(c) - 1
  BY <1>2, FrontLength, Zenon
<1>4. \A i \in 1..(Len(c) - 1) : SubSeq(c, 1, Len(c) - 1)[i] = c[i]
  BY <1>1, <1>2
<1>. QED BY <1>1, <1>3, <1>4, Zenon

-----------------------------------------------------------------------------
(* Connecting a block announces it after the others. *)
LEMMA AnnounceConnect ==
  ASSUME NEW c \in Seq(Txs), NEW ns \in Seq([kind : {"connected", "disconnected"}, tx : Txs]),
         NEW h \in 0..Len(c), NEW u \in Txs,
         NEW f \in [(h + 1)..Len(c) -> 1..Len(ns)], Announced(c, ns, h, f)
  PROVE  \E e \in [(h + 1)..Len(Append(c, u)) -> 1..Len(Append(ns, Note(u)))] :
           Announced(Append(c, u), Append(ns, Note(u)), h, e)
<1>. DEFINE d == Append(c, u)
            ms == Append(ns, Note(u))
            e == [i \in (h + 1)..Len(d) |-> IF i <= Len(c) THEN f[i] ELSE Len(ns) + 1]
<1>1. /\ Len(d) = Len(c) + 1 /\ d[Len(d)] = u /\ \A i \in 1..Len(c) : d[i] = c[i]
      /\ Len(ms) = Len(ns) + 1 /\ ms[Len(ms)] = Note(u) /\ \A i \in 1..Len(ns) : ms[i] = ns[i]
      /\ Len(c) \in Nat /\ Len(ns) \in Nat
  BY DEF Note
<1>. HIDE DEF d, ms
<1>2. e \in [(h + 1)..Len(d) -> 1..Len(ms)]
  BY <1>1
<1>3. ASSUME NEW i \in (h + 1)..Len(d) PROVE ms[e[i]] = Note(d[i])
  <2>1. CASE i <= Len(c)
    BY <1>1, <2>1 DEF Announced
  <2>2. CASE i = Len(d)
    BY <1>1, <2>2
  <2>. QED BY <1>1, <2>1, <2>2
<1>4. ASSUME NEW i \in (h + 1)..Len(d), NEW j \in (h + 1)..Len(d), i < j PROVE e[i] < e[j]
  BY <1>1, <1>4 DEF Announced
<1>5. Announced(d, ms, h, e)
  BY <1>2, <1>3, <1>4, Zenon DEF Announced
<1>. QED BY <1>2, <1>5 DEF d, ms

(* Any other notification comes after those that wait already. *)
LEMMA AnnounceMore ==
  ASSUME NEW c \in Seq(Txs), NEW ns \in Seq([kind : {"connected", "disconnected"}, tx : Txs]),
         NEW h \in 0..Len(c), NEW x \in [kind : {"connected", "disconnected"}, tx : Txs],
         NEW f \in [(h + 1)..Len(c) -> 1..Len(ns)], Announced(c, ns, h, f)
  PROVE  /\ f \in [(h + 1)..Len(c) -> 1..Len(Append(ns, x))]
         /\ Announced(c, Append(ns, x), h, f)
BY DEF Announced

(* When the last block is disconnected, the others are announced as before. *)
LEMMA AnnounceUndo ==
  ASSUME NEW c \in Seq(Txs), c # <<>>, NEW d, d = SubSeq(c, 1, Len(c) - 1),
         NEW ns \in Seq([kind : {"connected", "disconnected"}, tx : Txs]),
         NEW h \in 0..Len(c), NEW k, k = (IF h = Len(c) THEN h - 1 ELSE h),
         NEW f \in [(h + 1)..Len(c) -> 1..Len(ns)], Announced(c, ns, h, f)
  PROVE  /\ k \in 0..Len(d)
         /\ \E e \in [(k + 1)..Len(d) -> 1..Len(ns)] : Announced(d, ns, k, e)
<1>. DEFINE e == [i \in (k + 1)..Len(d) |-> f[i]]
<1>1. /\ Len(c) \in Nat \ {0} /\ Len(d) = Len(c) - 1 /\ \A i \in 1..Len(d) : d[i] = c[i]
      /\ Len(ns) \in Nat
  BY FrontFacts
<1>2. k \in 0..Len(d) /\ \A i \in (k + 1)..Len(d) : i \in (h + 1)..Len(c) /\ d[i] = c[i]
  BY <1>1
<1>3. e \in [(k + 1)..Len(d) -> 1..Len(ns)]
  BY <1>2, Zenon
<1>4. Announced(d, ns, k, e)
  BY <1>2, Zenon DEF Announced
<1>. QED BY <1>2, <1>3, <1>4

(* The handler takes the first notification: either it announces the first *)
(* block the handler has not heard of, or it is about none of them.        *)
LEMMA AnnounceHandled ==
  ASSUME NEW c \in Seq(Txs), NEW ns \in Seq([kind : {"connected", "disconnected"}, tx : Txs]),
         ns # <<>>, NEW h \in 0..Len(c),
         NEW f \in [(h + 1)..Len(c) -> 1..Len(ns)], Announced(c, ns, h, f)
  PROVE  \E k \in 0..Len(c) :
           /\ k = h \/ (k = h + 1 /\ Head(ns) = Note(c[k]))
           /\ \E e \in [(k + 1)..Len(c) -> 1..Len(Tail(ns))] : Announced(c, Tail(ns), k, e)
<1>. DEFINE ms == Tail(ns)
            first == h < Len(c) /\ f[h + 1] = 1
            k == IF first THEN h + 1 ELSE h
            e == [i \in (k + 1)..Len(c) |-> f[i] - 1]
<1>1. /\ Len(c) \in Nat /\ Len(ns) \in Nat \ {0} /\ Len(ms) = Len(ns) - 1 /\ Head(ns) = ns[1]
      /\ \A i \in 1..Len(ms) : ms[i] = ns[i + 1]
  OBVIOUS
<1>. HIDE DEF ms
<1>2. k \in 0..Len(c) /\ (k + 1)..Len(c) \subseteq (h + 1)..Len(c)
  BY <1>1
<1>3. k = h \/ (k = h + 1 /\ Head(ns) = Note(c[k]))
  BY <1>1 DEF Announced
<1>4. ASSUME NEW i \in (k + 1)..Len(c) PROVE f[i] \in 2..Len(ns)
  <2>1. i \in (h + 1)..Len(c) /\ h + 1 \in (h + 1)..Len(c) /\ f[i] \in 1..Len(ns)
    BY <1>1, <1>2
  <2>2. CASE i = h + 1
    BY <1>1, <2>1, <2>2
  <2>3. CASE i > h + 1
    <3>1. f[h + 1] < f[i] /\ f[h + 1] \in 1..Len(ns)
      BY <2>1, <2>3, Zenon DEF Announced
    <3>. QED BY <1>1, <2>1, <3>1
  <2>. QED BY <1>1, <2>1, <2>2, <2>3
<1>. HIDE DEF k
<1>5. e \in [(k + 1)..Len(c) -> 1..Len(ms)]
  BY <1>1, <1>4
<1>6. ASSUME NEW i \in (k + 1)..Len(c) PROVE ms[e[i]] = Note(c[i])
  <2>1. e[i] \in 1..Len(ms) /\ e[i] + 1 = f[i]
    BY <1>1, <1>4
  <2>2. ns[f[i]] = Note(c[i])
    BY <1>2, Zenon DEF Announced
  <2>. QED BY <1>1, <2>1, <2>2
<1>7. ASSUME NEW i \in (k + 1)..Len(c), NEW j \in (k + 1)..Len(c), i < j PROVE e[i] < e[j]
  <2>1. f[i] < f[j]
    BY <1>2, <1>7, Zenon DEF Announced
  <2>. QED BY <1>1, <1>4, <2>1
<1>8. Announced(c, ms, k, e)
  BY <1>5, <1>6, <1>7, Zenon DEF Announced
<1>. QED BY <1>2, <1>3, <1>5, <1>8 DEF ms

-----------------------------------------------------------------------------
(* A block that is connected spends an input of t, or leaves it. *)
LEMMA SettledConnect ==
  ASSUME NEW c \in Seq(Txs), NEW h \in 0..Len(c), NEW p, NEW g, NEW hd, NEW t, NEW u \in Txs,
         Settled(c, p, g, hd, t, h)
  PROVE  Settled(Append(c, u), p, g, hd, t, h)
<1>. DEFINE d == Append(c, u)
<1>1. /\ Len(c) \in Nat /\ Len(d) = Len(c) + 1 /\ d[Len(d)] = u
      /\ \A i \in 1..Len(c) : d[i] = c[i]
  OBVIOUS
<1>. HIDE DEF d
<1>2. \A i \in 1..h : t # d[i]
  BY <1>1 DEF Settled
<1>3. \A i \in 1..Len(d) : i \in 1..Len(c) \/ i = Len(d)
  BY <1>1
<1>4. 1..Len(c) \subseteq 1..Len(d) /\ (h + 1)..Len(c) \subseteq (h + 1)..Len(d)
      /\ (h + 1)..Len(c) \subseteq 1..Len(c) /\ Len(d) \in (h + 1)..Len(d)
  BY <1>1
<1>5. ASSUME NEW o \in Spends[t]
      PROVE  \/ Unspent(d, o) \/ o[1] \in p \cup g
             \/ \E i \in (h + 1)..Len(d) : o \in Spends[d[i]]
             \/ hd.step = 1 /\ t # hd.tx /\ o \in Spends[hd.tx]
  <2>1. CASE Unspent(c, o)
    BY <1>1, <1>3, <1>4, <2>1, Zenon DEF Unspent
  <2>2. CASE \E i \in (h + 1)..Len(c) : o \in Spends[c[i]]
    BY <1>1, <1>4, <2>2, Zenon
  <2>. QED BY <2>1, <2>2, Zenon DEF Settled
<1>. QED BY <1>2, <1>5, Zenon DEF Settled, d

(* A block that is disconnected frees an input of t, or drops the          *)
(* transaction that made it.                                               *)
LEMMA SettledUndo ==
  ASSUME NEW c \in Seq(Txs), c # <<>>, ChainSound(c), NEW d, d = SubSeq(c, 1, Len(c) - 1),
         NEW h \in 0..Len(c), NEW k, k = (IF h = Len(c) THEN h - 1 ELSE h),
         NEW p, NEW g, NEW hd, NEW t, Settled(c, p, g, hd, t, h)
  PROVE  Settled(d, p, g \cup {c[Len(c)]}, hd, t, k)
<1>. DEFINE n == Len(c)
            u == c[n]
<1>1. n \in Nat \ {0}
  OBVIOUS
<1>2. Len(d) = n - 1 /\ \A i \in 1..(n - 1) : d[i] = c[i]
  BY FrontFacts, Zenon
<1>3. /\ 1..k \subseteq 1..h /\ 1..k \subseteq 1..(n - 1) /\ n \in 1..n
      /\ 1..(n - 1) \subseteq 1..n
      /\ \A i \in 1..n : i \in 1..(n - 1) \/ i = n
      /\ \A i \in (h + 1)..n : i \in (k + 1)..(n - 1) \/ i = n
      /\ (k + 1)..(n - 1) \subseteq 1..(n - 1)
  BY <1>1
<1>4. u = c[n]
  BY Zenon
<1>. HIDE DEF n, u
<1>5. \A i \in 1..k : t # d[i]
  BY <1>2, <1>3, Zenon DEF Settled
<1>6. ASSUME NEW o \in Spends[t]
      PROVE  \/ Unspent(d, o) \/ o[1] \in p \cup (g \cup {u})
             \/ \E i \in (k + 1)..Len(d) : o \in Spends[d[i]]
             \/ hd.step = 1 /\ t # hd.tx /\ o \in Spends[hd.tx]
  <2>1. CASE Unspent(c, o)
    BY <1>2, <1>3, <1>4, <2>1, ZenonT(60) DEF Unspent, n
  <2>2. ASSUME NEW i \in (h + 1)..n, o \in Spends[c[i]]
        PROVE  Unspent(d, o) \/ \E j \in (k + 1)..Len(d) : o \in Spends[d[j]]
    <3>1. CASE i # n
      BY <1>2, <1>3, <2>2, <3>1, Zenon
    <3>2. CASE i = n
      <4>1. o[1] = Base \/ \E j \in 1..(n - 1) : o[1] = c[j]
        BY <1>3, <2>2, <3>2, Zenon DEF ChainSound, n
      <4>2. \A j \in 1..(n - 1) : o \notin Spends[c[j]]
        BY <1>3, <2>2, <3>2, Zenon DEF ChainSound, n
      <4>. QED BY <1>2, <4>1, <4>2, Zenon DEF Unspent
    <3>. QED BY <3>1, <3>2
  <2>3. CASE \E i \in (h + 1)..Len(c) : o \in Spends[c[i]]
    BY <2>2, <2>3, Zenon DEF n
  <2>. QED BY <2>1, <2>3, Zenon DEF Settled
<1>. QED BY <1>4, <1>5, <1>6, Zenon DEF Settled, n

(* The chain stays sound. *)
LEMMA SoundConnect ==
  ASSUME NEW c \in Seq(Txs), ChainSound(c), NEW u \in Txs, \A i \in 1..Len(c) : u # c[i],
         \A o \in Spends[u] : Unspent(c, o)
  PROVE  ChainSound(Append(c, u))
<1>. DEFINE d == Append(c, u)
<1>1. /\ Len(c) \in Nat /\ Len(d) = Len(c) + 1 /\ d[Len(d)] = u
      /\ \A i \in 1..Len(c) : d[i] = c[i]
  OBVIOUS
<1>. HIDE DEF d
<1>2. /\ \A i \in 1..Len(d) : (i \in 1..Len(c) /\ 1..(i - 1) \subseteq 1..Len(c)) \/ i = Len(d)
      /\ 1..(Len(d) - 1) = 1..Len(c)
  BY <1>1
<1>3. ASSUME NEW i \in 1..Len(c), 1..(i - 1) \subseteq 1..Len(c)
      PROVE  /\ \A o \in Spends[d[i]] : o[1] = Base \/ \E j \in 1..(i - 1) : o[1] = d[j]
             /\ \A j \in 1..(i - 1) : d[j] # d[i] /\ Spends[d[j]] \cap Spends[d[i]] = {}
  <2>1. d[i] = c[i] /\ \A j \in 1..(i - 1) : d[j] = c[j]
    BY <1>1, <1>3, Zenon
  <2>2. /\ \A o \in Spends[c[i]] : o[1] = Base \/ \E j \in 1..(i - 1) : o[1] = c[j]
        /\ \A j \in 1..(i - 1) : c[j] # c[i] /\ Spends[c[j]] \cap Spends[c[i]] = {}
    BY Zenon DEF ChainSound
  <2>. QED BY <2>1, <2>2
<1>4. /\ \A o \in Spends[u] : o[1] = Base \/ \E j \in 1..(Len(d) - 1) : o[1] = d[j]
      /\ \A j \in 1..(Len(d) - 1) : d[j] # u /\ Spends[d[j]] \cap Spends[u] = {}
  BY <1>1, <1>2 DEF Unspent
<1>5. ChainSound(d)
  BY <1>1, <1>2, <1>3, <1>4, ZenonT(40) DEF ChainSound
<1>. QED BY <1>5 DEF d

(* It does so when its last block is disconnected. *)
LEMMA SoundUndo ==
  ASSUME NEW c \in Seq(Txs), c # <<>>, ChainSound(c)
  PROVE  ChainSound(SubSeq(c, 1, Len(c) - 1))
<1>. DEFINE d == SubSeq(c, 1, Len(c) - 1)
<1>1. Len(c) \in Nat \ {0}
  OBVIOUS
<1>2. Len(d) = Len(c) - 1 /\ \A i \in 1..Len(d) : d[i] = c[i]
  BY FrontFacts, Zenon
<1>. HIDE DEF d
<1>3. \A i \in 1..Len(d) : i \in 1..Len(c) /\ 1..(i - 1) \subseteq 1..Len(d)
  BY <1>1, <1>2
<1>4. ASSUME NEW i \in 1..Len(d)
      PROVE  /\ \A o \in Spends[d[i]] : o[1] = Base \/ \E j \in 1..(i - 1) : o[1] = d[j]
             /\ \A j \in 1..(i - 1) : d[j] # d[i] /\ Spends[d[j]] \cap Spends[d[i]] = {}
  <2>1. d[i] = c[i] /\ \A j \in 1..(i - 1) : d[j] = c[j]
    BY <1>2, <1>3, Zenon
  <2>2. /\ \A o \in Spends[c[i]] : o[1] = Base \/ \E j \in 1..(i - 1) : o[1] = c[j]
        /\ \A j \in 1..(i - 1) : c[j] # c[i] /\ Spends[c[j]] \cap Spends[c[i]] = {}
    BY <1>3, Zenon DEF ChainSound
  <2>. QED BY <2>1, <2>2
<1>5. ChainSound(d)
  BY <1>4, Zenon DEF ChainSound
<1>. QED BY <1>5, Zenon DEF d

-----------------------------------------------------------------------------
(* A step of the handler or of PruneExpiredTx takes transactions out of    *)
(* the pool; t stays settled if what it spends does not go, or is          *)
(* otherwise accounted for.                                                *)
LEMMA SettledRemoval ==
  ASSUME NEW c, NEW p, NEW q, NEW g, NEW g2, NEW hd, NEW hd2, NEW t, NEW h,
         Settled(c, p, g, hd, t, h), g \subseteq g2,
         \A o \in Spends[t] : o[1] \in p =>
           \/ o[1] \in q \cup g2 \/ Unspent(c, o)
           \/ \E i \in (h + 1)..Len(c) : o \in Spends[c[i]],
         \A o \in Spends[t] : hd.step = 1 /\ t # hd.tx /\ o \in Spends[hd.tx] =>
           hd2.step = 1 /\ t # hd2.tx /\ o \in Spends[hd2.tx]
  PROVE  Settled(c, q, g2, hd2, t, h)
BY Zenon DEF Settled

(* What removeTransaction reaches is closed under spending. *)
LEMMA RedeemersClosed ==
  ASSUME NEW R \in SUBSET Txs, PoolPart, NEW S, S = UNION {withRedeemers(t) : t \in R}
  PROVE  /\ R \subseteq S
         /\ \A t \in pool : \A o \in Spends[t] : o \in OutsOf(S) => t \in S
<1>1. ASSUME NEW r \in Txs PROVE r \in withRedeemers(r)
  BY Zenon DEF withRedeemers
<1>2. ASSUME NEW r \in Txs, NEW u \in withRedeemers(r), NEW t \in redeemers(u)
      PROVE  t \in withRedeemers(r)
  <2>1. t \in Txs
    BY Zenon DEF redeemers, PoolPart
  <2>. QED BY <2>1, Zenon DEF withRedeemers
<1>3. ASSUME NEW t \in pool, NEW o \in Spends[t], o \in OutsOf(S) PROVE t \in S
  <2>1. PICK u \in S : o \in Outs(u)
    BY <1>3, Zenon DEF OutsOf
  <2>2. PICK r \in R : u \in withRedeemers(r)
    BY Zenon
  <2>3. o \in DOMAIN outpoints /\ outpoints[o] = t
    BY Zenon DEF PoolPart, SpentIndexExact
  <2>4. t \in redeemers(u)
    BY <2>1, <2>3, Zenon DEF redeemers
  <2>5. t \in withRedeemers(r)
    BY <1>2, <2>2, <2>4, Zenon
  <2>. QED BY <2>5, Zenon
<1>. QED BY <1>1, <1>3, Zenon

(* So taking it out of the pool leaves the rest settled. *)
LEMMA RemoveClosed ==
  ASSUME PoolInv, Unlocked, NEW R \in SUBSET Txs,
         removeTransactions(UNION {withRedeemers(t) : t \in R}),
         NEW h, SettledUpTo(h)
  PROVE  /\ pool' \cap R = {} /\ pool' \subseteq pool
         /\ \A t \in pool' : /\ Settled(confirmed, pool, gone, handling, t, h)
                             /\ \A o \in Spends[t] : o[1] \in pool => o[1] \in pool'
<1>. DEFINE S == UNION {withRedeemers(t) : t \in R}
<1>1. PoolPart /\ pool \subseteq Txs
  BY Zenon DEF PoolInv, PoolPart
<1>2. R \subseteq S /\ \A t \in pool : \A o \in Spends[t] : o \in OutsOf(S) => t \in S
  BY <1>1, RedeemersClosed, ZenonT(60)
<1>3. pool' = pool \ S
  BY Zenon DEF removeTransactions
<1>4. Entering = pool
  BY Zenon DEF Entering
<1>. HIDE DEF S
<1>5. ASSUME NEW t \in pool', NEW o \in Spends[t], o[1] \in pool PROVE o[1] \in pool'
  <2>1. t \in Txs /\ t \in pool /\ t \notin S
    BY <1>1, <1>3, Zenon
  <2>2. o \in OutPoints
    BY <2>1, SpendsType, Zenon
  <2>. QED BY <1>2, <1>3, <1>5, <2>1, <2>2, OutsMember
<1>6. pool' \cap R = {} /\ pool' \subseteq pool
  BY <1>2, <1>3, Zenon
<1>. QED BY <1>4, <1>5, <1>6 DEF SettledUpTo

-----------------------------------------------------------------------------
(* What every step needs of the two invariants. *)
LEMMA SpendFacts ==
  ASSUME PoolInv
  PROVE  /\ confirmed \in Seq(Txs) /\ Len(confirmed) \in Nat
         /\ notes \in Seq([kind : {"connected", "disconnected"}, tx : Txs])
         /\ pool \subseteq Txs /\ Base \notin pool /\ gone \subseteq Txs
         /\ \A t \in Txs : \A o \in Spends[t] :
              o \in OutPoints /\ (o \in utxo <=> Unspent(confirmed, o))
<1>1. /\ confirmed \in Seq(Txs) /\ pool \subseteq Txs /\ gone \subseteq Txs
      /\ notes \in Seq([kind : {"connected", "disconnected"}, tx : Txs])
  BY Zenon DEF PoolInv, ChainPart, PoolPart
<1>2. Base \notin pool
  BY <1>1, TxAssumption, Zenon
<1>3. Len(confirmed) \in Nat
  BY <1>1
<1>4. \A t \in Txs : \A o \in Spends[t] : o \in OutPoints
  BY SpendsType, Zenon
<1>. QED BY <1>1, <1>2, <1>3, <1>4, UtxoMember, Zenon

(* The empty pool of an empty chain. *)
LEMMA SpendInvInit == Init => SpendInv
<1>. SUFFICES ASSUME Init PROVE SpendInv
  BY Zenon
<1>1. confirmed = <<>> /\ notes = <<>> /\ pool = {} /\ Unlocked
  BY Zenon DEF Init, Unlocked
<1>2. Entering = {}
  BY <1>1, Zenon DEF Entering
<1>3. Len(confirmed) = 0 /\ 0 \in 0..0 /\ (0 + 1)..0 = {} /\ 1..0 = {}
  BY <1>1
<1>4. [i \in {} |-> 0] \in [{} -> 1..Len(notes)]
  BY Zenon
<1>. QED BY <1>2, <1>3, <1>4, Zenon DEF SpendInv, ChainSound, Announced, SettledUpTo

(* A block is connected. *)
LEMMA SpendConnect ==
  ASSUME PoolInv, SpendInv, NEW u \in Txs, ConnectBlock(u) PROVE SpendInv'
<1>. DEFINE c == confirmed
<1>0. /\ c \in Seq(Txs) /\ Len(c) \in Nat
      /\ notes \in Seq([kind : {"connected", "disconnected"}, tx : Txs])
  BY SpendFacts, Zenon
<1>1. PICK h \in 0..Len(c) :
        /\ ChainSound(c) /\ SettledUpTo(h)
        /\ \E f \in [(h + 1)..Len(c) -> 1..Len(notes)] : Announced(c, notes, h, f)
  BY Zenon DEF SpendInv
<1>f. PICK f \in [(h + 1)..Len(c) -> 1..Len(notes)] : Announced(c, notes, h, f)
  BY <1>1, Zenon
<1>2. /\ confirmed' = Append(c, u) /\ notes' = Append(notes, Note(u))
      /\ UNCHANGED <<pool, gone, handling, processing>>
      /\ u \notin Confirmed /\ Spends[u] \subseteq utxo
  BY Zenon DEF ConnectBlock, Notify, Note
<1>3. ChainSound(confirmed')
  <2>1. \A i \in 1..Len(c) : u # c[i]
    BY <1>0, <1>2 DEF Confirmed, Range
  <2>2. \A o \in Spends[u] : Unspent(c, o)
    <3>1. \A o \in Spends[u] : o \in utxo <=> Unspent(confirmed, o)
      BY SpendFacts, Zenon
    <3>. QED BY <1>2, <3>1, Zenon
  <2>. QED BY <1>0, <1>1, <1>2, <2>1, <2>2, SoundConnect, Zenon
<1>4. \E e \in [(h + 1)..Len(confirmed') -> 1..Len(notes')] : Announced(confirmed', notes', h, e)
  BY <1>0, <1>1, <1>f, <1>2, AnnounceConnect, Zenon
<1>5. SettledUpTo(h)'
  <2>1. Entering' = Entering
    BY <1>2, Zenon DEF Entering, Unlocked
  <2>. QED BY <1>0, <1>1, <1>2, <2>1, SettledConnect, Zenon DEF SettledUpTo
<1>6. h \in 0..Len(confirmed')
  BY <1>0, <1>2
<1>. QED BY <1>3, <1>4, <1>5, <1>6, Zenon DEF SpendInv

(* The last block is disconnected. *)
LEMMA SpendDisconnect ==
  ASSUME PoolInv, SpendInv, DisconnectBlock PROVE SpendInv'
<1>. DEFINE c == confirmed
            d == SubSeq(c, 1, Len(c) - 1)
            x == [kind |-> "disconnected", tx |-> c[Len(c)]]
<1>0. /\ c \in Seq(Txs) /\ Len(c) \in Nat /\ c # <<>>
      /\ notes \in Seq([kind : {"connected", "disconnected"}, tx : Txs])
  BY SpendFacts, Zenon DEF DisconnectBlock
<1>1. PICK h \in 0..Len(c) :
        /\ ChainSound(c) /\ SettledUpTo(h)
        /\ \E f \in [(h + 1)..Len(c) -> 1..Len(notes)] : Announced(c, notes, h, f)
  BY Zenon DEF SpendInv
<1>f. PICK f \in [(h + 1)..Len(c) -> 1..Len(notes)] : Announced(c, notes, h, f)
  BY <1>1, Zenon
<1>2. /\ confirmed' = d /\ notes' = Append(notes, x) /\ gone' = gone \cup {c[Len(c)]}
      /\ UNCHANGED <<pool, handling, processing>>
  BY Zenon DEF DisconnectBlock, Notify
<1>3. x \in [kind : {"connected", "disconnected"}, tx : Txs] /\ d \in Seq(Txs)
  BY <1>0
<1>4. ChainSound(confirmed')
  BY <1>0, <1>1, <1>2, SoundUndo, Zenon
<1>k. PICK k : k = (IF h = Len(c) THEN h - 1 ELSE h)
  BY Zenon
<1>d. d = SubSeq(c, 1, Len(c) - 1)
  BY Zenon
<1>. HIDE DEF d, x
<1>5. /\ k \in 0..Len(d)
      /\ \E e \in [(k + 1)..Len(d) -> 1..Len(notes)] : Announced(d, notes, k, e)
  BY <1>0, <1>f, <1>k, <1>d, AnnounceUndo, ZenonT(40)
<1>6. \E e \in [(k + 1)..Len(d) -> 1..Len(notes')] : Announced(d, notes', k, e)
  BY <1>0, <1>f, <1>2, <1>3, <1>5, AnnounceMore, Zenon
<1>7. SettledUpTo(k)'
  <2>1. Entering' = Entering
    BY <1>2, Zenon DEF Entering, Unlocked
  <2>2. \A t \in Entering : Settled(d, pool, gone \cup {c[Len(c)]}, handling, t, k)
    BY <1>0, <1>1, <1>k, <1>d, SettledUndo, Zenon DEF SettledUpTo
  <2>. QED BY <1>2, <2>1, <2>2, Zenon DEF SettledUpTo
<1>. QED BY <1>2, <1>4, <1>5, <1>6, <1>7, Zenon DEF SpendInv

(* A notification of an invalid block, or one that is taken without any    *)
(* effect on the pool.                                                     *)
LEMMA SpendNotes ==
  ASSUME PoolInv, SpendInv,
         (\E u \in Txs : ConnectInvalidBlock(u)) \/ HandleDisconnected
  PROVE  SpendInv'
<1>. DEFINE c == confirmed
<1>0. /\ c \in Seq(Txs) /\ Len(c) \in Nat
      /\ notes \in Seq([kind : {"connected", "disconnected"}, tx : Txs])
  BY SpendFacts, Zenon
<1>1. PICK h \in 0..Len(c) :
        /\ ChainSound(c) /\ SettledUpTo(h)
        /\ \E f \in [(h + 1)..Len(c) -> 1..Len(notes)] : Announced(c, notes, h, f)
  BY Zenon DEF SpendInv
<1>f. PICK f \in [(h + 1)..Len(c) -> 1..Len(notes)] : Announced(c, notes, h, f)
  BY <1>1, Zenon
<1>2. UNCHANGED <<confirmed, pool, gone, handling, processing>>
  BY Zenon DEF ConnectInvalidBlock, HandleDisconnected
<1>3. SettledUpTo(h)'
  BY <1>1, <1>2, Zenon DEF SettledUpTo, Entering, Unlocked
<1>4. ASSUME NEW u \in Txs, ConnectInvalidBlock(u) PROVE SpendInv'
  <2>1. notes' = Append(notes, Note(u))
    BY <1>4, Zenon DEF ConnectInvalidBlock, Notify, Note
  <2>2. Note(u) \in [kind : {"connected", "disconnected"}, tx : Txs]
    BY Zenon DEF Note
  <2>3. f \in [(h + 1)..Len(c) -> 1..Len(notes')] /\ Announced(c, notes', h, f)
    BY <1>0, <1>1, <1>f, <2>1, <2>2, AnnounceMore, Zenon
  <2>. QED BY <1>1, <1>2, <1>3, <2>3, Zenon DEF SpendInv
<1>5. ASSUME HandleDisconnected PROVE SpendInv'
  <2>1. notes # <<>> /\ notes' = Tail(notes) /\ Head(notes).kind = "disconnected"
    BY <1>5, Zenon DEF HandleDisconnected
  <2>2. \A t : Head(notes) # Note(t)
    BY <2>1 DEF Note
  <2>3. PICK k \in 0..Len(c) :
          /\ k = h \/ (k = h + 1 /\ Head(notes) = Note(c[k]))
          /\ \E e \in [(k + 1)..Len(c) -> 1..Len(Tail(notes))] : Announced(c, Tail(notes), k, e)
    BY <1>0, <1>1, <1>f, <2>1, AnnounceHandled, ZenonT(40)
  <2>4. \E e \in [(h + 1)..Len(c) -> 1..Len(notes')] : Announced(c, notes', h, e)
    BY <2>1, <2>2, <2>3, Zenon
  <2>. QED BY <1>1, <1>2, <1>3, <2>4, Zenon DEF SpendInv
<1>. QED BY <1>4, <1>5

(* A step that leaves the chain and its notifications alone has only the   *)
(* transactions of the pool to settle.                                     *)
LEMMA SpendSettled ==
  ASSUME SpendInv, UNCHANGED <<confirmed, notes>>,
         ASSUME NEW h \in 0..Len(confirmed), SettledUpTo(h) PROVE SettledUpTo(h)'
  PROVE  SpendInv'
<1>1. PICK h \in 0..Len(confirmed) :
        /\ ChainSound(confirmed) /\ SettledUpTo(h)
        /\ \E f \in [(h + 1)..Len(confirmed) -> 1..Len(notes)] : Announced(confirmed, notes, h, f)
  BY Zenon DEF SpendInv
<1>2. SettledUpTo(h)'
  BY <1>1, Zenon
<1>. QED BY <1>1, <1>2, Zenon DEF SpendInv

(* Steps after which the same transactions are in the pool, or about to    *)
(* be, and none whose inputs were there is left without them.              *)
LEMMA SpendSame ==
  ASSUME PoolInv, SpendInv,
         \/ UNCHANGED vars
         \/ \E t \in Expiring : ReachExpiry(t)
         \/ HandleRemoveOrphan \/ HandleProcessOrphans
         \/ EndProcess
  PROVE  SpendInv'
<1>1. UNCHANGED <<confirmed, notes, gone>>
  BY Zenon DEF vars, ReachExpiry, HandleRemoveOrphan, HandleProcessOrphans, EndProcess,
     AcceptProcessed, OrphanProcessed
<1>2. handling' = handling \/ handling.step # 1
  BY DEF vars, ReachExpiry, HandleRemoveOrphan, HandleProcessOrphans, EndProcess,
     AcceptProcessed, OrphanProcessed
<1>3. Entering' = Entering /\ pool \subseteq pool'
  <2>1. CASE EndProcess
    <3>1. processing' = NotProcessing
      BY <2>1, Zenon DEF EndProcess, AcceptProcessed, OrphanProcessed
    <3>2. Entering' = pool'
      BY <3>1, Zenon DEF Entering, Unlocked
    <3>3. CASE AcceptProcessed
      BY <3>2, <3>3, Zenon DEF AcceptProcessed, addTransaction, Entering
    <3>4. CASE \E allow \in BOOLEAN : OrphanProcessed(allow)
      BY <3>2, <3>4, Zenon DEF OrphanProcessed, Entering
    <3>. QED BY <2>1, <3>3, <3>4, Zenon DEF EndProcess
  <2>2. CASE ~EndProcess
    <3>1. UNCHANGED <<pool, processing>>
      BY <2>2, Zenon DEF vars, ReachExpiry, HandleRemoveOrphan, HandleProcessOrphans
    <3>. QED BY <3>1, Zenon DEF Entering, Unlocked
  <2>. QED BY <2>1, <2>2
<1>4. ASSUME NEW h \in 0..Len(confirmed), SettledUpTo(h) PROVE SettledUpTo(h)'
  <2>1. ASSUME NEW t \in Entering PROVE Settled(confirmed, pool', gone, handling', t, h)
    <3>1. Settled(confirmed, pool, gone, handling, t, h)
      BY <1>4, Zenon DEF SettledUpTo
    <3>. QED BY <1>2, <1>3, <3>1, Zenon DEF Settled
  <2>. QED BY <1>1, <1>3, <2>1, Zenon DEF SettledUpTo
<1>. QED BY <1>1, <1>4, SpendSettled, Zenon

(* ProcessTransaction finds the inputs in the chain or the pool.  Were the *)
(* transaction in a block the handler has heard of, its inputs would be    *)
(* spent in the chain, and the transactions that made them out of the pool *)
(* already.                                                                *)
LEMMA SpendBegin ==
  ASSUME PoolInv, SpendInv, NEW u \in Txs, BeginProcess(u) PROVE SpendInv'
<1>. DEFINE c == confirmed
<1>0. c \in Seq(Txs) /\ Len(c) \in Nat /\ Base \notin pool
  BY SpendFacts, Zenon
<1>1. /\ Unlocked /\ processing' = [tx |-> u, missing |-> missingInputs(u) # {}]
      /\ UNCHANGED <<confirmed, notes, gone, handling, pool>>
  BY Zenon DEF BeginProcess
<1>2. Entering = pool
  BY <1>1, Zenon DEF Entering
<1>3. Entering' = pool \/ (Entering' = pool \cup {u} /\ missingInputs(u) = {})
  BY <1>1, Zenon DEF Entering
<1>4. ASSUME NEW h \in 0..Len(c), SettledUpTo(h) PROVE SettledUpTo(h)'
  <2>1. ASSUME missingInputs(u) = {} PROVE Settled(c, pool, gone, handling, u, h)
    <3>1. ASSUME NEW o \in Spends[u] PROVE Unspent(c, o) \/ o[1] \in pool
      <4>1. o \in OutPoints /\ (o \in utxo <=> Unspent(c, o))
        BY SpendFacts, Zenon
      <4>2. o \in utxo \cup OutsOf(pool)
        BY <2>1, Zenon DEF missingInputs
      <4>. QED BY <4>1, <4>2, OutsMember, Zenon
    <3>2. ASSUME NEW i \in 1..h, u = c[i] PROVE FALSE
      <4>1. PICK o \in Spends[u] : TRUE
        BY TxAssumption, Zenon
      <4>2. i \in 1..Len(c) /\ 1..(i - 1) \subseteq 1..h
        BY <1>0, <3>2
      <4>3. ~Unspent(c, o)
        BY <3>2, <4>1, <4>2, Zenon DEF Unspent
      <4>4. o[1] \in pool
        BY <3>1, <4>1, <4>3, Zenon
      <4>5. ChainSound(c)
        BY Zenon DEF SpendInv
      <4>6. o[1] = Base \/ \E j \in 1..(i - 1) : o[1] = c[j]
        BY <3>2, <4>1, <4>2, <4>5, Zenon DEF ChainSound
      <4>7. PICK j \in 1..h : o[1] = c[j]
        BY <1>0, <4>2, <4>4, <4>6, Zenon
      <4>. QED BY <1>2, <1>4, <4>4, <4>7, Zenon DEF SettledUpTo, Settled
    <3>. QED BY <3>1, <3>2, Zenon DEF Settled
  <2>. QED BY <1>1, <1>2, <1>3, <1>4, <2>1, Zenon DEF SettledUpTo
<1>. QED BY <1>1, <1>4, SpendSettled, Zenon

(* PruneExpiredTx and the search for double spends take a transaction out  *)
(* with all that depend on it.                                             *)
LEMMA SpendRemoveClosed ==
  ASSUME PoolInv, SpendInv, PruneExpiredTx \/ HandleRemoveDoubleSpends PROVE SpendInv'
<1>1. /\ Unlocked /\ UNCHANGED <<confirmed, notes, gone, processing>>
  BY Zenon DEF PruneExpiredTx, HandleRemoveDoubleSpends
<1>2. Entering = pool /\ Entering' = pool'
  BY <1>1, Zenon DEF Entering, Unlocked
<1>p. pool \subseteq Txs /\ PoolPart
  BY Zenon DEF PoolInv, PoolPart
<1>3. ASSUME NEW h \in 0..Len(confirmed), SettledUpTo(h) PROVE SettledUpTo(h)'
  <2>1. CASE PruneExpiredTx
    <3>. DEFINE R == pool \cap expired
    <3>1. handling' = handling /\ removeTransactions(UNION {withRedeemers(t) : t \in R})
      BY <2>1, Zenon DEF PruneExpiredTx
    <3>2. R \in SUBSET Txs
      BY <1>p, Zenon
    <3>. HIDE DEF R
    <3>3. \A t \in pool' : /\ Settled(confirmed, pool, gone, handling, t, h)
                           /\ \A o \in Spends[t] : o[1] \in pool => o[1] \in pool'
      BY <1>1, <1>3, <3>1, <3>2, RemoveClosed, Zenon
    <3>. QED BY <1>1, <1>2, <3>1, <3>3, Zenon DEF SettledUpTo, Settled
  <2>2. CASE HandleRemoveDoubleSpends
    <3>. DEFINE R == doubleSpenders(handling.tx)
    <3>1. removeTransactions(UNION {withRedeemers(t) : t \in R})
      BY <2>2, Zenon DEF HandleRemoveDoubleSpends
    <3>2. R \in SUBSET Txs
      BY <1>p, Zenon DEF doubleSpenders, PoolPart
    <3>3. ASSUME NEW t \in pool, t # handling.tx, NEW o \in Spends[t], o \in Spends[handling.tx]
          PROVE  t \in R
      <4>1. o \in DOMAIN outpoints /\ outpoints[o] = t
        BY <1>p, Zenon DEF PoolPart, SpentIndexExact
      <4>. QED BY <3>3, <4>1 DEF doubleSpenders
    <3>. HIDE DEF R
    <3>4. /\ pool' \cap R = {} /\ pool' \subseteq pool
          /\ \A t \in pool' : /\ Settled(confirmed, pool, gone, handling, t, h)
                              /\ \A o \in Spends[t] : o[1] \in pool => o[1] \in pool'
      BY <1>1, <1>3, <3>1, <3>2, RemoveClosed, Zenon
    <3>5. ASSUME NEW t \in pool', NEW o \in Spends[t] PROVE t = handling.tx \/ o \notin Spends[handling.tx]
      BY <3>3, <3>4, Zenon
    <3>. QED BY <1>1, <1>2, <3>4, <3>5, Zenon DEF SettledUpTo, Settled
  <2>. QED BY <2>1, <2>2
<1>. QED BY <1>1, <1>3, SpendSettled, Zenon

(* The handler takes a connected block's transaction out of the pool.  If  *)
(* the block is in the chain, what it made is there or spent by a block    *)
(* announced later; otherwise the transaction is gone.                     *)
LEMMA SpendRemoved ==
  ASSUME PoolInv, SpendInv, HandleRemoveTransaction PROVE SpendInv'
<1>. DEFINE c == confirmed
            p == Head(notes).tx
<1>0. /\ c \in Seq(Txs) /\ Len(c) \in Nat /\ Base \notin pool
      /\ notes \in Seq([kind : {"connected", "disconnected"}, tx : Txs])
  BY SpendFacts, Zenon
<1>1. PICK h \in 0..Len(c) :
        /\ ChainSound(c) /\ SettledUpTo(h)
        /\ \E f \in [(h + 1)..Len(c) -> 1..Len(notes)] : Announced(c, notes, h, f)
  BY Zenon DEF SpendInv
<1>f. PICK f \in [(h + 1)..Len(c) -> 1..Len(notes)] : Announced(c, notes, h, f)
  BY <1>1, Zenon
<1>2. /\ Unlocked /\ notes # <<>> /\ notes' = Tail(notes) /\ handling = None
      /\ pool' = pool \ {p} /\ handling' = [tx |-> p, step |-> 1]
      /\ gone' = gone \cup ({p} \ Confirmed) /\ UNCHANGED <<confirmed, processing>>
  BY Zenon DEF HandleRemoveTransaction, removeTransactions
<1>3. PICK k \in 0..Len(c) :
        /\ k = h \/ (k = h + 1 /\ Head(notes) = Note(c[k]))
        /\ \E e \in [(k + 1)..Len(c) -> 1..Len(Tail(notes))] : Announced(c, Tail(notes), k, e)
  BY <1>0, <1>1, <1>f, <1>2, AnnounceHandled, ZenonT(40)
<1>4. Entering = pool /\ Entering' = pool'
  BY <1>2, Zenon DEF Entering, Unlocked
<1>5. k = h \/ (k = h + 1 /\ p = c[k])
  BY <1>3 DEF Note
<1>6. /\ handling.step # 1 /\ handling'.step = 1 /\ handling'.tx = p
      /\ c' = c /\ pool \ {p} = pool' /\ (p \in gone' \/ p \in Confirmed) /\ gone \subseteq gone'
  BY <1>2 DEF None
<1>7. p \in Confirmed => p = Base \/ \E i \in 1..Len(c) : p = c[i]
  BY <1>0 DEF Confirmed, Range
<1>. HIDE DEF p
<1>8. ASSUME NEW t \in pool' PROVE Settled(c, pool', gone', handling', t, k)
  <2>1. t \in pool /\ t # p /\ Settled(c, pool, gone, handling, t, h)
    BY <1>1, <1>4, <1>6, Zenon DEF SettledUpTo
  <2>2. ASSUME NEW i \in 1..k PROVE t # c[i]
    <3>1. i \in 1..h \/ (i = k /\ p = c[k])
      BY <1>5
    <3>. QED BY <2>1, <3>1, Zenon DEF Settled
  <2>3. ASSUME NEW o \in Spends[t], NEW i \in (h + 1)..Len(c), o \in Spends[c[i]]
        PROVE  (\E j \in (k + 1)..Len(c) : o \in Spends[c[j]]) \/ o \in Spends[p]
    <3>1. i \in (k + 1)..Len(c) \/ (i = k /\ p = c[k])
      BY <1>0, <1>5
    <3>. QED BY <2>3, <3>1, Zenon
  <2>4. ASSUME NEW o \in Spends[t], o[1] = p, p \in pool
        PROVE  \/ p \in gone' \/ Unspent(c, o)
               \/ \E j \in (k + 1)..Len(c) : o \in Spends[c[j]]
    <3>1. \A i \in 1..h : p # c[i]
      BY <1>1, <1>4, <2>4, Zenon DEF SettledUpTo, Settled
    <3>2. ASSUME NEW j \in 1..Len(c), o \in Spends[c[j]] PROVE j \in (k + 1)..Len(c)
      <4>1. PICK m \in 1..(j - 1) : p = c[m]
        BY <1>0, <1>1, <2>4, <3>2, ZenonT(40) DEF ChainSound
      <4>2. m \notin 1..h
        BY <3>1, <4>1, Zenon
      <4>. QED BY <1>0, <1>5, <4>2
    <3>3. p \in Confirmed => \E i \in 1..Len(c) : o[1] = c[i]
      BY <1>0, <1>7, <2>4, Zenon
    <3>. QED BY <1>6, <3>2, <3>3, Zenon DEF Unspent
  <2>. QED BY <1>6, <2>1, <2>2, <2>3, <2>4, ZenonT(40) DEF Settled
<1>9. SettledUpTo(k)'
  BY <1>2, <1>4, <1>8, Zenon DEF SettledUpTo
<1>. QED BY <1>1, <1>2, <1>3, <1>9, Zenon DEF SpendInv

(* Both invariants together hold of every behaviour. *)
LEMMA SpendInvariant == Spec => [](PoolInv /\ SpendInv)
<1>1. Init => PoolInv /\ SpendInv
  BY PoolInvInit, SpendInvInit, Zenon
<1>2. PoolInv /\ SpendInv /\ [Next]_vars => SpendInv'
  <2>. SUFFICES ASSUME PoolInv, SpendInv, [Next]_vars PROVE SpendInv'
    BY Zenon
  <2>. QED BY SpendConnect, SpendDisconnect, SpendNotes, SpendSame, SpendBegin,
              SpendRemoveClosed, SpendRemoved, Zenon DEF Next, Handle
<1>. QED BY <1>1, <1>2, PoolInvariant, PTL DEF Spec

(* When every notification has been handled and nobody holds the lock, no  *)
(* pool transaction is in the chain, and what each of them spends is in    *)
(* the chain and unspent, made by another pool transaction, or by one the  *)
(* node dropped: however the chain, ProcessTransaction, PruneExpiredTx and *)
(* the four calls of the BlockConnected handler interleave before.         *)
THEOREM QuietPoolAgrees == Spec => []QuietPoolSpendable
<1>1. PoolInv /\ SpendInv => QuietPoolSpendable
  <2>. SUFFICES ASSUME PoolInv, SpendInv, Quiet, NEW t \in pool
                PROVE  t \notin Confirmed /\ Spends[t] \subseteq utxo \cup OutsOf(pool) \cup OutsOf(gone)
    BY Zenon DEF QuietPoolSpendable
  <2>. DEFINE c == confirmed
  <2>1. c \in Seq(Txs) /\ Len(c) \in Nat /\ pool \subseteq Txs /\ Base \notin pool
    BY SpendFacts, Zenon
  <2>2. PICK h \in 0..Len(c) :
          /\ SettledUpTo(h)
          /\ \E f \in [(h + 1)..Len(c) -> 1..Len(notes)] : Announced(c, notes, h, f)
    BY Zenon DEF SpendInv
  <2>3. h = Len(c) /\ (h + 1)..Len(c) = {}
    <3>1. Len(notes) = 0 /\ 1..Len(notes) = {}
      BY DEF Quiet
    <3>2. h + 1 \notin (h + 1)..Len(c)
      BY <2>2, <3>1, Zenon
    <3>. QED BY <2>1, <3>2
  <2>4. handling.step # 1 /\ Entering = pool
    BY DEF Quiet, None, Entering
  <2>5. Settled(c, pool, gone, handling, t, h)
    BY <2>2, <2>4, Zenon DEF SettledUpTo
  <2>6. t \notin Confirmed
    <3>1. \A i \in 1..Len(c) : t # c[i]
      BY <2>3, <2>5, Zenon DEF Settled
    <3>. QED BY <2>1, <3>1 DEF Confirmed, Range
  <2>7. ASSUME NEW o \in Spends[t] PROVE o \in utxo \cup OutsOf(pool) \cup OutsOf(gone)
    <3>1. Unspent(c, o) \/ o[1] \in pool \cup gone
      BY <2>3, <2>4, <2>5, Zenon DEF Settled
    <3>2. o \in OutPoints /\ (o \in utxo <=> Unspent(c, o))
      BY <2>1, SpendFacts, Zenon
    <3>. QED BY <3>1, <3>2, OutsMember, Zenon
  <2>. QED BY <2>6, <2>7, Zenon
<1>. QED BY <1>1, SpendInvariant, PTL

=============================================================================
