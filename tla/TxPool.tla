------------------------------- MODULE TxPool -------------------------------
(***************************************************************************)
(* The memory pool of one node (services/mempool), the notifications that  *)
(* keep it up to date (services/blkmgr) and as much of the chain as they   *)
(* are about: which transactions are confirmed.                            *)
(*                                                                         *)
(* Every public operation of the pool holds mp.mtx throughout, but the     *)
(* chain does not wait for it: ProcessTransaction looks at the chain's     *)
(* outputs in one step and acts on what it saw in a later one.  The        *)
(* handler of a BlockConnected notification takes the lock four times.     *)
(***************************************************************************)
EXTENDS Integers, Sequences, FiniteSets, Functions

CONSTANTS
  Txs,              \* transactions that may be offered to the node
  Base,             \* a transaction confirmed from the start
  Outputs,          \* output indexes every transaction has
  Spends,           \* transaction -> the outpoints its inputs name
  Expiring,         \* transactions with an expiry height
  MaxOrphanTxs,     \* Policy.MaxOrphanTxs
  MaxNotes,         \* bound: notifications waiting to be handled
  MaxUndone         \* bound: disconnected and invalid blocks

OutPoints == (Txs \cup {Base}) \X Outputs
Outs(t) == {t} \X Outputs
OutsOf(S) == UNION {Outs(t) : t \in S}
PrevTxs(t) == {o[1] : o \in Spends[t]}

ASSUME TxAssumption ==
  /\ Base \notin Txs
  /\ Spends \in [Txs -> (SUBSET OutPoints) \ {{}}]   \* CheckTransactionSanity
  /\ Expiring \subseteq Txs
  /\ MaxOrphanTxs \in Nat /\ MaxNotes \in Nat /\ MaxUndone \in Nat

VARIABLES
  pool,             \* TxPool.pool
  outpoints,        \* TxPool.outpoints: spent outpoint -> its spender
  orphans,          \* TxPool.orphans
  orphansByPrev,    \* TxPool.orphansByPrev: transaction -> orphans that name it
  processing,       \* what ProcessTransaction saw, while it holds the lock
  confirmed,        \* transactions of the connected blocks, oldest first
  expired,          \* transactions whose expiry height has passed
  notes,            \* BlockConnected and BlockDisconnected notifications
  handling,         \* the BlockConnected being handled and the calls done
  undone,           \* disconnected and invalid blocks so far
  gone              \* history: transactions dropped by both chain and pool

vars == <<pool, outpoints, orphans, orphansByPrev, processing, confirmed,
          expired, notes, handling, undone, gone>>

None == [tx |-> Base, step |-> 0]
NotProcessing == [tx |-> Base, missing |-> FALSE]

Confirmed == Range(confirmed) \cup {Base}
utxo == OutsOf(Confirmed) \ UNION {Spends[t] : t \in Range(confirmed)}

Init ==
  /\ pool = {}
  /\ outpoints = [o \in {} |-> Base]
  /\ orphans = {}
  /\ orphansByPrev = [t \in {} |-> {}]
  /\ processing = NotProcessing
  /\ confirmed = <<>>
  /\ expired = {}
  /\ notes = <<>>
  /\ handling = None
  /\ undone = 0
  /\ gone = {}

Unlocked == processing = NotProcessing

-----------------------------------------------------------------------------
(* The chain, which does not wait for the pool.  A block is the one        *)
(* transaction in it besides the coinbase.  A reorganisation is a run of   *)
(* DisconnectBlocks and ConnectBlocks; in the code the pool cannot look at *)
(* the chain between them, and the notifications wait for the last, which  *)
(* only leaves out some of the interleavings allowed here.                 *)

Notify(kind, t) ==
  /\ Len(notes) < MaxNotes
  /\ notes' = Append(notes, [kind |-> kind, tx |-> t])

ConnectBlock(t) ==
  /\ t \notin Confirmed
  /\ Spends[t] \subseteq utxo
  /\ t \notin expired
  /\ confirmed' = Append(confirmed, t)
  /\ Notify("connected", t)
  /\ UNCHANGED <<pool, outpoints, orphans, orphansByPrev, processing, expired,
                 handling, undone, gone>>

(* A block that fails checkConnectBlock is connected with an empty view:   *)
(* nothing is spent or created, and the notification is sent all the same. *)
ConnectInvalidBlock(t) ==
  /\ undone < MaxUndone
  /\ undone' = undone + 1
  /\ Notify("connected", t)
  /\ UNCHANGED <<pool, outpoints, orphans, orphansByPrev, processing, confirmed,
                 expired, handling, gone>>

DisconnectBlock ==
  /\ confirmed # <<>>
  /\ undone < MaxUndone
  /\ undone' = undone + 1
  /\ confirmed' = SubSeq(confirmed, 1, Len(confirmed) - 1)
  /\ Notify("disconnected", confirmed[Len(confirmed)])
  /\ gone' = gone \cup {confirmed[Len(confirmed)]}
  /\ UNCHANGED <<pool, outpoints, orphans, orphansByPrev, processing, expired,
                 handling>>

ReachExpiry(t) ==
  /\ t \notin expired
  /\ expired' = expired \cup {t}
  /\ UNCHANGED <<pool, outpoints, orphans, orphansByPrev, processing, confirmed,
                 notes, handling, undone, gone>>

-----------------------------------------------------------------------------
(* removeTransaction, addTransaction, addOrphan, removeOrphan. *)

redeemers(t) == {outpoints[o] : o \in Outs(t) \cap DOMAIN outpoints}

(* t and what removeTransaction reaches from it through the outpoints.     *)
(* Mutant: transactions that depend on a removed one stay. *)
withoutRedeemers(t) == {t}

withRedeemers(t) ==
  {u \in Txs : \A S \in SUBSET Txs :
     (t \in S /\ \A v \in S : redeemers(v) \subseteq S) => u \in S}

(* Mutant: what a removed transaction spent stays marked. *)
removeKeepsOutpoints(S) ==
  /\ pool' = pool \ S
  /\ outpoints' = outpoints

removeTransactions(S) ==
  /\ pool' = pool \ S
  /\ outpoints' = Restrict(outpoints,
                    DOMAIN outpoints \ UNION {Spends[t] : t \in S \cap pool})

(* Mutant: outpoints name the transaction spent from, not the spender. *)
addIndexesPrevious(t) ==
  /\ pool' = pool \cup {t}
  /\ outpoints' = [o \in DOMAIN outpoints \cup Spends[t] |->
                     IF o \in Spends[t] THEN o[1] ELSE outpoints[o]]

addTransaction(t) ==
  /\ pool' = pool \cup {t}
  /\ outpoints' = [o \in DOMAIN outpoints \cup Spends[t] |->
                     IF o \in Spends[t] THEN t ELSE outpoints[o]]

addOrphan(t) ==
  IF MaxOrphanTxs = 0
  THEN UNCHANGED <<orphans, orphansByPrev>>
  ELSE /\ orphans' = orphans \cup {t}
       /\ orphansByPrev' =
            [p \in DOMAIN orphansByPrev \cup PrevTxs(t) |->
               (IF p \in DOMAIN orphansByPrev THEN orphansByPrev[p] ELSE {})
               \cup (IF p \in PrevTxs(t) THEN {t} ELSE {})]

(* Mutant: empty lists stay in orphansByPrev. *)
removeKeepsEmptyLists(S) ==
  /\ orphans' = orphans \ S
  /\ orphansByPrev' = [p \in DOMAIN orphansByPrev |-> orphansByPrev[p] \ S]

removeOrphans(S) ==
  LET out(p) == {t \in S \cap orphans : p \in PrevTxs(t)}
      left    == {p \in DOMAIN orphansByPrev :
                    out(p) = {} \/ orphansByPrev[p] \ out(p) # {}}
  IN  /\ orphans' = orphans \ S
      /\ orphansByPrev' = [p \in left |-> orphansByPrev[p] \ out(p)]

haveTransaction(t) == t \in pool \cup orphans

(* processOrphans hands each orphan that names t to                        *)
(* maybeAcceptTransaction while the orphan is still in the orphan pool, so *)
(* that the haveTransaction check there fails and the orphan is removed.   *)
processOrphans(t) ==
  removeOrphans(IF t \in DOMAIN orphansByPrev
                THEN {u \in orphansByPrev[t] : haveTransaction(u)}
                ELSE {})

-----------------------------------------------------------------------------
(* ProcessTransaction up to and including the look at the chain.  A        *)
(* transaction that fails a check on the way is refused: no step.          *)
checkPoolDoubleSpend(t) == Spends[t] \cap DOMAIN outpoints = {}

missingInputs(t) == Spends[t] \ (utxo \cup OutsOf(pool))

BeginProcess(t) ==
  /\ Unlocked
  /\ ~haveTransaction(t)
  /\ t \notin expired
  /\ checkPoolDoubleSpend(t)
  /\ Outs(t) \cap utxo = {}
  /\ processing' = [tx |-> t, missing |-> missingInputs(t) # {}]
  /\ UNCHANGED <<pool, outpoints, orphans, orphansByPrev, confirmed, expired,
                 notes, handling, undone, gone>>

AcceptProcessed ==
  /\ ~Unlocked
  /\ ~processing.missing
  /\ addTransaction(processing.tx)
  /\ processOrphans(processing.tx)
  /\ processing' = NotProcessing
  /\ UNCHANGED <<confirmed, expired, notes, handling, undone, gone>>

OrphanProcessed(allowOrphan) ==
  /\ ~Unlocked
  /\ processing.missing
  /\ IF allowOrphan THEN addOrphan(processing.tx)
     ELSE UNCHANGED <<orphans, orphansByPrev>>
  /\ processing' = NotProcessing
  /\ UNCHANGED <<pool, outpoints, confirmed, expired, notes, handling, undone, gone>>

PruneExpiredTx ==
  /\ Unlocked
  /\ pool \cap expired # {}
  /\ removeTransactions(UNION {withRedeemers(t) : t \in pool \cap expired})
  /\ UNCHANGED <<orphans, orphansByPrev, processing, confirmed, expired, notes,
                 handling, undone, gone>>

-----------------------------------------------------------------------------
(* handleNotifyMsg. *)

HandleDisconnected ==
  /\ handling = None
  /\ notes # <<>> /\ Head(notes).kind = "disconnected"
  /\ notes' = Tail(notes)
  /\ UNCHANGED <<pool, outpoints, orphans, orphansByPrev, processing, confirmed,
                 expired, handling, undone, gone>>

HandleRemoveTransaction ==
  /\ Unlocked
  /\ handling = None
  /\ notes # <<>> /\ Head(notes).kind = "connected"
  /\ removeTransactions({Head(notes).tx})
  /\ notes' = Tail(notes)
  /\ handling' = [tx |-> Head(notes).tx, step |-> 1]
  /\ gone' = gone \cup ({Head(notes).tx} \ Confirmed)
  /\ UNCHANGED <<orphans, orphansByPrev, processing, confirmed, expired, undone>>

(* Mutant: rivals of a confirmed transaction are not looked for. *)
noDoubleSpenders(t) == {}

doubleSpenders(t) ==
  {outpoints[o] : o \in Spends[t] \cap DOMAIN outpoints} \ {t}

HandleRemoveDoubleSpends ==
  /\ Unlocked
  /\ handling.step = 1
  /\ removeTransactions(UNION {withRedeemers(t) : t \in doubleSpenders(handling.tx)})
  /\ handling' = [handling EXCEPT !.step = 2]
  /\ UNCHANGED <<orphans, orphansByPrev, processing, confirmed, expired, notes,
                 undone, gone>>

HandleRemoveOrphan ==
  /\ Unlocked
  /\ handling.step = 2
  /\ removeOrphans({handling.tx})
  /\ handling' = [handling EXCEPT !.step = 3]
  /\ UNCHANGED <<pool, outpoints, processing, confirmed, expired, notes, undone, gone>>

HandleProcessOrphans ==
  /\ Unlocked
  /\ handling.step = 3
  /\ processOrphans(handling.tx)
  /\ handling' = None
  /\ UNCHANGED <<pool, outpoints, processing, confirmed, expired, notes, undone, gone>>

Handle ==
  \/ HandleDisconnected \/ HandleRemoveTransaction \/ HandleRemoveDoubleSpends
  \/ HandleRemoveOrphan \/ HandleProcessOrphans

EndProcess == AcceptProcessed \/ \E allow \in BOOLEAN : OrphanProcessed(allow)

Next ==
  \/ \E t \in Txs : ConnectBlock(t) \/ ConnectInvalidBlock(t) \/ BeginProcess(t)
  \/ \E t \in Expiring : ReachExpiry(t)
  \/ DisconnectBlock
  \/ EndProcess
  \/ PruneExpiredTx
  \/ Handle

Spec == Init /\ [][Next]_vars

(* The handler's goroutine runs and a waiting Lock gets its turn (Go's     *)
(* mutexes hand over to a waiter that has starved), hence strong fairness; *)
(* a call that holds the lock runs to its end.                             *)
FairSpec == Spec /\ SF_vars(Handle) /\ WF_vars(EndProcess)

-----------------------------------------------------------------------------
(* Everything has its type: the maps of TxPool are keyed by transactions   *)
(* and outpoints that exist, and the notifications name transactions.      *)
TypeOK ==
  /\ pool \subseteq Txs
  /\ DOMAIN outpoints \subseteq OutPoints
  /\ \A o \in DOMAIN outpoints : outpoints[o] \in Txs
  /\ orphans \subseteq Txs
  /\ DOMAIN orphansByPrev \subseteq Txs \cup {Base}
  /\ \A p \in DOMAIN orphansByPrev : orphansByPrev[p] \subseteq Txs
  /\ processing \in [tx : Txs \cup {Base}, missing : BOOLEAN]
  /\ confirmed \in Seq(Txs)
  /\ expired \subseteq Txs
  /\ notes \in Seq([kind : {"connected", "disconnected"}, tx : Txs])
  /\ handling \in [tx : Txs \cup {Base}, step : 0..3]
  /\ undone \in 0..MaxUndone
  /\ gone \subseteq Txs

(* outpoints names, for exactly the outpoints spent by pool transactions,  *)
(* the one pool transaction that spends them: no two transactions of the   *)
(* pool spend the same output, and every removal cleaned up after itself.  *)
SpentIndexExact ==
  /\ \A o \in DOMAIN outpoints :
       outpoints[o] \in pool /\ o \in Spends[outpoints[o]]
  /\ \A t \in pool : \A o \in Spends[t] :
       o \in DOMAIN outpoints /\ outpoints[o] = t

(* orphansByPrev lists, under each transaction an orphan names, exactly    *)
(* the orphans that name it, with no empty entry left behind, and nothing  *)
(* is at once in the pool and an orphan.                                   *)
OrphanIndexExact ==
  /\ \A p \in DOMAIN orphansByPrev :
       /\ orphansByPrev[p] = {t \in orphans : p \in PrevTxs(t)}
       /\ orphansByPrev[p] # {}
  /\ \A t \in orphans : PrevTxs(t) \subseteq DOMAIN orphansByPrev
  /\ pool \cap orphans = {}

Quiet == notes = <<>> /\ handling = None /\ Unlocked

(* When every notification has been handled, a pool transaction is not     *)
(* itself confirmed, and each of its inputs can be spent: in the chain and *)
(* unspent there, or made by another pool transaction.  The one exception  *)
(* is an input made by a transaction the node dropped: BlockDisconnected   *)
(* puts nothing back, and the BlockConnected of an invalid block removes a *)
(* transaction without those that depend on it.                            *)
QuietPoolSpendable ==
  Quiet => \A t \in pool :
             /\ t \notin Confirmed
             /\ Spends[t] \subseteq utxo \cup OutsOf(pool) \cup OutsOf(gone)

(* A pool transaction that the chain has confirmed, or that spends what    *)
(* the chain has spent, leaves the pool, whatever runs in between.         *)
StaleTxLeaves ==
  \A t \in Txs :
    LET stale == t \in pool /\ (t \in Confirmed \/
                   \E u \in Range(confirmed) : Spends[t] \cap Spends[u] # {})
    IN  stale ~> ~stale

-----------------------------------------------------------------------------
(* "Transactions which depend on a confirmed transaction are NOT removed   *)
(* recursively because they are still valid" (handleNotifyMsg): removing a *)
(* connected block's transaction from the pool takes nothing away that a   *)
(* transaction left in the pool spends.                                    *)
DependentsStillValid ==
  [][ HandleRemoveTransaction =>
        \A t \in pool' : Spends[t] \subseteq utxo \cup OutsOf(pool)
                        => Spends[t] \subseteq utxo \cup OutsOf(pool') ]_vars

(* "Accept any orphan transactions that depend on this transaction (they   *)
(* are no longer orphans if all inputs are now available)"                 *)
(* (ProcessTransaction): when a transaction enters the pool, an orphan     *)
(* that names it, has all its inputs now and spends nothing the pool       *)
(* spends enters the pool with it.                                         *)
OrphansFollowParent ==
  [][ AcceptProcessed =>
        \A t \in orphans :
          (/\ processing.tx \in PrevTxs(t)
           /\ Spends[t] \subseteq utxo \cup OutsOf(pool \cup {processing.tx})
           /\ checkPoolDoubleSpend(t))
          => t \in pool' ]_vars

=============================================================================
