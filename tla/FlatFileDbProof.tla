-------------------------- MODULE FlatFileDbProof ---------------------------
(***************************************************************************)
(* FlatFileDb implements DurableStore, for every set of blocks, every size *)
(* of the records and files, and any number of faults, crashes and         *)
(* readers.  The refinement mapping looks only at which keys a map has, so *)
(* the proof is about the domains of the maps.                             *)
(*                                                                         *)
(* Why the block database never loses a committed record: the invariant    *)
(* and what the operations on the flat files and the steps of the metadata *)
(* do to it.                                                               *)
(*                                                                         *)
(* None of CommittedReadable, CursorNeverAhead and CursorPastRecords is    *)
(* inductive.  The argument is about positions in the flat files: every    *)
(* key of the metadata reaches to one, the end of a block's record or the  *)
(* write cursor.  What is in leveldb reaches no further than its cursor,   *)
(* and what a transaction sees no further than the place a rollback goes   *)
(* back to.  The files hold every position the metadata reaches to, and    *)
(* have it synced as far as leveldb is concerned, except in a file that    *)
(* was closed without a sync.  Every operation on the files leaves alone   *)
(* what is before the position it works at.                                *)
(***************************************************************************)
EXTENDS FlatFileDb, TLAPS

(* applied leaves the keys that are there or are put, and not removed. *)
LEMMA AppliedDomain ==
  ASSUME NEW m, NEW c
  PROVE  DOMAIN applied(m, c) = (DOMAIN m \cup DOMAIN c.keys) \ c.removed
BY Zenon DEF applied, Without, Override

(* What putKey and commitTx make of the changes they are given. *)
LEMMA PutKeyDomain ==
  ASSUME NEW p, NEW k, NEW v
  PROVE  /\ DOMAIN putKey(p, k, v).keys = DOMAIN p.keys \cup {k}
         /\ putKey(p, k, v).removed = p.removed \ {k}
BY Zenon DEF putKey, Override

LEMMA CommitTxDomain ==
  ASSUME NEW c, NEW p
  PROVE  /\ DOMAIN commitTx(c, p).keys = (DOMAIN c.keys \cup DOMAIN p.keys) \ p.removed
         /\ commitTx(c, p).removed = (c.removed \ DOMAIN p.keys) \cup p.removed
BY Zenon DEF commitTx, Without, Override

LEMMA NoChangeDomain == DOMAIN NoChange.keys = {} /\ NoChange.removed = {}
BY Zenon DEF NoChange, NoKeys

(* The first block of a list is one of its blocks, and the rest the others. *)
LEMMA RangeHeadTail ==
  ASSUME NEW S, NEW s \in Seq(S), s # <<>>
  PROVE  /\ Head(s) \in S /\ Tail(s) \in Seq(S)
         /\ Range(s) = {Head(s)} \cup Range(Tail(s))
<1>1. Head(s) \in S /\ Tail(s) \in Seq(S) /\ Len(s) \in Nat /\ Len(s) > 0
  OBVIOUS
<1>2. Len(Tail(s)) = Len(s) - 1 /\ \A i \in 1..(Len(s) - 1) : Tail(s)[i] = s[i + 1]
  OBVIOUS
<1>3. ASSUME NEW x \in Range(s) PROVE x \in {Head(s)} \cup Range(Tail(s))
  <2>1. PICK i \in 1..Len(s) : s[i] = x
    BY <1>1, <1>3 DEF Range
  <2>2. CASE i = 1
    BY <2>1, <2>2, <1>1
  <2>3. CASE i # 1
    <3>1. i - 1 \in 1..(Len(s) - 1) /\ (i - 1) + 1 = i
      BY <2>1, <2>3, <1>1
    <3>2. i - 1 \in DOMAIN Tail(s) /\ Tail(s)[i - 1] = x
      BY <3>1, <2>1, <1>1, <1>2
    <3> QED BY <3>2, Zenon DEF Range
  <2> QED BY <2>2, <2>3, Zenon
<1>4. ASSUME NEW x \in {Head(s)} \cup Range(Tail(s)) PROVE x \in Range(s)
  <2>1. CASE x = Head(s)
    <3>1. 1 \in DOMAIN s /\ s[1] = x
      BY <2>1, <1>1
    <3> QED BY <3>1, Zenon DEF Range
  <2>2. CASE x \in Range(Tail(s))
    <3>1. PICK i \in 1..(Len(s) - 1) : Tail(s)[i] = x
      BY <2>2, <1>1, <1>2 DEF Range
    <3>2. i + 1 \in DOMAIN s /\ s[i + 1] = x
      BY <3>1, <1>1, <1>2
    <3> QED BY <3>2, Zenon DEF Range
  <2> QED BY <1>4, <2>1, <2>2, Zenon
<1> QED BY <1>1, <1>3, <1>4, Zenon

LEMMA RangeEmpty == Range(<<>>) = {}
BY DEF Range

-----------------------------------------------------------------------------
(* The inductive invariant: only the callers' key is ever removed, the     *)
(* blocks are written before the flush begins, the cache is empty whenever *)
(* the database is not up or its content is in leveldb already.            *)
Emptied == DOMAIN cache.keys = {} /\ cache.removed = {}

DbInv ==
  /\ todo \in Seq(Blocks)
  /\ cache.removed \subseteq {App} /\ pend.removed \subseteq {App}
  /\ pc \in {"flush", "clear", "direct"} => todo = <<>>
  /\ pc = "clear" => DOMAIN ldb = DOMAIN View
  /\ pc = "direct" => Emptied
  /\ mode # "up" => Emptied /\ pc \in {"idle", "rollback", "truncate"}

LEMMA InitDb == Init => DbInv
<1> SUFFICES ASSUME Init PROVE DbInv
  BY Zenon
<1>1. Emptied /\ pend.removed = {}
  BY NoChangeDomain, Zenon DEF Init, Emptied
<1> QED BY <1>1 DEF Init, DbInv, Emptied

(* Closing the transaction, after a commit or an error. *)
LEMMA CloseTxFacts ==
  ASSUME CloseTx
  PROVE  pc' = "idle" /\ todo' = <<>> /\ todo' \in Seq(Blocks) /\ pend'.removed = {}
BY NoChangeDomain DEF CloseTx

(* Writing a piece changes the pending keys only when the record is whole. *)
LEMMA WriteDataFacts ==
  ASSUME WriteData
  PROVE  \/ UNCHANGED <<pend, todo>>
         \/ todo' = Tail(todo) /\ \E v : pend' = putKey(pend, Head(todo), v)
BY Zenon DEF WriteData

LEMMA NextDb == DbInv /\ [Next]_vars => DbInv'
<1> SUFFICES ASSUME DbInv, [Next]_vars PROVE DbInv'
  BY Zenon
<1> USE DEF DbInv
<1>1. CASE Begin
  <2>1. PICK s \in newBlocks, p \in appChanges : todo' = s /\ pend' = p
    BY <1>1, Zenon DEF Begin
  <2>2. s \in Seq(Blocks)
    <3>1. PICK n \in 0..2 : s \in [1..n -> Blocks \ DOMAIN View]
      BY <2>1, Zenon DEF newBlocks
    <3> QED BY <3>1
  <2>3. p.removed \subseteq {App}
    <3>1. deleteKey(NoChange, App).removed = NoChange.removed \cup {App}
      BY Zenon DEF deleteKey
    <3>2. putKey(NoChange, App, TRUE).removed = NoChange.removed \ {App}
      BY PutKeyDomain, Zenon
    <3> QED BY <3>1, <3>2, NoChangeDomain, Zenon DEF appChanges
  <2> QED BY <1>1, <2>1, <2>2, <2>3, Zenon DEF Begin
<1>2. CASE WriteData
  <2>1. todo # <<>> /\ Tail(todo) \in Seq(Blocks)
    BY <1>2, RangeHeadTail, Zenon DEF WriteData
  <2>2. todo' \in Seq(Blocks) /\ pend'.removed \subseteq {App}
    <3>1. CASE UNCHANGED <<pend, todo>>
      BY <3>1, Zenon
    <3>2. CASE todo' = Tail(todo) /\ \E v : pend' = putKey(pend, Head(todo), v)
      <4>1. PICK v : pend' = putKey(pend, Head(todo), v)
        BY <3>2, Zenon
      <4>2. pend'.removed = pend.removed \ {Head(todo)}
        BY <4>1, PutKeyDomain, Zenon
      <4> QED BY <3>2, <2>1, <4>2, Zenon
    <3> QED BY <1>2, <3>1, <3>2, WriteDataFacts, Zenon
  <2> QED BY <1>2, <2>2, Zenon DEF WriteData, Emptied
<1>3. CASE WriteFails
  BY <1>3, Zenon DEF WriteFails, txVars, Emptied
<1>4. CASE RollbackNothing \/ RollbackDeleteFails \/ RollbackTruncate \/ RollbackTruncateFails
  <2>1. CloseTx /\ mode' = "up" /\ cache' = cache
    BY <1>4, Zenon DEF RollbackNothing, RollbackDeleteFails, RollbackTruncate,
                RollbackTruncateFails, AfterRollback
  <2> QED BY <2>1, CloseTxFacts, Zenon
<1>5. CASE RollbackDelete
  BY <1>5, Zenon DEF RollbackDelete, txVars, Emptied
<1>6. CASE CommitToCache
  <2>1. cache'.removed \subseteq {App}
    BY <1>6, CommitTxDomain, PutKeyDomain DEF CommitToCache, withCursor
  <2>2. CloseTx /\ mode' = mode /\ mode = "up"
    BY <1>6, Zenon DEF CommitToCache
  <2> QED BY <2>1, <2>2, CloseTxFacts, Zenon
<1>7. CASE FlushSync
  <2>1. pend'.removed \subseteq {App}
    BY <1>7, PutKeyDomain DEF FlushSync, withCursor
  <2> QED BY <1>7, <2>1, Zenon DEF FlushSync
<1>8. CASE FlushCache
  <2>1. DOMAIN ldb' = DOMAIN View'
    BY <1>8, AppliedDomain, Zenon DEF FlushCache, View
  <2> QED BY <1>8, <2>1, Zenon DEF FlushCache, txVars
<1>9. CASE ClearCache
  <2>1. Emptied'
    BY <1>9, NoChangeDomain, Zenon DEF ClearCache, Emptied
  <2> QED BY <1>9, <2>1, Zenon DEF ClearCache, txVars, Emptied
<1>10. CASE CommitDirect
  <2>1. CloseTx /\ mode' = mode /\ mode = "up" /\ cache' = cache
    BY <1>10, Zenon DEF CommitDirect
  <2> QED BY <2>1, CloseTxFacts, Zenon
<1>11. CASE FlushFails
  <2>1. CloseTx /\ mode' = mode /\ mode = "up" /\ cache' = cache
    BY <1>11, Zenon DEF FlushFails
  <2> QED BY <2>1, CloseTxFacts, Zenon
<1>12. CASE \E r \in Readers : SnapLdb(r) \/ SnapCache(r) \/ EndView(r)
  BY <1>12, Zenon DEF SnapLdb, SnapCache, EndView, txVars, Emptied, View
<1>13. CASE Close \/ Crash \/ PowerFails
  <2>1. CloseTx /\ mode' = "down" /\ cache' = NoChange
    BY <1>13, Zenon DEF Close, Crash, PowerFails, Stop
  <2> QED BY <2>1, CloseTxFacts, NoChangeDomain, Zenon DEF Emptied
<1>14. CASE Open
  <2>1. pc' \in {"idle", "rollback"} /\ mode = "down"
    BY <1>14, Zenon DEF Open, reconcileDB
  <2> QED BY <1>14, <2>1, Zenon DEF Open, Emptied
<1>15. CASE UNCHANGED vars
  BY <1>15, Zenon DEF vars, Emptied, View
<1> QED
  BY <1>1, <1>2, <1>3, <1>4, <1>5, <1>6, <1>7, <1>8, <1>9, <1>10, <1>11, <1>12,
     <1>13, <1>14, <1>15 DEF Next

-----------------------------------------------------------------------------
(* The keys transactions see. *)
LEMMA ViewDomain == DOMAIN View = (DOMAIN ldb \cup DOMAIN cache.keys) \ cache.removed
BY AppliedDomain, Zenon DEF View

LEMMA ViewDomainNext == DOMAIN View' = (DOMAIN ldb' \cup DOMAIN cache'.keys) \ cache'.removed
BY AppliedDomain, Zenon DEF View

(* Two maps look the same to the callers if they have the same keys. *)
LEMMA SameState ==
  ASSUME NEW m, NEW n,
         DOMAIN m \cap Blocks = DOMAIN n \cap Blocks,
         App \in DOMAIN m <=> App \in DOMAIN n
  PROVE  StateOf(m) = StateOf(n)
BY SMTT(30) DEF StateOf

LEMMA AskedIsState == DbInv => Asked \in [blocks : SUBSET Blocks, app : BOOLEAN]
<1> SUFFICES ASSUME DbInv PROVE Asked \in [blocks : SUBSET Blocks, app : BOOLEAN]
  BY Zenon
<1>1. Range(todo) \subseteq Blocks
  BY DEF DbInv, Range
<1> QED BY <1>1 DEF Asked, stored

(* The end of a transaction that changes no metadata. *)
LEMMA AbortStep ==
  ASSUME mode = "up", pc # "idle", CloseTx, mode' = "up",
         UNCHANGED <<ldb, cache>>
  PROVE  Durable!Abort
<1>1. UNCHANGED <<StateOf(View), StateOf(ldb)>>
  BY Zenon DEF StateOf, View, stored
<1>2. (IF mode = "up" /\ pc # "idle" THEN {Asked} ELSE {}) # {}
  BY Zenon
<1>3. (IF mode = "up" /\ pc # "idle" THEN {Asked} ELSE {})' = {}
  BY CloseTxFacts, Zenon
<1> QED BY <1>1, <1>2, <1>3, Zenon DEF Durable!Abort

(* A step that leaves the metadata and the transaction as they are. *)
LEMMA StutterStep ==
  ASSUME UNCHANGED <<ldb, cache>>,
         \/ /\ mode = "up" /\ pc # "idle" /\ mode' = "up" /\ pc' # "idle"
            /\ Asked' = Asked
         \/ ~(mode = "up" /\ pc # "idle") /\ ~(mode' = "up" /\ pc' # "idle")
  PROVE  UNCHANGED Durable!vars
<1>1. UNCHANGED <<StateOf(View), StateOf(ldb)>>
  BY Zenon DEF StateOf, View
<1>2. UNCHANGED (IF mode = "up" /\ pc # "idle" THEN {Asked} ELSE {})
  BY Zenon
<1> QED BY <1>1, <1>2, Zenon DEF Durable!vars

(* The same transaction is asked for when todo, the pending changes and    *)
(* the metadata stay.                                                      *)
LEMMA AskedSame ==
  ASSUME UNCHANGED <<ldb, cache, todo, pend>>
  PROVE  Asked' = Asked
BY Zenon DEF Asked, View, stored

(* With an empty cache transactions see what leveldb has. *)
LEMMA EmptyCacheView ==
  ASSUME NEW m, NEW c, DOMAIN c.keys = {}, c.removed = {}
  PROVE  StateOf(applied(m, c)) = StateOf(m)
<1>1. DOMAIN applied(m, c) = DOMAIN m
  BY AppliedDomain, ZenonT(40)
<1> QED BY <1>1, SameState, Zenon

LEMMA StepImplements == DbInv /\ DbInv' /\ [Next]_vars => [Durable!Next]_(Durable!vars)
<1> SUFFICES ASSUME DbInv, DbInv', [Next]_vars PROVE [Durable!Next]_(Durable!vars)
  BY Zenon
<1> USE DEF Durable!Next
<1>1. CASE Begin
  <2>1. mode = "up" /\ pc = "idle" /\ mode' = "up" /\ pc' = "write" /\ UNCHANGED <<ldb, cache>>
    BY <1>1, Zenon DEF Begin
  <2>2. UNCHANGED <<StateOf(View), StateOf(ldb)>>
    BY <2>1, Zenon DEF StateOf, View
  <2>3. Asked' \in [blocks : SUBSET Blocks, app : BOOLEAN]
    <3>1. (DbInv => Asked \in [blocks : SUBSET Blocks, app : BOOLEAN])'
      BY AskedIsState, PTL
    <3> QED BY <3>1, Zenon
  <2>4. /\ (IF mode = "up" /\ pc # "idle" THEN {Asked} ELSE {}) = {}
        /\ (IF mode = "up" /\ pc # "idle" THEN {Asked} ELSE {})' = {Asked'}
    BY <2>1, Zenon
  <2> QED BY <2>2, <2>3, <2>4, Zenon DEF Durable!Begin
<1>2. CASE WriteData
  <2>1. pc = "write" /\ pc' = pc /\ mode' = mode /\ UNCHANGED <<ldb, cache>> /\ todo # <<>>
    BY <1>2, Zenon DEF WriteData
  <2>2. Asked' = Asked
    <3>1. CASE UNCHANGED <<pend, todo>>
      BY <2>1, <3>1, AskedSame, Zenon
    <3>2. CASE todo' = Tail(todo) /\ \E v : pend' = putKey(pend, Head(todo), v)
      <4>1. PICK v : pend' = putKey(pend, Head(todo), v)
        BY <3>2, Zenon
      <4>2. DOMAIN pend'.keys = DOMAIN pend.keys \cup {Head(todo)}
        BY <4>1, PutKeyDomain, Zenon
      <4>3. pend'.removed = pend.removed \ {Head(todo)}
        BY <4>1, PutKeyDomain, Zenon
      <4>4. Range(todo) = {Head(todo)} \cup Range(todo') /\ Head(todo) \in Blocks
        BY <2>1, <3>2, RangeHeadTail, Zenon DEF DbInv
      <4>5. View' = View
        BY <2>1, Zenon DEF View
      <4>6. Asked'.blocks = Asked.blocks
        BY <4>2, <4>4, <4>5, Zenon DEF Asked, stored
      <4>7. Asked'.app = Asked.app
        BY <4>2, <4>3, <4>4, <4>5, DbAssumption DEF Asked
      <4> QED BY <4>6, <4>7, Zenon DEF Asked
    <3> QED BY <1>2, <3>1, <3>2, WriteDataFacts, Zenon
  <2>3. mode = "up"
    BY <2>1, Zenon DEF DbInv
  <2> QED BY <2>1, <2>2, <2>3, StutterStep, Zenon
<1>3. CASE WriteFails
  <2>1. pc = "write" /\ pc' = "rollback" /\ mode' = mode /\ UNCHANGED <<ldb, cache, todo, pend>>
    BY <1>3, Zenon DEF WriteFails, txVars
  <2>2. mode = "up"
    BY <2>1, Zenon DEF DbInv
  <2> QED BY <2>1, <2>2, AskedSame, StutterStep, Zenon
<1>4. CASE RollbackNothing \/ RollbackDeleteFails \/ RollbackTruncate \/ RollbackTruncateFails
  <2>1. /\ pc \in {"rollback", "truncate"}
        /\ CloseTx /\ mode' = "up" /\ UNCHANGED <<ldb, cache>>
    BY <1>4, Zenon DEF RollbackNothing, RollbackDeleteFails, RollbackTruncate,
                RollbackTruncateFails, AfterRollback, Truncating
  <2>2. CASE mode = "up"
    BY <2>1, <2>2, AbortStep, Zenon
  <2>3. CASE mode # "up"
    BY <2>1, <2>3, CloseTxFacts, StutterStep, Zenon
  <2> QED BY <2>2, <2>3, Zenon
<1>5. CASE RollbackDelete
  <2>1. /\ pc = "rollback" /\ pc' \in {"rollback", "truncate"}
        /\ mode' = mode /\ UNCHANGED <<ldb, cache, todo, pend>>
    BY <1>5, Zenon DEF RollbackDelete, txVars
  <2> QED BY <2>1, AskedSame, StutterStep, Zenon
<1>6. CASE CommitToCache
  <2>1. /\ pc = "write" /\ todo = <<>> /\ mode' = mode /\ ldb' = ldb /\ CloseTx
        /\ cache' = commitTx(cache, withCursor)
    BY <1>6, Zenon DEF CommitToCache
  <2>2. mode = "up"
    BY <2>1, Zenon DEF DbInv
  <2>3. DOMAIN withCursor.keys = DOMAIN pend.keys \cup {Cursor}
    BY PutKeyDomain, Zenon DEF withCursor
  <2>4. withCursor.removed = pend.removed \ {Cursor}
    BY PutKeyDomain, Zenon DEF withCursor
  <2>5. /\ DOMAIN cache'.keys = (DOMAIN cache.keys \cup DOMAIN withCursor.keys) \ withCursor.removed
        /\ cache'.removed = (cache.removed \ DOMAIN withCursor.keys) \cup withCursor.removed
    BY <2>1, CommitTxDomain, Zenon
  <2>6. ASSUME NEW x
        PROVE  x \in DOMAIN View' <=>
                 /\ x \in DOMAIN ldb \/ x \in DOMAIN cache.keys \/ x \in DOMAIN withCursor.keys
                 /\ x \notin withCursor.removed
                 /\ x \in cache.removed => x \in DOMAIN withCursor.keys
    <3>1. DOMAIN View' = (DOMAIN ldb \cup DOMAIN cache'.keys) \ cache'.removed
      BY <2>1, ViewDomainNext, Zenon
    <3> QED BY <3>1, <2>5, Zenon
  <2>7. /\ cache.removed \subseteq {App} /\ pend.removed \subseteq {App}
        /\ App \notin Blocks /\ Cursor \notin Blocks /\ App # Cursor
    BY DbAssumption, Zenon DEF DbInv
  <2>8. StateOf(View)'.blocks = Asked.blocks
    <3>1. ASSUME NEW x \in Blocks
          PROVE  x \in DOMAIN View' <=> x \in DOMAIN View \/ x \in DOMAIN pend.keys
      BY <2>3, <2>4, <2>6, <2>7, ViewDomain, Zenon
    <3>2. Asked.blocks = (DOMAIN View \cap Blocks) \cup (DOMAIN pend.keys \cap Blocks)
      BY <2>1, RangeEmpty, Zenon DEF Asked, stored
    <3>3. StateOf(View)'.blocks = DOMAIN View' \cap Blocks
      BY Zenon DEF StateOf
    <3> QED BY <3>1, <3>2, <3>3, Zenon
  <2>9. StateOf(View)'.app = Asked.app
    <3>1. App \in DOMAIN View' <=> App \in (DOMAIN View \cup DOMAIN pend.keys) \ pend.removed
      BY <2>3, <2>4, <2>6, <2>7, ViewDomain, SMTT(30)
    <3> QED BY <3>1 DEF StateOf, Asked
  <2>10. StateOf(View)' = Asked
    BY <2>8, <2>9, Zenon DEF StateOf, Asked
  <2>11. StateOf(ldb)' = StateOf(ldb)
    BY <2>1, Zenon DEF StateOf
  <2>12. /\ (IF mode = "up" /\ pc # "idle" THEN {Asked} ELSE {}) = {Asked}
         /\ (IF mode = "up" /\ pc # "idle" THEN {Asked} ELSE {})' = {}
    BY <2>1, <2>2, CloseTxFacts, Zenon
  <2> QED BY <2>10, <2>11, <2>12, Zenon DEF Durable!Commit
<1>7. CASE FlushSync
  <2>1. /\ pc = "write" /\ pc' = "flush" /\ mode' = mode
        /\ UNCHANGED <<ldb, cache, todo>> /\ pend' = withCursor
    BY <1>7, Zenon DEF FlushSync
  <2>2. mode = "up"
    BY <2>1, Zenon DEF DbInv
  <2>3. DOMAIN pend'.keys = DOMAIN pend.keys \cup {Cursor} /\ pend'.removed = pend.removed \ {Cursor}
    BY <2>1, PutKeyDomain, Zenon DEF withCursor
  <2>4. View' = View
    BY <2>1, Zenon DEF View
  <2>5. Asked' = Asked
    BY <2>1, <2>3, <2>4, DbAssumption, SMTT(30) DEF Asked, stored
  <2> QED BY <2>1, <2>2, <2>5, StutterStep, Zenon
<1>8. CASE FlushCache
  <2>1. /\ pc = "flush" /\ pc' = "clear" /\ mode' = mode
        /\ UNCHANGED <<cache, todo, pend>> /\ ldb' = View
    BY <1>8, Zenon DEF FlushCache, txVars
  <2>2. mode = "up"
    BY <2>1, Zenon DEF DbInv
  <2>3. DOMAIN View' = DOMAIN View
    <3>1. DOMAIN View' = (DOMAIN View \cup DOMAIN cache.keys) \ cache.removed
      BY <2>1, ViewDomainNext, Zenon
    <3> QED BY <3>1, ViewDomain, Zenon
  <2>4. StateOf(View)' = StateOf(View) /\ StateOf(ldb)' = StateOf(View)
    BY <2>1, <2>3, Zenon DEF StateOf
  <2>5. Asked' = Asked
    BY <2>1, <2>3, Zenon DEF Asked, stored
  <2>6. UNCHANGED (IF mode = "up" /\ pc # "idle" THEN {Asked} ELSE {})
    BY <2>1, <2>2, <2>5, Zenon
  <2> QED BY <2>4, <2>6, Zenon DEF Durable!Flush
<1>9. CASE ClearCache
  <2>1. /\ pc = "clear" /\ pc' = "direct" /\ mode' = mode
        /\ UNCHANGED <<ldb, todo, pend>> /\ cache' = NoChange
    BY <1>9, Zenon DEF ClearCache, txVars
  <2>2. mode = "up"
    BY <2>1, Zenon DEF DbInv
  <2>3. DOMAIN View' = DOMAIN View
    <3>1. DOMAIN View' = DOMAIN ldb
      <4>1. DOMAIN cache'.keys = {} /\ cache'.removed = {}
        BY <2>1, NoChangeDomain, Zenon
      <4> QED BY <2>1, <4>1, ViewDomainNext, Zenon
    <3> QED BY <2>1, <3>1, Zenon DEF DbInv
  <2>4. UNCHANGED <<StateOf(View), StateOf(ldb)>>
    BY <2>1, <2>3, Zenon DEF StateOf
  <2>5. Asked' = Asked
    BY <2>1, <2>3, Zenon DEF Asked, stored
  <2>6. UNCHANGED (IF mode = "up" /\ pc # "idle" THEN {Asked} ELSE {})
    BY <2>1, <2>2, <2>5, Zenon
  <2> QED BY <2>4, <2>6, Zenon DEF Durable!vars
<1>10. CASE CommitDirect
  <2>1. /\ pc = "direct" /\ mode' = mode /\ cache' = cache /\ CloseTx
        /\ ldb' = applied(ldb, pend) /\ todo = <<>> /\ Emptied /\ Emptied'
    BY <1>10, Zenon DEF CommitDirect, DbInv, Emptied
  <2>2. mode = "up"
    BY <2>1, Zenon DEF DbInv
  <2>3. StateOf(View) = StateOf(ldb) /\ StateOf(View)' = StateOf(ldb)'
    BY <2>1, EmptyCacheView, Zenon DEF View, Emptied
  <2>4. DOMAIN ldb' = (DOMAIN ldb \cup DOMAIN pend.keys) \ pend.removed /\ DOMAIN View = DOMAIN ldb
    <3>1. DOMAIN ldb' = (DOMAIN ldb \cup DOMAIN pend.keys) \ pend.removed
      BY <2>1, AppliedDomain, Zenon
    <3>2. DOMAIN View = DOMAIN ldb
      BY <2>1, ViewDomain, Zenon DEF Emptied
    <3> QED BY <3>1, <3>2, Zenon
  <2>5. StateOf(ldb)' = Asked
    BY <2>1, <2>4, RangeEmpty, DbAssumption, ZenonT(40) DEF StateOf, Asked, stored, DbInv
  <2>6. /\ (IF mode = "up" /\ pc # "idle" THEN {Asked} ELSE {}) = {Asked}
        /\ (IF mode = "up" /\ pc # "idle" THEN {Asked} ELSE {})' = {}
    BY <2>1, <2>2, CloseTxFacts, Zenon
  <2> QED BY <2>3, <2>5, <2>6, Zenon DEF Durable!Commit
<1>11. CASE FlushFails
  <2>1. pc \in {"write", "flush", "direct"} /\ mode' = mode /\ CloseTx /\ UNCHANGED <<ldb, cache>>
    BY <1>11, Zenon DEF FlushFails
  <2>2. mode = "up"
    BY <2>1, Zenon DEF DbInv
  <2> QED BY <2>1, <2>2, AbortStep, Zenon
<1>12. CASE \E r \in Readers : SnapLdb(r) \/ SnapCache(r) \/ EndView(r)
  <2>1. UNCHANGED <<ldb, cache, mode, pc, todo, pend>>
    BY <1>12, Zenon DEF SnapLdb, SnapCache, EndView, txVars
  <2> QED BY <2>1, AskedSame, StutterStep, Zenon
<1>13. CASE Close
  <2>1. /\ mode = "up" /\ pc = "idle" /\ ldb' = View /\ mode' = "down" /\ Emptied'
    BY <1>13, NoChangeDomain, Zenon DEF Close, Stop, Emptied
  <2>2. StateOf(View)' = StateOf(ldb)' /\ StateOf(ldb)' = StateOf(View)
    <3>1. StateOf(View)' = StateOf(ldb)'
      BY <2>1, EmptyCacheView, Zenon DEF View, Emptied
    <3> QED BY <2>1, <3>1, Zenon DEF StateOf
  <2> QED BY <2>1, <2>2, Zenon DEF Durable!Flush
<1>14. CASE Crash \/ PowerFails
  <2>1. mode' = "down" /\ ldb' = ldb /\ Emptied'
    BY <1>14, NoChangeDomain, Zenon DEF Crash, PowerFails, Stop, Emptied
  <2>2. StateOf(View)' = StateOf(ldb)' /\ StateOf(ldb)' = StateOf(ldb)
    <3>1. StateOf(View)' = StateOf(ldb)'
      BY <2>1, EmptyCacheView, Zenon DEF View, Emptied
    <3> QED BY <2>1, <3>1, Zenon DEF StateOf
  <2> QED BY <2>1, <2>2, Zenon DEF Durable!Crash
<1>15. CASE Open
  <2>1. mode = "down" /\ UNCHANGED <<ldb, cache>> /\ (mode' = "up" => pc' = "idle")
    BY <1>15, Zenon DEF Open, reconcileDB
  <2> QED BY <2>1, StutterStep, Zenon
<1>16. CASE UNCHANGED vars
  <2>1. UNCHANGED <<ldb, cache, mode, pc, todo, pend>>
    BY <1>16, Zenon DEF vars
  <2> QED BY <2>1, AskedSame, StutterStep, Zenon
<1> QED
  BY <1>1, <1>2, <1>3, <1>4, <1>5, <1>6, <1>7, <1>8, <1>9, <1>10, <1>11, <1>12,
     <1>13, <1>14, <1>15, <1>16 DEF Next

(* The block database keeps the promise of DurableStore, however many      *)
(* operations fail and however often it crashes: transactions take effect  *)
(* as a whole, and a crash goes back to the state after an earlier one.    *)
THEOREM DbImplementsDurable == Spec => ImplementsDurable
<1>1. Init => Durable!Init
  <2> SUFFICES ASSUME Init PROVE Durable!Init
    BY Zenon
  <2>1. Emptied
    BY NoChangeDomain, Zenon DEF Init, Emptied
  <2>2. StateOf(View) = StateOf(ldb)
    BY <2>1, EmptyCacheView, Zenon DEF View, Emptied
  <2>3. StateOf(View) \in [blocks : SUBSET Blocks, app : BOOLEAN]
    BY DEF StateOf
  <2>4. (IF mode = "up" /\ pc # "idle" THEN {Asked} ELSE {}) = {}
    BY Zenon DEF Init
  <2> QED BY <2>2, <2>3, <2>4, Zenon DEF Durable!Init
<1> QED
  BY <1>1, InitDb, NextDb, StepImplements, PTL DEF Spec, ImplementsDurable, Durable!Spec

-----------------------------------------------------------------------------
(* Positions in the flat files. *)

Pos == Nat \X Nat

(* The keys that say something about the flat files. *)
FileKeys == Blocks \cup {Cursor}

(* The position the files must hold for the sake of a key. *)
Reach(k, v) == IF k = Cursor THEN v ELSE <<v[1], v[2] + Units>>

Pieces == (Blocks \X (1..Units)) \cup {<<>>}

(* There are finitely many files, in the form the scan for the last of     *)
(* them needs it.                                                          *)
HasLast(D) == \A S \in SUBSET D : S # {} => \E n \in S : \A m \in S : m <= n

FilesOK(fs) ==
  /\ DOMAIN fs \subseteq Nat
  /\ \A n \in DOMAIN fs : fs[n] \in Seq(Pieces)
  /\ HasLast(DOMAIN fs)

SyncOK(fs, sy) == DOMAIN sy = DOMAIN fs /\ \A n \in DOMAIN fs : sy[n] \in 0..Len(fs[n])

(* The files fs, of which those in cut have lost their end, go up to p. *)
Held(fs, cut, p) ==
  /\ 0..p[1] \subseteq DOMAIN fs
  /\ p[1] \in cut \/ p[2] <= Len(fs[p[1]])

(* A loss of power leaves p, except in the files X. *)
Synced(sy, X, p) == p[1] \in X \/ p[2] <= sy[p[1]]

RecordAt(fs, b, loc) ==
  /\ loc[1] \in DOMAIN fs
  /\ loc[2] + Units <= Len(fs[loc[1]])
  /\ \A i \in 1..Units : fs[loc[1]][loc[2] + i] = <<b, i>>

PosGood(fs, sy, cut, X, p) == Held(fs, cut, p) /\ Synced(sy, X, p)

(* What the map m says of the files is true, and reaches no further than p. *)
Good(fs, sy, cut, X, m, p) ==
  \A k \in DOMAIN m \cap FileKeys :
    /\ m[k] \in Pos
    /\ ~After(Reach(k, m[k]), p)
    /\ PosGood(fs, sy, cut, X, Reach(k, m[k]))
    /\ k # Cursor => m[k][1] \in cut \/ RecordAt(fs, k, m[k])

-----------------------------------------------------------------------------
(* Files a loss of power may cut anywhere, and with the one that is open   *)
(* for writing, which a sync reaches.                                      *)
Lost == dropped \cup torn
Unsynced == Lost \cup (IF open THEN {wc[1]} ELSE {})

(* Where a rollback of the transaction under way goes back to. *)
Limit == IF pc = "idle" THEN wc ELSE old

Shape ==
  /\ FilesOK(files) /\ SyncOK(files, synced)
  /\ wc \in Pos /\ old \in Pos
  /\ unit \in Nat /\ unit < Units
  /\ open => wc[1] \in DOMAIN files
  /\ mode \in {"up", "opening", "down", "corrupt"}
  /\ pc \in {"idle", "write", "rollback", "truncate", "flush", "clear", "direct"}
  /\ mode \in {"down", "corrupt"} => pc = "idle"
  /\ mode = "opening" => pc \in {"rollback", "truncate"}
  /\ \A c \in {cache, pend} :
       /\ DOMAIN c.keys \cup c.removed \subseteq Blocks \cup {App, Cursor}
       /\ DOMAIN c.keys \cap c.removed = {}

LeveldbGood ==
  Cursor \in DOMAIN ldb /\ Good(files, synced, torn, Lost, ldb, ldb[Cursor])

ViewGood ==
  mode \in {"up", "opening"} =>
    /\ Good(files, synced, torn, Unsynced, View, View[Cursor])
    /\ ~After(ldb[Cursor], View[Cursor])
    /\ ~After(View[Cursor], Limit)
    /\ PosGood(files, synced, torn, Unsynced, Limit)

SnapsGood ==
  /\ DOMAIN snap = Readers
  /\ \A r \in Readers :
       /\ snap[r].at \in {"none", "ldb", "open"}
       /\ snap[r].at # "none" =>
            mode = "up" /\ Good(files, synced, torn, Unsynced, snap[r].map, Limit)

(* The record that is being written, as far as it is. *)
PartWritten ==
  unit > 0 =>
    /\ unit <= wc[2] /\ wc[2] <= Len(files[wc[1]])
    /\ \A i \in 1..unit : files[wc[1]][wc[2] - unit + i] = <<Head(todo), i>>

TxGood ==
  /\ pc \in {"write", "flush", "clear", "direct"} =>
       /\ ~After(old, wc)
       /\ PosGood(files, synced, torn, Unsynced, wc)
       /\ Good(files, synced, torn, Unsynced, pend.keys, wc)
  /\ pc = "write" => PartWritten
  /\ pc \in {"flush", "clear", "direct"} =>
       /\ Cursor \in DOMAIN pend.keys /\ pend.keys[Cursor] = wc
       /\ Good(files, synced, torn, Lost, pend.keys, wc)
  /\ pc = "flush" => Good(files, synced, torn, Lost, View, View[Cursor])
  /\ pc = "rollback" => wc[1] >= old[1]
  /\ pc = "truncate" => wc[1] = old[1]

FileInv ==
  DbInv /\ Shape /\ LeveldbGood /\ ViewGood /\ SnapsGood /\ TxGood /\ CursorNeverAhead

-----------------------------------------------------------------------------
(* Positions are ordered. *)
LEMMA AfterOrder ==
  ASSUME NEW x \in Pos, NEW y \in Pos, NEW z \in Pos
  PROVE  /\ ~After(x, x)
         /\ ~After(x, y) /\ ~After(y, z) => ~After(x, z)
         /\ ~After(x, y) /\ ~After(y, x) => x = y
BY DEF Pos, After

LEMMA ReachPos ==
  ASSUME NEW k, NEW v \in Pos PROVE Reach(k, v) \in Pos /\ Reach(k, v)[1] = v[1]
BY DbAssumption DEF Reach, Pos

(* os.File.Truncate keeps what is before the new end. *)
LEMMA TruncateFacts ==
  ASSUME NEW s \in Seq(Pieces), NEW n \in Nat
  PROVE  /\ Truncate(s, n) \in Seq(Pieces) /\ Len(Truncate(s, n)) = n
         /\ \A i \in 1..n : i <= Len(s) => Truncate(s, n)[i] = s[i]
<1>1. CASE Len(s) >= n
  <2>1. Truncate(s, n) = SubSeq(s, 1, n)
    BY <1>1, Zenon DEF Truncate
  <2> QED BY <1>1, <2>1
<1>2. CASE ~(Len(s) >= n)
  <2> DEFINE z == Zeros(n - Len(s))
  <2>1. n - Len(s) \in Nat /\ <<>> \in Pieces
    BY <1>2 DEF Pieces
  <2>2. z \in Seq(Pieces) /\ Len(z) = n - Len(s)
    BY <2>1 DEF Zeros
  <2>3. Truncate(s, n) = s \o z
    BY <1>2, Zenon DEF Truncate
  <2> HIDE DEF z
  <2> QED BY <1>2, <2>2, <2>3
<1> QED BY <1>1, <1>2, Zenon

(* WriteAt writes its piece and keeps what is before it. *)
LEMMA WriteAtFacts ==
  ASSUME NEW s \in Seq(Pieces), NEW n \in Nat, NEW x \in Pieces
  PROVE  /\ WriteAt(s, n, x) \in Seq(Pieces) /\ Len(WriteAt(s, n, x)) >= n + 1
         /\ WriteAt(s, n, x)[n + 1] = x
         /\ \A i \in 1..n : i <= Len(s) => WriteAt(s, n, x)[i] = s[i]
<1> DEFINE t == Truncate(s, n)
           u == t \o <<x>>
           v == SubSeq(s, n + 2, Len(s))
<1>1. /\ t \in Seq(Pieces) /\ Len(t) = n
      /\ \A i \in 1..n : i <= Len(s) => t[i] = s[i]
  BY TruncateFacts, Zenon
<1> HIDE DEF t
<1>2. /\ u \in Seq(Pieces) /\ Len(u) = n + 1 /\ u[n + 1] = x
      /\ \A i \in 1..n : u[i] = t[i]
  BY <1>1
<1>3. v \in Seq(Pieces) /\ Len(v) \in Nat
  OBVIOUS
<1>4. WriteAt(s, n, x) = u \o v
  BY <1>1, <1>3, Zenon DEF WriteAt, t
<1> HIDE DEF u, v
<1>5. /\ u \o v \in Seq(Pieces) /\ Len(u \o v) = Len(u) + Len(v)
      /\ \A i \in 1..Len(u) : (u \o v)[i] = u[i]
  <2>1. /\ u \o v \in Seq(Pieces) /\ Len(u \o v) = Len(u) + Len(v)
        /\ \A i \in 1..(Len(u) + Len(v)) :
             (u \o v)[i] = IF i <= Len(u) THEN u[i] ELSE v[i - Len(u)]
    BY <1>2, <1>3, SMTT(30)
  <2>2. \A i \in 1..Len(u) : i \in 1..(Len(u) + Len(v)) /\ i <= Len(u)
    BY <1>2, <1>3
  <2> QED BY <2>1, <2>2, Zenon
<1> QED BY <1>1, <1>2, <1>3, <1>4, <1>5, SMTT(30)

(* readBlock finds the record when its pieces are in place. *)
LEMMA RecordReadable ==
  ASSUME FilesOK(files), NEW b, NEW loc \in Pos, RecordAt(files, b, loc)
  PROVE  readable(b, loc)
<1> DEFINE f == files[loc[1]]
           r == SubSeq(f, loc[2] + 1, loc[2] + Units)
<1>1. /\ loc[1] \in DOMAIN files /\ loc[2] + Units <= Len(f) /\ f \in Seq(Pieces)
      /\ \A i \in 1..Units : f[loc[2] + i] = <<b, i>>
  BY Zenon DEF RecordAt, FilesOK
<1>2. loc[2] \in Nat /\ Units \in Nat \ {0}
  BY DbAssumption, Zenon DEF Pos
<1>3. r \in Seq(Pieces) /\ Len(r) = Units /\ \A i \in 1..Units : r[i] = f[loc[2] + i]
  <2> HIDE DEF f
  <2> DEFINE lo == loc[2] + 1
             hi == loc[2] + Units
  <2>1. lo \in Int /\ hi \in Int
    BY <1>2
  <2>2. \A i \in lo..hi : f[i] \in Pieces
    BY <1>1, <1>2
  <2>3. lo <= hi /\ hi - lo + 1 = Units /\ \A i \in 1..Units : lo + i - 1 = loc[2] + i
    BY <1>2
  <2>4. r = SubSeq(f, lo, hi)
    BY Zenon
  <2> HIDE DEF lo, hi, r
  <2>5. /\ r \in Seq(Pieces) /\ Len(r) = IF lo <= hi THEN hi - lo + 1 ELSE 0
        /\ \A i \in 1..(hi - lo + 1) : r[i] = f[lo + i - 1]
    BY <2>1, <2>2, <2>4, SMTT(30)
  <2> QED BY <2>3, <2>5, Zenon
<1>4. r = Record(b)
  <2> HIDE DEF f, r
  <2>1. r = [i \in 1..Units |-> r[i]]
    BY <1>3
  <2> QED BY <1>1, <1>3, <2>1, Zenon DEF Record
<1> QED BY <1>1, <1>4, Zenon DEF readable

-----------------------------------------------------------------------------
(* An operation on the files that leaves alone what is before p, and keeps *)
(* synced what was, X being the files of which that is not known before    *)
(* and Y after it.                                                         *)
Carry(fs, sy, X, gs, ty, Y, p) ==
  \A n \in DOMAIN fs : n <= p[1] =>
    /\ n \in DOMAIN gs
    /\ n < p[1] => gs[n] = fs[n] /\ sy[n] <= ty[n]
    /\ n = p[1] => \A i \in 0..p[2] :
         /\ i <= Len(fs[n]) => i <= Len(gs[n]) /\ (i # 0 => gs[n][i] = fs[n][i])
         /\ i <= sy[n] => i <= ty[n]
    /\ n \in X => n \in Y \/ ty[n] = Len(gs[n])

(* Positions before p stay held and synced. *)
LEMMA PosCarry ==
  ASSUME NEW fs, NEW sy, NEW X, NEW gs, NEW ty, NEW Y, NEW cut \in SUBSET Y,
         FilesOK(fs), FilesOK(gs), SyncOK(fs, sy), SyncOK(gs, ty),
         NEW p \in Pos, NEW q \in Pos, ~After(q, p),
         Carry(fs, sy, X, gs, ty, Y, p), PosGood(fs, sy, cut, X, q)
  PROVE  PosGood(gs, ty, cut, Y, q)
<1> DEFINE n == q[1]
<1>1. /\ n \in Nat /\ q[2] \in Nat /\ p[1] \in Nat /\ p[2] \in Nat
      /\ n < p[1] \/ (n = p[1] /\ q[2] <= p[2])
  BY DEF Pos, After
<1>2. 0..n \subseteq DOMAIN fs /\ (n \in cut \/ q[2] <= Len(fs[n]))
  BY Zenon DEF PosGood, Held
<1>3. 0..n \subseteq DOMAIN gs
  BY <1>1, <1>2 DEF Carry
<1>4. n \in DOMAIN fs /\ n \in DOMAIN gs
  BY <1>1, <1>2, <1>3
<1>5. /\ fs[n] \in Seq(Pieces) /\ gs[n] \in Seq(Pieces)
      /\ sy[n] \in Nat /\ ty[n] \in Nat
  BY <1>4 DEF FilesOK, SyncOK
<1>6. q[2] <= Len(fs[n]) => q[2] <= Len(gs[n])
  BY <1>1, <1>4, <1>5, SMTT(30) DEF Carry
<1>7. q[2] <= sy[n] => q[2] <= ty[n]
  BY <1>1, <1>4, <1>5, SMTT(30) DEF Carry
<1>8. n \in X => n \in Y \/ ty[n] = Len(gs[n])
  BY <1>1, <1>4 DEF Carry
<1>9. n \in X \/ q[2] <= sy[n]
  BY Zenon DEF PosGood, Synced
<1>10. Held(gs, cut, q)
  BY <1>2, <1>3, <1>6, Zenon DEF Held
<1>11. Synced(ty, Y, q)
  BY <1>2, <1>6, <1>7, <1>8, <1>9, Zenon DEF Synced
<1> QED BY <1>10, <1>11, Zenon DEF PosGood

(* So do the records before p. *)
LEMMA RecordCarry ==
  ASSUME NEW fs, NEW sy, NEW X, NEW gs, NEW ty, NEW Y,
         FilesOK(fs), FilesOK(gs), NEW p \in Pos, Carry(fs, sy, X, gs, ty, Y, p),
         NEW b, NEW loc \in Pos, ~After(<<loc[1], loc[2] + Units>>, p), RecordAt(fs, b, loc)
  PROVE  RecordAt(gs, b, loc)
<1> DEFINE n == loc[1]
<1>1. /\ n \in Nat /\ loc[2] \in Nat /\ p[1] \in Nat /\ p[2] \in Nat /\ Units \in Nat \ {0}
      /\ n < p[1] \/ (n = p[1] /\ loc[2] + Units <= p[2])
  BY DbAssumption DEF Pos, After
<1>2. /\ n \in DOMAIN fs /\ loc[2] + Units <= Len(fs[n])
      /\ \A i \in 1..Units : fs[n][loc[2] + i] = <<b, i>>
  BY Zenon DEF RecordAt
<1>3. n \in DOMAIN gs
  BY <1>1, <1>2 DEF Carry
<1>4. CASE n < p[1]
  <2>1. gs[n] = fs[n]
    BY <1>1, <1>2, <1>4 DEF Carry
  <2> QED BY <1>2, <1>3, <2>1, Zenon DEF RecordAt
<1>5. CASE n = p[1]
  <2>1. /\ fs[n] \in Seq(Pieces) /\ gs[n] \in Seq(Pieces)
        /\ Len(fs[n]) \in Nat /\ Len(gs[n]) \in Nat
        /\ loc[2] + Units <= p[2]
    BY <1>1, <1>2, <1>3, <1>5, SMTT(30) DEF FilesOK
  <2>2. \A i \in 0..p[2] :
          i <= Len(fs[n]) => i <= Len(gs[n]) /\ (i # 0 => gs[n][i] = fs[n][i])
    BY <1>1, <1>2, <1>5, SMTT(30) DEF Carry
  <2>3. loc[2] + Units <= Len(gs[n])
    <3>1. loc[2] + Units \in 0..p[2] /\ loc[2] + Units <= Len(fs[n])
      <4> HIDE DEF n
      <4> QED BY <1>1, <1>2, <2>1, SMTT(30)
    <3> QED BY <2>2, <3>1, Zenon
  <2>4. ASSUME NEW i \in 1..Units PROVE gs[n][loc[2] + i] = <<b, i>>
    <3>1. loc[2] + i \in 0..p[2] /\ loc[2] + i <= Len(fs[n]) /\ loc[2] + i # 0
      <4> HIDE DEF n
      <4> QED BY <1>1, <1>2, <2>1, SMTT(30)
    <3> QED BY <1>2, <2>2, <3>1, Zenon
  <2> QED BY <1>3, <2>3, <2>4, Zenon DEF RecordAt
<1> QED BY <1>1, <1>4, <1>5, Zenon

(* So does what a map says, if it reaches no further than p. *)
LEMMA GoodCarry ==
  ASSUME NEW fs, NEW sy, NEW X, NEW gs, NEW ty, NEW Y, NEW cut \in SUBSET Y,
         FilesOK(fs), FilesOK(gs), SyncOK(fs, sy), SyncOK(gs, ty),
         NEW p \in Pos, Carry(fs, sy, X, gs, ty, Y, p),
         NEW m, NEW q \in Pos, ~After(q, p), Good(fs, sy, cut, X, m, q)
  PROVE  Good(gs, ty, cut, Y, m, q)
<1> SUFFICES ASSUME NEW k \in DOMAIN m \cap FileKeys
             PROVE  /\ m[k] \in Pos
                    /\ ~After(Reach(k, m[k]), q)
                    /\ PosGood(gs, ty, cut, Y, Reach(k, m[k]))
                    /\ k # Cursor => m[k][1] \in cut \/ RecordAt(gs, k, m[k])
  BY Zenon DEF Good
<1>1. /\ m[k] \in Pos
      /\ ~After(Reach(k, m[k]), q)
      /\ PosGood(fs, sy, cut, X, Reach(k, m[k]))
      /\ k # Cursor => m[k][1] \in cut \/ RecordAt(fs, k, m[k])
  BY Zenon DEF Good
<1>2. Reach(k, m[k]) \in Pos
  BY <1>1, ReachPos, Zenon
<1>3. ~After(Reach(k, m[k]), p)
  BY <1>1, <1>2, AfterOrder, Zenon
<1>4. PosGood(gs, ty, cut, Y, Reach(k, m[k]))
  BY <1>1, <1>2, <1>3, PosCarry, Zenon
<1>5. ASSUME k # Cursor, RecordAt(fs, k, m[k]) PROVE RecordAt(gs, k, m[k])
  <2>1. Reach(k, m[k]) = <<m[k][1], m[k][2] + Units>>
    BY <1>5, Zenon DEF Reach
  <2> QED BY <1>1, <1>3, <1>5, <2>1, RecordCarry
<1> QED BY <1>1, <1>4, <1>5, Zenon

(* A map reaches no further than any later position, and two maps that     *)
(* are good make a good one.                                               *)
LEMMA GoodMore ==
  ASSUME NEW fs, NEW sy, NEW X, NEW Y, X \subseteq Y, NEW cut, NEW m,
         NEW p \in Pos, NEW q \in Pos, ~After(p, q), Good(fs, sy, cut, X, m, p)
  PROVE  Good(fs, sy, cut, Y, m, q)
<1> SUFFICES ASSUME NEW k \in DOMAIN m \cap FileKeys
             PROVE  /\ m[k] \in Pos
                    /\ ~After(Reach(k, m[k]), q)
                    /\ PosGood(fs, sy, cut, Y, Reach(k, m[k]))
                    /\ k # Cursor => m[k][1] \in cut \/ RecordAt(fs, k, m[k])
  BY Zenon DEF Good
<1>1. /\ m[k] \in Pos
      /\ ~After(Reach(k, m[k]), p)
      /\ PosGood(fs, sy, cut, X, Reach(k, m[k]))
      /\ k # Cursor => m[k][1] \in cut \/ RecordAt(fs, k, m[k])
  BY Zenon DEF Good
<1>2. ~After(Reach(k, m[k]), q)
  BY <1>1, ReachPos, AfterOrder, Zenon
<1>3. PosGood(fs, sy, cut, Y, Reach(k, m[k]))
  BY <1>1, Zenon DEF PosGood, Synced
<1> QED BY <1>1, <1>2, <1>3, Zenon

LEMMA GoodOverlay ==
  ASSUME NEW fs, NEW sy, NEW X, NEW cut, NEW m, NEW n, NEW v, NEW p,
         Good(fs, sy, cut, X, m, p), Good(fs, sy, cut, X, n, p),
         \A k \in DOMAIN v \cap FileKeys : \/ k \in DOMAIN m /\ v[k] = m[k]
                                           \/ k \in DOMAIN n /\ v[k] = n[k]
  PROVE  Good(fs, sy, cut, X, v, p)
BY ZenonT(40) DEF Good

(* The cursor of a good map is a position the files hold. *)
LEMMA CursorGood ==
  ASSUME NEW fs, NEW sy, NEW X, NEW cut, NEW m, NEW p,
         Good(fs, sy, cut, X, m, p), Cursor \in DOMAIN m
  PROVE  m[Cursor] \in Pos /\ PosGood(fs, sy, cut, X, m[Cursor]) /\ ~After(m[Cursor], p)
BY Zenon DEF Good, FileKeys, Reach

-----------------------------------------------------------------------------
(* What the maps of the metadata hold. *)
LEMMA AppliedValue ==
  ASSUME NEW m, NEW c, NEW k \in DOMAIN applied(m, c)
  PROVE  \/ k \in DOMAIN c.keys /\ applied(m, c)[k] = c.keys[k]
         \/ k \notin DOMAIN c.keys /\ k \in DOMAIN m /\ applied(m, c)[k] = m[k]
BY Zenon DEF applied, Without, Override

LEMMA AppliedTwice ==
  ASSUME NEW m, NEW c PROVE applied(applied(m, c), c) = applied(m, c)
BY Zenon DEF applied, Without, Override

LEMMA PutKeyValue ==
  ASSUME NEW p, NEW k, NEW v, NEW x \in DOMAIN putKey(p, k, v).keys
  PROVE  putKey(p, k, v).keys[x] = IF x = k THEN v ELSE p.keys[x]
BY Zenon DEF putKey, Override

(* The cursor is never removed, so transactions see the cache's or         *)
(* leveldb's.                                                              *)
LEMMA ViewHasCursor ==
  ASSUME DbInv, Cursor \in DOMAIN ldb PROVE Cursor \in DOMAIN View
<1>1. Cursor \notin cache.removed
  BY DbAssumption, Zenon DEF DbInv
<1> QED BY <1>1, ViewDomain, Zenon

(* With an empty cache they see leveldb's map. *)
LEMMA EmptiedApplied ==
  ASSUME NEW m, NEW c, DOMAIN c.keys = {}, c.removed = {}
  PROVE  /\ DOMAIN applied(m, c) = DOMAIN m
         /\ \A k \in DOMAIN m : applied(m, c)[k] = m[k]
<1>1. DOMAIN applied(m, c) = DOMAIN m
  BY AppliedDomain, ZenonT(40)
<1>2. ASSUME NEW k \in DOMAIN m PROVE applied(m, c)[k] = m[k]
  <2>1. k \in DOMAIN applied(m, c) /\ k \notin DOMAIN c.keys
    BY <1>1, Zenon
  <2> QED BY <2>1, AppliedValue
<1> QED BY <1>1, <1>2, Zenon

-----------------------------------------------------------------------------
(* A step of the files that leaves alone what is before a position the     *)
(* rollback would not go past keeps what the metadata says of them.        *)
LEMMA FilesMove ==
  ASSUME FileInv, mode \in {"up", "opening"}, mode' \in {"up", "opening"},
         mode = "up" => mode' = "up",
         UNCHANGED <<ldb, cache, snap, torn>>, Limit' = Limit,
         FilesOK(files'), SyncOK(files', synced'),
         NEW p \in Pos, ~After(Limit, p),
         Carry(files, synced, Lost, files', synced', Lost', p),
         Carry(files, synced, Unsynced, files', synced', Unsynced', p)
  PROVE  LeveldbGood' /\ ViewGood' /\ SnapsGood'
<1>0. /\ DbInv /\ Shape /\ LeveldbGood /\ SnapsGood
      /\ FilesOK(files) /\ SyncOK(files, synced)
  BY Zenon DEF FileInv, Shape
<1>1. /\ Good(files, synced, torn, Unsynced, View, View[Cursor])
      /\ ~After(ldb[Cursor], View[Cursor])
      /\ ~After(View[Cursor], Limit)
      /\ PosGood(files, synced, torn, Unsynced, Limit)
  BY Zenon DEF FileInv, ViewGood
<1>2. /\ Cursor \in DOMAIN ldb /\ Good(files, synced, torn, Lost, ldb, ldb[Cursor])
      /\ Cursor \in DOMAIN View
  BY <1>0, ViewHasCursor, Zenon DEF LeveldbGood
<1>3. ldb[Cursor] \in Pos /\ View[Cursor] \in Pos /\ Limit \in Pos
  BY <1>0, <1>1, <1>2, CursorGood, Zenon DEF Shape, Limit
<1>4. ~After(View[Cursor], p) /\ ~After(ldb[Cursor], p)
  BY <1>1, <1>3, AfterOrder, Zenon
<1>5. torn \in SUBSET Lost' /\ torn \in SUBSET Unsynced' /\ View' = View /\ torn' = torn
  BY Zenon DEF Lost, Unsynced, View
<1>6. LeveldbGood'
  <2>1. Good(files', synced', torn, Lost', ldb, ldb[Cursor])
    BY <1>0, <1>2, <1>3, <1>4, <1>5, GoodCarry, Zenon
  <2> QED BY <1>2, <2>1, Zenon DEF LeveldbGood
<1>7. ViewGood'
  <2>1. Good(files', synced', torn, Unsynced', View, View[Cursor])
    BY <1>0, <1>1, <1>3, <1>4, <1>5, GoodCarry, Zenon
  <2>2. PosGood(files', synced', torn, Unsynced', Limit)
    BY <1>0, <1>1, <1>3, <1>5, PosCarry, Zenon
  <2> QED BY <1>1, <1>5, <2>1, <2>2, Zenon DEF ViewGood
<1>8. SnapsGood'
  <2>1. ASSUME NEW r \in Readers, snap[r].at # "none"
        PROVE  Good(files', synced', torn, Unsynced', snap[r].map, Limit)
    <3>1. Good(files, synced, torn, Unsynced, snap[r].map, Limit)
      BY <1>0, <2>1, Zenon DEF SnapsGood
    <3> QED BY <1>0, <1>3, <1>5, <3>1, GoodCarry, SMTT(30)
  <2>2. /\ DOMAIN snap = Readers
        /\ \A r \in Readers : /\ snap[r].at \in {"none", "ldb", "open"}
                              /\ snap[r].at # "none" => mode = "up"
    BY <1>0, Zenon DEF SnapsGood
  <2> QED BY <1>5, <2>1, <2>2, Zenon DEF SnapsGood
<1> QED BY <1>6, <1>7, <1>8, Zenon

-----------------------------------------------------------------------------
(* What every step needs of the invariant. *)
LEMMA InvFacts ==
  ASSUME FileInv
  PROVE  /\ DbInv /\ Shape /\ LeveldbGood /\ ViewGood /\ SnapsGood /\ TxGood
         /\ CursorNeverAhead
         /\ Cursor \in DOMAIN ldb /\ Cursor \in DOMAIN View
         /\ wc \in Pos /\ old \in Pos /\ Limit \in Pos /\ ldb[Cursor] \in Pos
         /\ mode \in {"up", "opening"} =>
              /\ View[Cursor] \in Pos
              /\ ~After(ldb[Cursor], Limit) /\ ~After(View[Cursor], Limit)
         /\ pc \in {"write", "flush", "clear", "direct"} => mode = "up" /\ Limit = old
<1>1. /\ DbInv /\ Shape /\ LeveldbGood /\ ViewGood /\ SnapsGood /\ TxGood
      /\ CursorNeverAhead
  BY Zenon DEF FileInv
<1>2. Cursor \in DOMAIN ldb /\ Cursor \in DOMAIN View
  BY <1>1, ViewHasCursor, Zenon DEF LeveldbGood
<1>3. wc \in Pos /\ old \in Pos /\ Limit \in Pos
  BY <1>1, Zenon DEF Shape, Limit
<1>4. ldb[Cursor] \in Pos
  BY <1>1, <1>2, CursorGood, Zenon DEF LeveldbGood
<1>5. ASSUME mode \in {"up", "opening"}
      PROVE  /\ View[Cursor] \in Pos
             /\ ~After(ldb[Cursor], Limit) /\ ~After(View[Cursor], Limit)
  <2>1. View[Cursor] \in Pos
    BY <1>1, <1>2, <1>5, CursorGood, Zenon DEF ViewGood
  <2> QED BY <1>1, <1>3, <1>4, <1>5, <2>1, AfterOrder, Zenon DEF ViewGood
<1>6. pc \in {"write", "flush", "clear", "direct"} => mode = "up" /\ Limit = old
  BY <1>1, Zenon DEF DbInv, Shape, Limit
<1> QED BY <1>1, <1>2, <1>3, <1>4, <1>5, <1>6, Zenon

(* What may be lost is not yet synced. *)
LEMMA LostUnsynced == Lost \subseteq Unsynced
BY Zenon DEF Unsynced

(* One more file leaves a last one. *)
LEMMA LastOfMore ==
  ASSUME NEW D \in SUBSET Nat, HasLast(D), NEW a \in Nat, NEW E \in SUBSET (D \cup {a})
  PROVE  HasLast(E)
<1> SUFFICES ASSUME NEW S \in SUBSET E, S # {}
             PROVE  \E n \in S : \A m \in S : m <= n
  BY Zenon DEF HasLast
<1> DEFINE T == S \ {a}
<1>1. CASE T = {}
  <2>1. S = {a}
    BY <1>1, Zenon
  <2> QED BY <2>1
<1>2. CASE T # {}
  <2>1. T \in SUBSET D
    BY Zenon
  <2>2. PICK n \in T : \A m \in T : m <= n
    BY <1>2, <2>1, Zenon DEF HasLast
  <2>3. n \in Nat /\ n \in S /\ \A m \in S : m = a \/ m <= n
    BY <2>1, <2>2, Zenon
  <2>4. CASE a \in S /\ n < a
    <3>1. \A m \in S : m \in Nat
      BY Zenon
    <3> QED BY <2>3, <2>4, <3>1
  <2>5. CASE ~(a \in S /\ n < a)
    BY <2>3, <2>5
  <2> QED BY <2>4, <2>5, Zenon
<1> QED BY <1>1, <1>2, Zenon

-----------------------------------------------------------------------------
(* What a step that does not touch the files leaves alone. *)
LEMMA CarrySame ==
  ASSUME NEW fs, NEW sy, FilesOK(fs), SyncOK(fs, sy), NEW p \in Pos, NEW X, NEW Y,
         \A n \in DOMAIN fs : n <= p[1] /\ n \in X => n \in Y \/ sy[n] = Len(fs[n])
  PROVE  Carry(fs, sy, X, fs, sy, Y, p)
<1>1. \A n \in DOMAIN fs : n \in Nat /\ sy[n] \in Nat
  BY DEF FilesOK, SyncOK
<1> QED BY <1>1 DEF Carry

(* The end of handleRollback. *)
LEMMA RolledBack ==
  ASSUME FileInv, AfterRollback, pc \in {"rollback", "truncate"},
         UNCHANGED <<ldb, cache, snap, torn>>,
         FilesOK(files'), SyncOK(files', synced'), DOMAIN files \subseteq DOMAIN files',
         Carry(files, synced, Lost, files', synced', Lost', old),
         Carry(files, synced, Unsynced, files', synced', Unsynced', old)
  PROVE  /\ Shape' /\ LeveldbGood' /\ ViewGood' /\ SnapsGood' /\ TxGood'
         /\ CursorNeverAhead'
<1>1. /\ Shape /\ ViewGood /\ old \in Pos /\ Limit = old /\ mode \in {"up", "opening"}
  BY InvFacts, Zenon DEF Limit, Shape
<1>2. /\ pc' = "idle" /\ mode' = "up" /\ wc' = old /\ unit' = 0 /\ old' \in Pos
      /\ DOMAIN pend'.keys = {} /\ pend'.removed = {}
  BY NoChangeDomain, Zenon DEF AfterRollback, CloseTx, Pos
<1>3. Limit' = Limit /\ ~After(Limit, old)
  BY <1>1, <1>2, AfterOrder, Zenon DEF Limit
<1>4. LeveldbGood' /\ ViewGood' /\ SnapsGood'
  BY <1>1, <1>2, <1>3, FilesMove, Zenon
<1>5. old[1] \in DOMAIN files'
  <2>1. 0..old[1] \subseteq DOMAIN files
    BY <1>1, Zenon DEF ViewGood, PosGood, Held
  <2> QED BY <1>1, <2>1, SMTT(30) DEF Pos
<1>6. Shape'
  BY <1>1, <1>2, <1>5, DbAssumption DEF Shape
<1>7. TxGood'
  BY <1>2, Zenon DEF TxGood
<1>8. CursorNeverAhead'
  BY <1>2, Zenon DEF CursorNeverAhead
<1> QED BY <1>4, <1>6, <1>7, <1>8, Zenon

(* The file whose write handle is closed is synced or dropped. *)
LEMMA HandleDropped ==
  ASSUME Shape
  PROVE  /\ dropped \subseteq dropHandle
         /\ open => wc[1] \in dropHandle \/ synced[wc[1]] = Len(files[wc[1]])
<1>1. ASSUME open, ~(synced[wc[1]] < Len(files[wc[1]]))
      PROVE  synced[wc[1]] = Len(files[wc[1]])
  <2>1. /\ files[wc[1]] \in Seq(Pieces) /\ synced[wc[1]] \in 0..Len(files[wc[1]])
    BY <1>1, Zenon DEF Shape, FilesOK, SyncOK
  <2> QED BY <1>1, <2>1
<1> QED BY <1>1, Zenon DEF dropHandle

LEMMA KeepRollbackUnchanged ==
  ASSUME FileInv, RollbackNothing \/ RollbackDeleteFails \/ RollbackTruncateFails
  PROVE  FileInv'
<1>0. DbInv'
  BY NextDb, Zenon DEF Next, FileInv
<1>1. /\ Shape /\ TxGood /\ FilesOK(files) /\ SyncOK(files, synced)
      /\ wc \in Pos /\ old \in Pos
  BY InvFacts, Zenon DEF Shape
<1>2. /\ AfterRollback /\ pc \in {"rollback", "truncate"}
      /\ files' = files /\ synced' = synced /\ UNCHANGED <<ldb, cache, snap, torn>>
  BY Zenon DEF RollbackNothing, RollbackDeleteFails, RollbackTruncateFails, Truncating,
               Fault, faultVars
<1>3. wc' = old
  BY <1>2, Zenon DEF AfterRollback
<1>4. dropped \subseteq dropped'
  BY <1>1, HandleDropped, Zenon DEF RollbackNothing, RollbackDeleteFails, RollbackTruncateFails
<1>5. Lost \subseteq Lost'
  BY <1>2, <1>4, Zenon DEF Lost
<1>6. ASSUME NEW n \in DOMAIN files, n <= old[1], n \in Unsynced PROVE n \in Unsynced'
  <2>1. CASE RollbackDeleteFails
    <3>1. n # wc[1]
      BY <1>1, <1>6, <2>1 DEF RollbackDeleteFails, Pos, FilesOK
    <3> QED BY <1>5, <1>6, <3>1, Zenon DEF Unsynced
  <2>2. CASE RollbackNothing
    <3>1. wc = old /\ open' = open
      BY <2>2, Zenon DEF RollbackNothing
    <3> QED BY <1>3, <1>5, <1>6, <3>1, Zenon DEF Unsynced
  <2>3. CASE RollbackTruncateFails
    <3>1. wc[1] = old[1] /\ open' \in {open, TRUE}
      BY <1>1, <2>3, Zenon DEF RollbackTruncateFails, Truncating, TxGood
    <3>2. open => open'
      BY <3>1, Zenon
    <3> QED BY <1>3, <1>5, <1>6, <3>1, <3>2, Zenon DEF Unsynced
  <2> QED BY <2>1, <2>2, <2>3, Zenon
<1>7. /\ Carry(files, synced, Lost, files, synced, Lost', old)
      /\ Carry(files, synced, Unsynced, files, synced, Unsynced', old)
  BY <1>1, <1>5, <1>6, CarrySame, Zenon
<1>8. /\ Shape' /\ LeveldbGood' /\ ViewGood' /\ SnapsGood' /\ TxGood'
      /\ CursorNeverAhead'
  BY <1>1, <1>2, <1>7, RolledBack, Zenon
<1> QED BY <1>0, <1>8, Zenon DEF FileInv

LEMMA KeepRollbackTruncate == ASSUME FileInv, RollbackTruncate PROVE FileInv'
<1>0. DbInv'
  BY NextDb, Zenon DEF Next, FileInv
<1>1. /\ Shape /\ TxGood /\ FilesOK(files) /\ SyncOK(files, synced) /\ ViewGood
      /\ wc \in Pos /\ old \in Pos
  BY InvFacts, Zenon DEF Shape
<1>2. /\ AfterRollback /\ pc \in {"rollback", "truncate"} /\ wc[1] = old[1]
      /\ open' = TRUE /\ wc' = old /\ UNCHANGED <<ldb, cache, snap, torn>>
  BY <1>1, Zenon DEF RollbackTruncate, AfterRollback, Truncating, TxGood, Fault, faultVars
<1> DEFINE o == old[1]
           t == Truncate(files[o], old[2])
<1>3. o \in DOMAIN files /\ o \in Nat /\ old[2] \in Nat
  <2>1. Limit = old /\ mode \in {"up", "opening"}
    BY <1>1, <1>2, Zenon DEF Limit, Shape
  <2>2. 0..o \subseteq DOMAIN files
    BY <1>1, <2>1, Zenon DEF ViewGood, PosGood, Held
  <2> QED BY <1>1, <2>2 DEF Pos
<1>4. /\ files[o] \in Seq(Pieces) /\ Len(files[o]) \in Nat
      /\ t \in Seq(Pieces) /\ Len(t) = old[2]
      /\ \A i \in 1..old[2] : i <= Len(files[o]) => t[i] = files[o][i]
  <2>1. files[o] \in Seq(Pieces)
    BY <1>1, <1>3, Zenon DEF FilesOK
  <2>2. Len(files[o]) \in Nat
    BY <2>1
  <2>3. /\ t \in Seq(Pieces) /\ Len(t) = old[2]
        /\ \A i \in 1..old[2] : i <= Len(files[o]) => t[i] = files[o][i]
    BY <1>3, <2>1, TruncateFacts, Zenon
  <2> QED BY <2>1, <2>2, <2>3, Zenon
<1>5. /\ DOMAIN files' = DOMAIN files /\ files'[o] = t
      /\ \A n \in DOMAIN files : n # o => files'[n] = files[n]
  BY <1>3, Zenon DEF RollbackTruncate, Override, FileAt
<1> HIDE DEF t
<1>6. /\ DOMAIN synced' = DOMAIN files
      /\ \A n \in DOMAIN files : n # o => synced'[n] = synced[n]
      /\ \/ synced'[o] = Len(files'[o]) /\ dropped' = dropped \ {o}
         \/ synced'[o] = Least(synced[o], old[2]) /\ dropped' = dropped
  <2>1. DOMAIN synced = DOMAIN files
    BY <1>1, Zenon DEF SyncOK
  <2> QED BY <1>3, <2>1, ZenonT(40) DEF RollbackTruncate, Override, SyncedAt
<1>7. \A n \in DOMAIN files : /\ n \in Nat /\ files[n] \in Seq(Pieces)
                              /\ synced[n] \in Nat /\ synced[n] <= Len(files[n])
  BY <1>1 DEF FilesOK, SyncOK
<1>8. synced'[o] \in 0..old[2] /\ \A i \in 0..old[2] : i <= synced[o] => i <= synced'[o]
  BY <1>3, <1>4, <1>5, <1>6, <1>7 DEF Least
<1>9. FilesOK(files')
  BY <1>1, <1>4, <1>5, Zenon DEF FilesOK
<1>10. SyncOK(files', synced')
  BY <1>4, <1>5, <1>6, <1>7, <1>8, SMTT(30) DEF SyncOK
<1>11. \A n \in DOMAIN files : n \in Lost => n \in Lost' \/ synced'[n] = Len(files'[n])
  BY <1>2, <1>6, Zenon DEF Lost
<1>12. \A n \in DOMAIN files : n \in Unsynced => n \in Unsynced' \/ synced'[n] = Len(files'[n])
  BY <1>2, <1>11, Zenon DEF Unsynced
<1>13. ASSUME NEW X, NEW Y,
              \A n \in DOMAIN files : n \in X => n \in Y \/ synced'[n] = Len(files'[n])
       PROVE  Carry(files, synced, X, files', synced', Y, old)
  <2>1. ASSUME NEW n \in DOMAIN files, n < o PROVE files'[n] = files[n] /\ synced[n] <= synced'[n]
    BY <1>3, <1>5, <1>6, <1>7, <2>1
  <2>2. ASSUME NEW i \in 0..old[2], i <= Len(files[o])
        PROVE  i <= Len(files'[o]) /\ (i # 0 => files'[o][i] = files[o][i])
    BY <1>3, <1>4, <1>5, <2>2, SMTT(30)
  <2> QED BY <1>5, <1>8, <1>13, <2>1, <2>2, Zenon DEF Carry
<1>14. /\ Shape' /\ LeveldbGood' /\ ViewGood' /\ SnapsGood' /\ TxGood'
       /\ CursorNeverAhead'
  <2>1. /\ Carry(files, synced, Lost, files', synced', Lost', old)
        /\ Carry(files, synced, Unsynced, files', synced', Unsynced', old)
    BY <1>11, <1>12, <1>13, Zenon
  <2> QED BY <1>2, <1>5, <1>9, <1>10, <2>1, RolledBack, Zenon
<1> QED BY <1>0, <1>14, Zenon DEF FileInv

(* A file after the one the rollback goes back to is deleted. *)
LEMMA KeepRollbackDelete == ASSUME FileInv, RollbackDelete PROVE FileInv'
<1>0. DbInv'
  BY NextDb, Zenon DEF Next, FileInv
<1>1. /\ Shape /\ FilesOK(files) /\ SyncOK(files, synced) /\ ViewGood
      /\ wc \in Pos /\ old \in Pos /\ pc = "rollback" /\ Limit = old
      /\ mode \in {"up", "opening"}
  BY InvFacts, Zenon DEF RollbackDelete, Limit, Shape
<1>2. /\ files' = Without(files, {wc[1]}) /\ synced' = Without(synced, {wc[1]})
      /\ dropped' = dropped \ {wc[1]} /\ open' = FALSE
      /\ wc' = <<wc[1] - 1, wc[2]>>
      /\ pc' = IF wc[1] - 1 = old[1] THEN "truncate" ELSE pc
      /\ UNCHANGED <<ldb, cache, mode, old, todo, unit, pend, snap, torn>>
      /\ wc[1] > old[1]
  BY Zenon DEF RollbackDelete, txVars, faultVars
<1>3. /\ wc[1] \in Nat /\ old[1] \in Nat /\ wc' \in Pos /\ wc'[1] = wc[1] - 1
      /\ wc'[1] >= old[1]
  BY <1>1, <1>2 DEF Pos
<1>4. /\ DOMAIN files' = DOMAIN files \ {wc[1]} /\ DOMAIN synced' = DOMAIN synced \ {wc[1]}
      /\ \A n \in DOMAIN files' : files'[n] = files[n]
      /\ \A n \in DOMAIN synced' : synced'[n] = synced[n]
  BY <1>2, Zenon DEF Without
<1>5. FilesOK(files') /\ SyncOK(files', synced')
  <2>1. FilesOK(files')
    <3>1. DOMAIN files' \in SUBSET DOMAIN files
      BY <1>4, Zenon
    <3>2. HasLast(DOMAIN files')
      BY <1>1, <3>1, Zenon DEF FilesOK, HasLast
    <3> QED BY <1>1, <1>4, <3>1, <3>2, Zenon DEF FilesOK
  <2>2. SyncOK(files', synced')
    BY <1>1, <1>4, Zenon DEF SyncOK
  <2> QED BY <2>1, <2>2, Zenon
<1>6. Limit' = Limit /\ ~After(Limit, old) /\ pc' \in {"rollback", "truncate"}
  BY <1>1, <1>2, AfterOrder, Zenon DEF Limit
<1>7. \A n \in DOMAIN files : n <= old[1] =>
        /\ n \in DOMAIN files' /\ files'[n] = files[n] /\ synced'[n] = synced[n]
        /\ n \in Nat /\ synced[n] \in Nat /\ n # wc[1]
  <2>1. DOMAIN synced = DOMAIN files /\ \A n \in DOMAIN files : n \in Nat /\ synced[n] \in Nat
    BY <1>1 DEF FilesOK, SyncOK
  <2>2. \A n \in DOMAIN files : n <= old[1] => n # wc[1]
    BY <1>2, <1>3, <2>1
  <2> QED BY <1>4, <2>1, <2>2, Zenon
<1>8. \A n \in Unsynced : n # wc[1] => n \in Lost' /\ n \in Unsynced'
  BY <1>2, Zenon DEF Unsynced, Lost
<1>9. /\ Carry(files, synced, Lost, files', synced', Lost', old)
      /\ Carry(files, synced, Unsynced, files', synced', Unsynced', old)
  BY <1>7, <1>8, LostUnsynced, SMTT(30) DEF Carry
<1>10. LeveldbGood' /\ ViewGood' /\ SnapsGood'
  BY <1>1, <1>2, <1>5, <1>6, <1>9, FilesMove, Zenon
<1>11. Shape'
  BY <1>1, <1>2, <1>3, <1>5, <1>6, ZenonT(30) DEF Shape
<1>12. TxGood'
  BY <1>1, <1>2, <1>3, <1>6, ZenonT(30) DEF TxGood
<1>13. CursorNeverAhead'
  BY <1>1, <1>2, Zenon DEF CursorNeverAhead
<1> QED BY <1>0, <1>10, <1>11, <1>12, <1>13, Zenon DEF FileInv

-----------------------------------------------------------------------------
(* Where writeBlock writes. *)
LEMMA WriteAtPos ==
  ASSUME FileInv, pc = "write"
  PROVE  /\ moveToNext \in Pos /\ 0..wc[1] \subseteq DOMAIN files
         /\ moveToNext = wc \/ (moveToNext = <<wc[1] + 1, 0>> /\ unit = 0)
         /\ ~After(old, wc) /\ ~After(wc, moveToNext)
<1>1. wc \in Pos /\ old \in Pos /\ TxGood
  BY InvFacts, Zenon
<1>2. ~After(old, wc) /\ PosGood(files, synced, torn, Unsynced, wc)
  BY <1>1, Zenon DEF TxGood
<1>3. 0..wc[1] \subseteq DOMAIN files
  BY <1>2, Zenon DEF PosGood, Held
<1>4. moveToNext = wc \/ (moveToNext = <<wc[1] + 1, 0>> /\ unit = 0)
  BY Zenon DEF moveToNext
<1>5. moveToNext \in Pos /\ ~After(wc, moveToNext)
  BY <1>1, <1>4 DEF Pos, After
<1> QED BY <1>2, <1>3, <1>4, <1>5, Zenon

LEMMA KeepWriteFails == ASSUME FileInv, WriteFails PROVE FileInv'
<1>0. DbInv'
  BY NextDb, Zenon DEF Next, FileInv
<1> DEFINE at == moveToNext
           a == at[1]
<1>1. /\ Shape /\ FilesOK(files) /\ SyncOK(files, synced) /\ ViewGood
      /\ wc \in Pos /\ old \in Pos /\ pc = "write" /\ Limit = old /\ mode = "up"
  BY InvFacts, Zenon DEF WriteFails, Shape
<1>2. /\ at \in Pos /\ ~After(old, wc) /\ ~After(wc, at)
      /\ at = wc \/ at = <<wc[1] + 1, 0>>
  BY <1>1, WriteAtPos, Zenon
<1>3. /\ wc' = at /\ dropped' = (IF at = wc THEN dropped ELSE dropHandle)
      /\ pc' = "rollback"
      /\ UNCHANGED <<ldb, cache, mode, old, todo, unit, pend, snap, torn>>
  BY Zenon DEF WriteFails, txVars, Fault
<1>4. \/ /\ files' = Override(files, [k \in {a} |-> FileAt(a)])
         /\ synced' = Override(synced, [k \in {a} |-> SyncedAt(a)])
         /\ open' = TRUE
      \/ /\ at # wc \/ ~open
         /\ open' = FALSE /\ files' = files /\ synced' = synced
  BY Zenon DEF WriteFails
<1> HIDE DEF at
<1>5. a \in Nat /\ wc[1] \in Nat /\ old[1] \in Nat /\ a >= wc[1] /\ wc[1] >= old[1]
  BY <1>1, <1>2 DEF Pos, After
<1>6. /\ DOMAIN files' \subseteq DOMAIN files \cup {a} /\ DOMAIN files \subseteq DOMAIN files'
      /\ DOMAIN synced' = DOMAIN files' /\ (open' => a \in DOMAIN files')
      /\ \A n \in DOMAIN files : files'[n] = files[n] /\ synced'[n] = synced[n]
      /\ \A n \in DOMAIN files' : n \notin DOMAIN files => files'[n] = <<>> /\ synced'[n] = 0
  <2>1. DOMAIN synced = DOMAIN files
    BY <1>1, Zenon DEF SyncOK
  <2>2. CASE open' = FALSE /\ files' = files /\ synced' = synced
    BY <2>1, <2>2, Zenon
  <2>3. CASE /\ files' = Override(files, [k \in {a} |-> FileAt(a)])
             /\ synced' = Override(synced, [k \in {a} |-> SyncedAt(a)])
    <3>1. /\ DOMAIN files' = DOMAIN files \cup {a} /\ DOMAIN synced' = DOMAIN files \cup {a}
          /\ \A n \in DOMAIN files' : files'[n] = IF n = a THEN FileAt(a) ELSE files[n]
          /\ \A n \in DOMAIN files' : synced'[n] = IF n = a THEN SyncedAt(a) ELSE synced[n]
      BY <2>1, <2>3, Zenon DEF Override
    <3> QED BY <2>1, <3>1, Zenon DEF FileAt, SyncedAt
  <2> QED BY <1>4, <2>2, <2>3, Zenon
<1>7. FilesOK(files')
  <2>1. DOMAIN files \in SUBSET Nat /\ HasLast(DOMAIN files)
    BY <1>1, Zenon DEF FilesOK
  <2>2. \A n \in DOMAIN files : n \in Nat /\ files[n] \in Seq(Pieces)
    BY <1>1, Zenon DEF FilesOK
  <2>3. DOMAIN files' \subseteq Nat /\ HasLast(DOMAIN files')
    BY <1>5, <1>6, <2>1, LastOfMore, Zenon
  <2>4. \A n \in DOMAIN files' : files'[n] \in Seq(Pieces)
    <3>1. <<>> \in Seq(Pieces)
      OBVIOUS
    <3> QED BY <1>6, <2>2, <3>1, Zenon
  <2> QED BY <2>3, <2>4, Zenon DEF FilesOK
<1>8. SyncOK(files', synced')
  BY <1>1, <1>6 DEF SyncOK
<1>9. Lost \subseteq Lost'
  BY <1>1, <1>3, HandleDropped, Zenon DEF Lost
<1>10. \A n \in DOMAIN files : n \in Unsynced => n \in Unsynced' \/ synced[n] = Len(files[n])
  <2>1. ASSUME open PROVE wc[1] \in Unsynced' \/ synced[wc[1]] = Len(files[wc[1]])
    <3>1. CASE at = wc
      BY <1>3, <1>4, <2>1, <3>1, Zenon DEF Unsynced
    <3>2. CASE at # wc
      BY <1>1, <1>3, <2>1, <3>2, HandleDropped, Zenon DEF Unsynced, Lost
    <3> QED BY <3>1, <3>2, Zenon
  <2> QED BY <1>9, <2>1, Zenon DEF Unsynced
<1>11. /\ Carry(files, synced, Lost, files', synced', Lost', old)
       /\ Carry(files, synced, Unsynced, files', synced', Unsynced', old)
  <2>1. \A n \in DOMAIN files : n \in Nat /\ synced[n] \in Nat
    BY <1>1 DEF FilesOK, SyncOK
  <2> QED BY <1>6, <1>9, <1>10, <2>1 DEF Carry
<1>12. Limit' = Limit /\ ~After(Limit, old)
  BY <1>1, <1>3, AfterOrder, Zenon DEF Limit
<1>13. LeveldbGood' /\ ViewGood' /\ SnapsGood'
  BY <1>1, <1>3, <1>7, <1>8, <1>11, <1>12, FilesMove, Zenon
<1>14. Shape'
  BY <1>1, <1>2, <1>3, <1>6, <1>7, <1>8, ZenonT(30) DEF Shape
<1>15. TxGood' /\ CursorNeverAhead'
  <2>1. wc'[1] >= old'[1]
    BY <1>3, <1>5, SMTT(30)
  <2> QED BY <1>1, <1>3, <2>1, ZenonT(30) DEF TxGood, CursorNeverAhead
<1> QED BY <1>0, <1>13, <1>14, <1>15, Zenon DEF FileInv

(* The piece is written at the cursor, or at the start of the next file,   *)
(* and what is before it stays.                                            *)
LEMMA PieceWritten ==
  ASSUME FileInv, WriteData
  PROVE  LET at == moveToNext
             a == at[1]
         IN  /\ FilesOK(files') /\ SyncOK(files', synced')
             /\ DOMAIN files' = DOMAIN files \cup {a}
             /\ Head(todo) \in Blocks /\ at[2] + 1 <= Len(files'[a])
             /\ files'[a][at[2] + 1] = <<Head(todo), unit + 1>>
             /\ \A n \in DOMAIN files : n # a => files'[n] = files[n] /\ synced'[n] = synced[n]
             /\ a \in DOMAIN files => \A i \in 0..at[2] :
                  /\ i <= Len(files[a]) =>
                       i <= Len(files'[a]) /\ (i # 0 => files'[a][i] = files[a][i])
                  /\ i <= synced[a] => i <= synced'[a]
<1> DEFINE at == moveToNext
           a == at[1]
           b == Head(todo)
           w == WriteAt(FileAt(a), at[2], <<b, unit + 1>>)
<1>1. /\ DbInv /\ FilesOK(files) /\ SyncOK(files, synced) /\ pc = "write"
      /\ unit \in Nat /\ unit < Units /\ Units \in Nat \ {0}
  BY InvFacts, DbAssumption, Zenon DEF WriteData, Shape
<1>2. at \in Pos /\ a \in Nat /\ at[2] \in Nat
  BY <1>1, WriteAtPos, Zenon DEF Pos
<1>3. b \in Blocks
  <2>1. todo # <<>> /\ todo \in Seq(Blocks)
    BY <1>1, Zenon DEF WriteData, DbInv
  <2> QED BY <2>1, RangeHeadTail, Zenon
<1>4. Record(b)[unit + 1] = <<b, unit + 1>> /\ <<b, unit + 1>> \in Pieces
  BY <1>1, <1>3 DEF Record, Pieces
<1>5. /\ files' = Override(files, [k \in {a} |-> w])
      /\ synced' = Override(synced, [k \in {a} |-> Least(SyncedAt(a), at[2])])
  BY <1>4, Zenon DEF WriteData
<1>0. at = moveToNext /\ a = at[1] /\ b = Head(todo)
  BY Zenon
<1> HIDE DEF at, a, b
<1>6. /\ DOMAIN synced = DOMAIN files /\ DOMAIN files \in SUBSET Nat /\ HasLast(DOMAIN files)
      /\ \A n \in DOMAIN files : /\ files[n] \in Seq(Pieces) /\ Len(files[n]) \in Nat
                                 /\ synced[n] \in 0..Len(files[n])
  BY <1>1 DEF FilesOK, SyncOK
<1>7. FileAt(a) \in Seq(Pieces) /\ SyncedAt(a) \in Nat
  <2>1. <<>> \in Seq(Pieces)
    OBVIOUS
  <2> QED BY <1>6, <2>1 DEF FileAt, SyncedAt
<1>8. /\ w \in Seq(Pieces) /\ Len(w) >= at[2] + 1
      /\ w[at[2] + 1] = <<b, unit + 1>>
      /\ \A i \in 1..at[2] : i <= Len(FileAt(a)) => w[i] = FileAt(a)[i]
  BY <1>2, <1>4, <1>7, WriteAtFacts, ZenonT(40)
<1> HIDE DEF w
<1>9. Len(w) \in Nat
  BY <1>8
<1>10. /\ DOMAIN files' = DOMAIN files \cup {a} /\ DOMAIN synced' = DOMAIN files \cup {a}
       /\ files'[a] = w /\ synced'[a] = Least(SyncedAt(a), at[2])
       /\ \A n \in DOMAIN files : n # a => files'[n] = files[n] /\ synced'[n] = synced[n]
  BY <1>5, <1>6, Zenon DEF Override
<1>11. synced'[a] \in 0..Len(w)
  BY <1>2, <1>7, <1>8, <1>9, <1>10, SMTT(30) DEF Least
<1>12. FilesOK(files')
  <2>1. DOMAIN files' \subseteq Nat /\ HasLast(DOMAIN files')
    BY <1>2, <1>6, <1>10, LastOfMore, Zenon
  <2>2. \A n \in DOMAIN files' : files'[n] \in Seq(Pieces)
    BY <1>6, <1>8, <1>10, Zenon
  <2> QED BY <2>1, <2>2, Zenon DEF FilesOK
<1>13. SyncOK(files', synced')
  BY <1>6, <1>10, <1>11, Zenon DEF SyncOK
<1>14. ASSUME a \in DOMAIN files, NEW i \in 0..at[2]
       PROVE  /\ i <= Len(files[a]) => i <= Len(w) /\ (i # 0 => w[i] = files[a][i])
              /\ i <= synced[a] => i <= synced'[a]
  <2>1. FileAt(a) = files[a] /\ SyncedAt(a) = synced[a]
    BY <1>6, <1>14, Zenon DEF FileAt, SyncedAt
  <2>2. i <= Len(w) /\ (i # 0 => i \in 1..at[2])
    BY <1>2, <1>8, <1>9, SMTT(30)
  <2>3. i <= synced[a] => i <= synced'[a]
    BY <1>2, <1>7, <1>10, <2>1 DEF Least
  <2> QED BY <1>8, <2>1, <2>2, <2>3, Zenon
<1> QED BY <1>0, <1>3, <1>8, <1>10, <1>12, <1>13, <1>14, Zenon

(* So it carries over whatever is before the cursor. *)
LEMMA PieceCarry ==
  ASSUME FileInv, WriteData
  PROVE  /\ Carry(files, synced, Lost, files', synced', Lost', wc)
         /\ Carry(files, synced, Unsynced, files', synced', Unsynced', wc)
         /\ torn \subseteq Unsynced' /\ moveToNext[1] \in Unsynced'
<1> DEFINE at == moveToNext
           a == at[1]
<1>1. /\ Shape /\ FilesOK(files) /\ SyncOK(files, synced) /\ wc \in Pos /\ pc = "write"
  BY InvFacts, ZenonT(30) DEF WriteData, Shape
<1>2. /\ at \in Pos /\ 0..wc[1] \subseteq DOMAIN files
      /\ at = wc \/ at = <<wc[1] + 1, 0>>
  BY <1>1, WriteAtPos, Zenon
<1>3. /\ dropped' = (IF at = wc THEN dropped ELSE dropHandle)
      /\ wc'[1] = a /\ open' = TRUE /\ torn' = torn
  BY Zenon DEF WriteData, faultVars
<1>0. at = moveToNext /\ a = at[1]
  BY Zenon
<1>4. /\ DOMAIN files' = DOMAIN files \cup {a}
      /\ \A n \in DOMAIN files : n # a => files'[n] = files[n] /\ synced'[n] = synced[n]
      /\ a \in DOMAIN files => \A i \in 0..at[2] :
           /\ i <= Len(files[a]) =>
                i <= Len(files'[a]) /\ (i # 0 => files'[a][i] = files[a][i])
           /\ i <= synced[a] => i <= synced'[a]
  BY PieceWritten, Zenon
<1> HIDE DEF at, a
<1>5. /\ wc[1] \in Nat /\ wc[2] \in Nat /\ (a = wc[1] => at = wc)
      /\ \A n \in DOMAIN files : n \in Nat /\ synced[n] \in Nat /\ (n < wc[1] => n # a)
  BY <1>0, <1>1, <1>2 DEF Pos, FilesOK, SyncOK
<1>6. Lost \subseteq Lost' /\ a \in Unsynced' /\ torn \subseteq Unsynced' /\ Lost' \subseteq Unsynced'
  BY <1>1, <1>3, HandleDropped, Zenon DEF Lost, Unsynced
<1>7. \A n \in DOMAIN files : n \in Unsynced => n \in Unsynced' \/ synced'[n] = Len(files'[n])
  <2>1. ASSUME open, wc[1] \notin Unsynced' PROVE synced'[wc[1]] = Len(files'[wc[1]])
    <3>1. at # wc /\ wc[1] # a
      BY <1>0, <1>6, <2>1, Zenon
    <3>2. wc[1] \notin dropHandle
      BY <1>3, <2>1, <3>1, Zenon DEF Unsynced, Lost
    <3>3. wc[1] \in DOMAIN files /\ synced[wc[1]] = Len(files[wc[1]])
      BY <1>1, <2>1, <3>2, HandleDropped, Zenon DEF Shape
    <3> QED BY <1>4, <3>1, <3>3, Zenon
  <2> QED BY <1>6, <2>1, Zenon DEF Unsynced
<1>8. ASSUME NEW X, NEW Y,
             \A n \in DOMAIN files : n \in X => n \in Y \/ synced'[n] = Len(files'[n])
      PROVE  Carry(files, synced, X, files', synced', Y, wc)
  <2>1. ASSUME NEW n \in DOMAIN files, n < wc[1]
        PROVE  files'[n] = files[n] /\ synced[n] <= synced'[n]
    BY <1>4, <1>5, <2>1, SMTT(30)
  <2>2. ASSUME NEW n \in DOMAIN files, n = wc[1], NEW i \in 0..wc[2]
        PROVE  /\ i <= synced[n] => i <= synced'[n]
               /\ i <= Len(files[n]) =>
                    i <= Len(files'[n]) /\ (i # 0 => files'[n][i] = files[n][i])
    <3>1. CASE n = a
      BY <1>4, <1>5, <2>2, <3>1, Zenon
    <3>2. CASE n # a
      BY <1>4, <3>2, Zenon
    <3> QED BY <3>1, <3>2, Zenon
  <2> QED BY <1>4, <1>8, <2>1, <2>2, Zenon DEF Carry
<1>9. Carry(files, synced, Lost, files', synced', Lost', wc)
  <2>1. \A n \in DOMAIN files : n \in Lost => n \in Lost' \/ synced'[n] = Len(files'[n])
    BY <1>6, Zenon
  <2> QED BY <1>8, <2>1, Zenon
<1>10. Carry(files, synced, Unsynced, files', synced', Unsynced', wc)
  BY <1>7, <1>8, Zenon
<1> QED BY <1>0, <1>6, <1>9, <1>10, Zenon

(* With it, one more unit of the record being written is in the file. *)
LEMMA PieceOfRecord ==
  ASSUME FileInv, WriteData
  PROVE  /\ unit <= moveToNext[2]
         /\ \A i \in 1..(unit + 1) :
              files'[moveToNext[1]][moveToNext[2] - unit + i] = <<Head(todo), i>>
<1> DEFINE at == moveToNext
           a == at[1]
           b == Head(todo)
<1>1. /\ TxGood /\ FilesOK(files) /\ wc \in Pos /\ pc = "write" /\ unit \in Nat
  BY InvFacts, ZenonT(30) DEF WriteData, Shape
<1>2. /\ at \in Pos /\ 0..wc[1] \subseteq DOMAIN files
      /\ at = wc \/ (at = <<wc[1] + 1, 0>> /\ unit = 0)
  BY <1>1, WriteAtPos, Zenon
<1>3. /\ files'[a][at[2] + 1] = <<b, unit + 1>>
      /\ a \in DOMAIN files => \A i \in 0..at[2] : i <= Len(files[a]) =>
           i <= Len(files'[a]) /\ (i # 0 => files'[a][i] = files[a][i])
  BY PieceWritten, ZenonT(30)
<1>4. at = moveToNext /\ a = at[1] /\ b = Head(todo)
  BY Zenon
<1> HIDE DEF at, a, b
<1>5. at[2] \in Nat /\ wc[1] \in Nat /\ wc[2] \in Nat
  BY <1>1, <1>2, Zenon DEF Pos
<1>6. at[2] - unit + (unit + 1) = at[2] + 1 /\ \A i \in 1..(unit + 1) : i \in 1..unit \/ i = unit + 1
  BY <1>1, <1>5, SMTT(30)
<1>7. CASE unit = 0
  <2>1. \A i \in 1..(unit + 1) : i = unit + 1 /\ at[2] - unit + i = at[2] + 1
    BY <1>5, <1>7
  <2> QED BY <1>3, <1>4, <1>5, <1>7, <2>1, SMTT(30)
<1>8. CASE unit # 0
  <2>1. /\ at = wc /\ unit <= wc[2] /\ wc[2] <= Len(files[wc[1]])
        /\ \A i \in 1..unit : files[wc[1]][wc[2] - unit + i] = <<b, i>>
    <3>1. unit > 0
      BY <1>1, <1>8, SMTT(30)
    <3> QED BY <1>1, <1>2, <1>4, <1>8, <3>1, ZenonT(30) DEF TxGood, PartWritten
  <2>2. a \in DOMAIN files /\ a = wc[1] /\ Len(files[a]) \in Nat
    BY <1>1, <1>2, <1>4, <1>5, <2>1 DEF FilesOK
  <2>3. ASSUME NEW i \in 1..unit PROVE files'[a][at[2] - unit + i] = <<b, i>>
    <3>1. /\ at[2] - unit + i \in 0..at[2] /\ at[2] - unit + i # 0
          /\ at[2] - unit + i <= Len(files[a])
      BY <1>1, <1>5, <2>1, <2>2, SMTT(30)
    <3>2. files[a][at[2] - unit + i] = <<b, i>>
      BY <2>1, <2>2, Zenon
    <3> QED BY <1>3, <2>2, <3>1, <3>2, Zenon
  <2> QED BY <1>3, <1>4, <1>6, <2>1, <2>3, Zenon
<1> QED BY <1>7, <1>8, Zenon

(* writeBlock writes at the cursor, or at the start of the next file. *)
LEMMA KeepWriteData == ASSUME FileInv, WriteData PROVE FileInv'
<1>0. DbInv'
  BY NextDb, Zenon DEF Next, FileInv
<1> DEFINE at == moveToNext
           a == at[1]
           b == Head(todo)
<1>1. /\ DbInv /\ Shape /\ FilesOK(files) /\ SyncOK(files, synced) /\ ViewGood /\ TxGood
      /\ wc \in Pos /\ old \in Pos /\ pc = "write" /\ Limit = old /\ mode = "up"
      /\ unit \in Nat /\ unit < Units /\ Units \in Nat \ {0}
  BY InvFacts, DbAssumption, ZenonT(30) DEF WriteData, Shape
<1>2. /\ at \in Pos /\ ~After(old, wc) /\ ~After(wc, at)
      /\ at = wc \/ (at = <<wc[1] + 1, 0>> /\ unit = 0)
      /\ 0..wc[1] \subseteq DOMAIN files
  BY <1>1, WriteAtPos, Zenon
<1>3. /\ FilesOK(files') /\ SyncOK(files', synced')
      /\ DOMAIN files' = DOMAIN files \cup {a} /\ b \in Blocks
      /\ at[2] + 1 <= Len(files'[a])
  BY PieceWritten, ZenonT(30)
<1>4. /\ Carry(files, synced, Lost, files', synced', Lost', wc)
      /\ Carry(files, synced, Unsynced, files', synced', Unsynced', wc)
      /\ torn \subseteq Unsynced' /\ a \in Unsynced'
  BY PieceCarry, Zenon
<1>5. /\ unit <= at[2]
      /\ \A i \in 1..(unit + 1) : files'[a][at[2] - unit + i] = <<b, i>>
  BY PieceOfRecord, Zenon
<1>6. /\ wc' = <<a, at[2] + 1>> /\ open' = TRUE
      /\ UNCHANGED <<ldb, cache, mode, pc, old, snap, torn>>
      /\ \/ /\ unit + 1 = Units /\ unit' = 0 /\ todo' = Tail(todo)
            /\ pend' = putKey(pend, b, <<a, at[2] - unit>>)
         \/ unit + 1 # Units /\ unit' = unit + 1 /\ pend' = pend /\ todo' = todo
  BY Zenon DEF WriteData, faultVars
<1>7. a = at[1] /\ b = Head(todo)
  BY Zenon
<1> HIDE DEF at, a, b
<1>8. /\ a \in Nat /\ at[2] \in Nat /\ wc[1] \in Nat /\ wc[2] \in Nat
      /\ wc' \in Pos /\ wc'[1] = a /\ wc'[2] = at[2] + 1
      /\ a = wc[1] \/ a = wc[1] + 1
  BY <1>1, <1>2, <1>6, <1>7, SMTT(30) DEF Pos
<1>9. LeveldbGood' /\ ViewGood' /\ SnapsGood'
  <2>1. Limit' = Limit
    BY <1>1, <1>6, Zenon DEF Limit
  <2> QED BY <1>1, <1>2, <1>3, <1>4, <1>6, <2>1, FilesMove, Zenon
<1>10. wc'[1] \in DOMAIN files' /\ ~After(wc, wc') /\ ~After(old, wc')
  <2>1. ~After(wc, wc')
    BY <1>1, <1>2, <1>7, <1>8, SMTT(30) DEF Pos, After
  <2> QED BY <1>1, <1>2, <1>3, <1>8, <2>1, AfterOrder, Zenon
<1>11. PosGood(files', synced', torn, Unsynced', wc')
  <2>1. 0..a \subseteq DOMAIN files'
    BY <1>2, <1>3, <1>8, SMTT(30)
  <2> QED BY <1>3, <1>4, <1>8, <2>1, Zenon DEF PosGood, Held, Synced
<1>12. Good(files', synced', torn, Unsynced', pend.keys, wc')
  <2>1. Good(files, synced, torn, Unsynced, pend.keys, wc) /\ ~After(wc, wc)
    BY <1>1, AfterOrder, ZenonT(30) DEF TxGood
  <2>2. Good(files', synced', torn, Unsynced', pend.keys, wc)
    BY <1>1, <1>3, <1>4, <2>1, GoodCarry, Zenon
  <2> QED BY <1>1, <1>8, <1>10, <2>2, GoodMore, Zenon
<1>13. CASE unit + 1 = Units
  <2> DEFINE loc == <<a, at[2] - unit>>
             n == [k \in {b} |-> loc]
  <2>1. pend' = putKey(pend, b, loc) /\ unit' = 0
    BY <1>6, <1>13, Zenon
  <2>2. loc \in Pos /\ loc[1] = a /\ loc[2] = at[2] - unit /\ loc[2] + Units = at[2] + 1
    BY <1>1, <1>5, <1>8, <1>13 DEF Pos
  <2> HIDE DEF loc
  <2>3. RecordAt(files', b, loc)
    BY <1>3, <1>5, <1>13, <2>2, Zenon DEF RecordAt
  <2>4. b # Cursor /\ Reach(b, loc) = wc'
    BY <1>3, <1>6, <2>2, DbAssumption, Zenon DEF Reach
  <2>5. Good(files', synced', torn, Unsynced', n, wc')
    BY <1>8, <1>11, <2>2, <2>3, <2>4, AfterOrder, Zenon DEF Good
  <2>6. DOMAIN pend'.keys = DOMAIN pend.keys \cup {b} /\ pend'.removed = pend.removed \ {b}
    BY <2>1, PutKeyDomain, Zenon
  <2>7. \A k \in DOMAIN pend'.keys : \/ k \in DOMAIN pend.keys /\ pend'.keys[k] = pend.keys[k]
                                     \/ k \in DOMAIN n /\ pend'.keys[k] = n[k]
    BY <2>1, <2>6, PutKeyValue
  <2> HIDE DEF n
  <2>8. Good(files', synced', torn, Unsynced', pend'.keys, wc')
    BY <1>12, <2>5, <2>7, GoodOverlay, ZenonT(40)
  <2>9. /\ DOMAIN pend'.keys \cup pend'.removed \subseteq Blocks \cup {App, Cursor}
        /\ DOMAIN pend'.keys \cap pend'.removed = {}
    BY <1>1, <1>3, <2>6, Zenon DEF Shape
  <2>10. Shape'
    <3>1. unit' \in Nat /\ unit' < Units
      BY <1>1, <2>1
    <3> QED BY <1>1, <1>3, <1>6, <1>8, <1>10, <2>9, <3>1, ZenonT(30) DEF Shape
  <2>11. TxGood' /\ CursorNeverAhead'
    <3>1. ~(unit' > 0)
      BY <2>1
    <3> QED BY <1>1, <1>6, <1>10, <1>11, <2>8, <3>1, ZenonT(30) DEF TxGood, PartWritten, CursorNeverAhead
  <2> QED BY <1>0, <1>9, <2>10, <2>11, Zenon DEF FileInv
<1>14. CASE unit + 1 # Units
  <2>1. unit' = unit + 1 /\ pend' = pend /\ todo' = todo
    BY <1>6, <1>14, Zenon
  <2>2. unit' \in Nat /\ unit' < Units
    BY <1>1, <1>14, <2>1, SMTT(30)
  <2>3. Shape'
    BY <1>1, <1>3, <1>6, <1>8, <1>10, <2>1, <2>2, ZenonT(30) DEF Shape
  <2>4. PartWritten'
    <3>1. unit' <= wc'[2] /\ wc'[2] <= Len(files'[wc'[1]])
      BY <1>1, <1>3, <1>5, <1>8, <2>1
    <3>2. ASSUME NEW i \in 1..unit' PROVE files'[wc'[1]][wc'[2] - unit' + i] = <<b, i>>
      <4>1. wc'[2] - unit' + i = at[2] - unit + i
        BY <1>1, <1>8, <2>1, <2>2, SMTT(30)
      <4> QED BY <1>5, <1>8, <2>1, <4>1, Zenon
    <3> QED BY <1>7, <2>1, <3>1, <3>2, Zenon DEF PartWritten
  <2>5. TxGood' /\ CursorNeverAhead'
    BY <1>1, <1>6, <1>10, <1>11, <1>12, <2>1, <2>4, ZenonT(30) DEF TxGood, CursorNeverAhead
  <2> QED BY <1>0, <1>9, <2>3, <2>5, Zenon DEF FileInv
<1> QED BY <1>13, <1>14, Zenon

-----------------------------------------------------------------------------
(* The steps of the metadata, and the theorems. *)

(* The steps of the metadata leave the files and the cursor alone. *)
LEMMA SameFiles ==
  ASSUME UNCHANGED <<fileVars, torn>>
  PROVE  /\ files' = files /\ synced' = synced /\ wc' = wc /\ open' = open
         /\ torn' = torn /\ Lost' = Lost /\ Unsynced' = Unsynced
BY Zenon DEF fileVars, Lost, Unsynced

(* What the callers may ask for besides blocks. *)
LEMMA AppChanges ==
  ASSUME NEW p \in appChanges
  PROVE  /\ DOMAIN p.keys \subseteq {App} /\ p.removed \subseteq {App}
         /\ DOMAIN p.keys \cap p.removed = {}
<1>1. /\ deleteKey(NoChange, App).removed = NoChange.removed \cup {App}
      /\ DOMAIN deleteKey(NoChange, App).keys = DOMAIN NoChange.keys \ {App}
  BY Zenon DEF deleteKey, Without
<1>2. /\ putKey(NoChange, App, TRUE).removed = NoChange.removed \ {App}
      /\ DOMAIN putKey(NoChange, App, TRUE).keys = DOMAIN NoChange.keys \cup {App}
  BY PutKeyDomain, Zenon
<1> QED BY <1>1, <1>2, NoChangeDomain, Zenon DEF appChanges

LEMMA KeepBegin == ASSUME FileInv, Begin PROVE FileInv'
<1>0. DbInv'
  BY NextDb, Zenon DEF Next, FileInv
<1>1. /\ Shape /\ LeveldbGood /\ ViewGood /\ SnapsGood /\ wc \in Pos /\ Limit = wc
      /\ mode = "up" /\ pc = "idle"
  BY InvFacts, Zenon DEF Begin, Limit
<1>2. /\ pc' = "write" /\ old' = wc /\ unit' = 0
      /\ UNCHANGED <<fileVars, ldb, cache, mode, snap, torn>>
  BY Zenon DEF Begin, savedCursor, faultVars
<1>3. /\ files' = files /\ synced' = synced /\ wc' = wc /\ open' = open
      /\ torn' = torn /\ Lost' = Lost /\ Unsynced' = Unsynced
      /\ Limit' = Limit /\ View' = View
  BY <1>1, <1>2, SameFiles, Zenon DEF Limit, View
<1>4. pend' \in appChanges
  BY Zenon DEF Begin
<1>5. /\ DOMAIN pend'.keys \subseteq {App} /\ pend'.removed \subseteq {App}
      /\ DOMAIN pend'.keys \cap pend'.removed = {}
  BY <1>4, AppChanges, Zenon
<1>6. Shape'
  BY <1>1, <1>2, <1>3, <1>5, DbAssumption, SMTT(30) DEF Shape
<1>7. LeveldbGood' /\ ViewGood' /\ SnapsGood' /\ CursorNeverAhead'
  BY <1>1, <1>2, <1>3, Zenon DEF LeveldbGood, ViewGood, SnapsGood, CursorNeverAhead
<1>8. TxGood'
  <2>1. Good(files, synced, torn, Unsynced, pend'.keys, wc)
    BY <1>5, DbAssumption, Zenon DEF Good, FileKeys
  <2>2. PosGood(files, synced, torn, Unsynced, wc) /\ ~After(wc, wc)
    BY <1>1, AfterOrder, Zenon DEF ViewGood
  <2> QED BY <1>2, <1>3, <2>1, <2>2 DEF TxGood, PartWritten
<1> QED BY <1>0, <1>6, <1>7, <1>8, Zenon DEF FileInv

-----------------------------------------------------------------------------
(* The end of a transaction that goes no further than it wrote: nothing of *)
(* it is left but the cursor.                                              *)
LEMMA TxClosed ==
  ASSUME FileInv, mode = "up", CloseTx, UNCHANGED <<fileVars, torn, mode, snap>>,
         ~After(Limit, wc),
         DOMAIN cache'.keys \cup cache'.removed \subseteq Blocks \cup {App, Cursor},
         DOMAIN cache'.keys \cap cache'.removed = {}
  PROVE  Shape' /\ SnapsGood' /\ TxGood' /\ CursorNeverAhead' /\ Limit' = wc
<1>1. Shape /\ SnapsGood /\ CursorNeverAhead /\ wc \in Pos /\ Limit \in Pos
  BY InvFacts, Zenon
<1>2. /\ files' = files /\ synced' = synced /\ wc' = wc /\ open' = open
      /\ torn' = torn /\ Lost' = Lost /\ Unsynced' = Unsynced
  BY SameFiles, Zenon
<1>3. /\ pc' = "idle" /\ old' = <<0, 0>> /\ unit' = 0
      /\ DOMAIN pend'.keys = {} /\ pend'.removed = {}
  BY NoChangeDomain, Zenon DEF CloseTx
<1>4. Limit' = wc
  BY <1>2, <1>3, Zenon DEF Limit
<1>5. Shape'
  <2>1. old' \in Pos
    BY <1>3, Zenon DEF Pos
  <2> QED BY <1>1, <1>2, <1>3, <2>1, DbAssumption DEF Shape
<1>6. SnapsGood'
  <2>1. ASSUME NEW r \in Readers, snap[r].at # "none"
        PROVE  Good(files, synced, torn, Unsynced, snap[r].map, wc)
    <3>1. Good(files, synced, torn, Unsynced, snap[r].map, Limit)
      BY <1>1, <2>1, Zenon DEF SnapsGood
    <3> QED BY <1>1, <3>1, GoodMore, Zenon
  <2> QED BY <1>1, <1>2, <1>4, <2>1, Zenon DEF SnapsGood
<1>7. TxGood'
  BY <1>3, Zenon DEF TxGood
<1>8. CursorNeverAhead'
  BY Zenon DEF CursorNeverAhead
<1> QED BY <1>4, <1>5, <1>6, <1>7, <1>8, Zenon

(* What transactions see once the cache took the changes of one. *)
LEMMA CommitView ==
  ASSUME NEW m, NEW c, NEW p, p.removed \subseteq {App}, c.removed \subseteq {App},
         NEW k \in DOMAIN applied(m, commitTx(c, p)), k # App
  PROVE  \/ k \in DOMAIN p.keys /\ applied(m, commitTx(c, p))[k] = p.keys[k]
         \/ /\ k \notin DOMAIN p.keys /\ k \in DOMAIN applied(m, c)
            /\ applied(m, commitTx(c, p))[k] = applied(m, c)[k]
BY Zenon DEF applied, commitTx, Without, Override

(* commitTx puts the cursor with the keys of the transaction. *)
LEMMA WithCursor ==
  ASSUME NEW fs, NEW sy, NEW cut, NEW X, wc \in Pos,
         PosGood(fs, sy, cut, X, wc), Good(fs, sy, cut, X, pend.keys, wc)
  PROVE  /\ Cursor \in DOMAIN withCursor.keys /\ withCursor.keys[Cursor] = wc
         /\ Good(fs, sy, cut, X, withCursor.keys, wc)
<1>1. /\ DOMAIN withCursor.keys = DOMAIN pend.keys \cup {Cursor}
      /\ \A k \in DOMAIN withCursor.keys :
           withCursor.keys[k] = IF k = Cursor THEN wc ELSE pend.keys[k]
  BY PutKeyDomain, PutKeyValue DEF withCursor
<1> DEFINE n == [k \in {Cursor} |-> wc]
<1>2. Good(fs, sy, cut, X, n, wc)
  BY AfterOrder, Zenon DEF Good, Reach
<1>3. \A k \in DOMAIN withCursor.keys \cap FileKeys :
        \/ k \in DOMAIN pend.keys /\ withCursor.keys[k] = pend.keys[k]
        \/ k \in DOMAIN n /\ withCursor.keys[k] = n[k]
  BY <1>1, Zenon
<1> HIDE DEF n
<1>4. Good(fs, sy, cut, X, withCursor.keys, wc)
  BY <1>2, <1>3, GoodOverlay, Zenon
<1> QED BY <1>1, <1>4, Zenon

LEMMA KeepCommitToCache == ASSUME FileInv, CommitToCache PROVE FileInv'
<1>0. DbInv'
  BY NextDb, Zenon DEF Next, FileInv
<1>1. /\ DbInv /\ Shape /\ LeveldbGood /\ ViewGood /\ TxGood
      /\ wc \in Pos /\ old \in Pos /\ ldb[Cursor] \in Pos /\ View[Cursor] \in Pos
      /\ mode = "up" /\ Limit = old /\ pc = "write"
      /\ ~After(ldb[Cursor], Limit) /\ ~After(View[Cursor], Limit)
      /\ Cursor \in DOMAIN ldb /\ Cursor \in DOMAIN View
  BY InvFacts, Zenon DEF CommitToCache
<1>2. /\ CloseTx /\ UNCHANGED <<fileVars, torn, mode, snap>> /\ ldb' = ldb
      /\ cache' = commitTx(cache, withCursor)
  BY Zenon DEF CommitToCache, faultVars
<1>3. /\ files' = files /\ synced' = synced /\ wc' = wc /\ open' = open
      /\ torn' = torn /\ Lost' = Lost /\ Unsynced' = Unsynced
  BY <1>2, SameFiles, Zenon
<1>4. /\ ~After(old, wc) /\ PosGood(files, synced, torn, Unsynced, wc)
      /\ Good(files, synced, torn, Unsynced, pend.keys, wc)
  BY <1>1, Zenon DEF TxGood
<1>5. /\ Cursor \in DOMAIN withCursor.keys /\ withCursor.keys[Cursor] = wc
      /\ Good(files, synced, torn, Unsynced, withCursor.keys, wc)
  BY <1>1, <1>4, WithCursor, Zenon
<1>6. /\ DOMAIN withCursor.keys = DOMAIN pend.keys \cup {Cursor}
      /\ withCursor.removed = pend.removed \ {Cursor}
  BY PutKeyDomain, Zenon DEF withCursor
<1>7. /\ DOMAIN cache'.keys \cup cache'.removed \subseteq Blocks \cup {App, Cursor}
      /\ DOMAIN cache'.keys \cap cache'.removed = {}
  <2>1. /\ DOMAIN cache'.keys =
             (DOMAIN cache.keys \cup DOMAIN withCursor.keys) \ withCursor.removed
        /\ cache'.removed = (cache.removed \ DOMAIN withCursor.keys) \cup withCursor.removed
    BY <1>2, CommitTxDomain, Zenon
  <2> QED BY <1>1, <1>6, <2>1, Zenon DEF Shape
<1>8. Shape' /\ SnapsGood' /\ TxGood' /\ CursorNeverAhead' /\ Limit' = wc
  BY <1>1, <1>2, <1>4, <1>7, TxClosed, Zenon
<1>9. LeveldbGood'
  BY <1>1, <1>2, <1>3, Zenon DEF LeveldbGood
<1>10. ViewGood'
  <2>1. View' = applied(ldb, commitTx(cache, withCursor))
    BY <1>2, Zenon DEF View
  <2>2. withCursor.removed \subseteq {App} /\ cache.removed \subseteq {App}
    BY <1>1, <1>6, Zenon DEF DbInv
  <2>3. ASSUME NEW k \in DOMAIN View', k # App
        PROVE  \/ k \in DOMAIN withCursor.keys /\ View'[k] = withCursor.keys[k]
               \/ k \notin DOMAIN withCursor.keys /\ k \in DOMAIN View /\ View'[k] = View[k]
    BY <2>1, <2>2, <2>3, CommitView, SMTT(30) DEF View
  <2>4. ~After(View[Cursor], wc) /\ ~After(ldb[Cursor], wc) /\ ~After(wc, wc)
    BY <1>1, <1>4, AfterOrder, Zenon
  <2>5. Good(files, synced, torn, Unsynced, View, wc)
    BY <1>1, <2>4, GoodMore, Zenon DEF ViewGood
  <2>6. \A k \in FileKeys : k # App
    BY DbAssumption, Zenon DEF FileKeys
  <2>7. Good(files, synced, torn, Unsynced, View', wc)
    BY <1>5, <2>3, <2>5, <2>6, GoodOverlay, ZenonT(40)
  <2>8. Cursor \in DOMAIN View'
    <3>1. DOMAIN View' = (DOMAIN ldb \cup DOMAIN cache'.keys) \ cache'.removed
      BY <1>2, <2>1, AppliedDomain, Zenon
    <3>2. cache'.removed \subseteq {App}
      BY <1>0, Zenon DEF DbInv
    <3> QED BY <1>1, <3>1, <3>2, DbAssumption, Zenon
  <2>9. View'[Cursor] = wc
    BY <1>5, <2>3, <2>8, DbAssumption, Zenon
  <2> QED BY <1>2, <1>3, <1>4, <1>8, <2>4, <2>7, <2>9, Zenon DEF ViewGood
<1> QED BY <1>0, <1>8, <1>9, <1>10, Zenon DEF FileInv

(* The flush writes to leveldb what transactions see. *)
LEMMA KeepFlushCache == ASSUME FileInv, FlushCache PROVE FileInv'
<1>0. DbInv'
  BY NextDb, Zenon DEF Next, FileInv
<1>1. /\ DbInv /\ Shape /\ ViewGood /\ SnapsGood /\ TxGood
      /\ View[Cursor] \in Pos /\ Cursor \in DOMAIN View
      /\ mode = "up" /\ Limit = old /\ pc = "flush"
  BY InvFacts, Zenon DEF FlushCache
<1>2. /\ ldb' = View /\ pc' = "clear"
      /\ UNCHANGED <<fileVars, torn, cache, mode, txVars, snap>>
  BY Zenon DEF FlushCache, faultVars
<1>3. /\ files' = files /\ synced' = synced /\ wc' = wc /\ open' = open
      /\ torn' = torn /\ Lost' = Lost /\ Unsynced' = Unsynced
  BY <1>2, SameFiles, Zenon
<1>4. old' = old /\ todo' = todo /\ unit' = unit /\ pend' = pend /\ Limit' = Limit
  BY <1>1, <1>2, Zenon DEF txVars, Limit
<1>5. View' = View
  BY <1>2, AppliedTwice, Zenon DEF View
<1>6. Shape'
  BY <1>1, <1>2, <1>3, <1>4, Zenon DEF Shape
<1>7. LeveldbGood'
  BY <1>1, <1>2, <1>3, Zenon DEF LeveldbGood, TxGood
<1>8. ViewGood'
  <2>1. ~After(View[Cursor], View[Cursor])
    BY <1>1, AfterOrder, Zenon
  <2> QED BY <1>1, <1>2, <1>3, <1>4, <1>5, <2>1, Zenon DEF ViewGood
<1>9. SnapsGood' /\ CursorNeverAhead'
  BY <1>1, <1>2, <1>3, <1>4, Zenon DEF SnapsGood, CursorNeverAhead
<1>10. TxGood'
  BY <1>1, <1>2, <1>3, <1>4, Zenon DEF TxGood
<1> QED BY <1>0, <1>6, <1>7, <1>8, <1>9, <1>10, Zenon DEF FileInv

(* With the cache emptied they see what is in leveldb. *)
LEMMA KeepClearCache == ASSUME FileInv, ClearCache PROVE FileInv'
<1>0. DbInv'
  BY NextDb, Zenon DEF Next, FileInv
<1>1. /\ DbInv /\ Shape /\ LeveldbGood /\ ViewGood /\ SnapsGood /\ TxGood
      /\ ldb[Cursor] \in Pos /\ Cursor \in DOMAIN ldb /\ ~After(ldb[Cursor], Limit)
      /\ mode = "up" /\ Limit = old /\ pc = "clear"
  BY InvFacts, Zenon DEF ClearCache
<1>2. /\ cache' = NoChange /\ pc' = "direct"
      /\ UNCHANGED <<fileVars, torn, ldb, mode, txVars, snap>>
  BY Zenon DEF ClearCache, faultVars
<1>3. /\ files' = files /\ synced' = synced /\ wc' = wc /\ open' = open
      /\ torn' = torn /\ Lost' = Lost /\ Unsynced' = Unsynced
  BY <1>2, SameFiles, Zenon
<1>4. old' = old /\ todo' = todo /\ unit' = unit /\ pend' = pend /\ Limit' = Limit
  BY <1>1, <1>2, Zenon DEF txVars, Limit
<1>5. DOMAIN cache'.keys = {} /\ cache'.removed = {}
  BY <1>2, NoChangeDomain, Zenon
<1>6. DOMAIN View' = DOMAIN ldb /\ \A k \in DOMAIN ldb : View'[k] = ldb[k]
  <2>1. View' = applied(ldb, cache')
    BY <1>2, Zenon DEF View
  <2>2. /\ DOMAIN applied(ldb, cache') = DOMAIN ldb
        /\ \A k \in DOMAIN ldb : applied(ldb, cache')[k] = ldb[k]
    BY <1>5, EmptiedApplied, Zenon
  <2> QED BY <2>1, <2>2, Zenon
<1>7. Shape'
  BY <1>1, <1>2, <1>3, <1>4, <1>5, Zenon DEF Shape
<1>8. LeveldbGood'
  BY <1>1, <1>2, <1>3, Zenon DEF LeveldbGood
<1>9. ViewGood'
  <2>1. ~After(ldb[Cursor], ldb[Cursor])
    BY <1>1, AfterOrder, Zenon
  <2>2. Good(files, synced, torn, Unsynced, ldb, ldb[Cursor])
    BY <1>1, <2>1, LostUnsynced, GoodMore, Zenon DEF LeveldbGood
  <2>3. Good(files, synced, torn, Unsynced, View', ldb[Cursor])
    BY <1>6, <2>2, GoodOverlay, ZenonT(40)
  <2> QED BY <1>1, <1>2, <1>3, <1>4, <1>6, <2>1, <2>3, Zenon DEF ViewGood
<1>10. SnapsGood' /\ CursorNeverAhead'
  BY <1>1, <1>2, <1>3, <1>4, Zenon DEF SnapsGood, CursorNeverAhead
<1>11. TxGood'
  BY <1>1, <1>2, <1>3, <1>4, Zenon DEF TxGood
<1> QED BY <1>0, <1>7, <1>8, <1>9, <1>10, <1>11, Zenon DEF FileInv

(* The transaction's own keys go to leveldb last. *)
LEMMA KeepCommitDirect == ASSUME FileInv, CommitDirect PROVE FileInv'
<1>0. DbInv'
  BY NextDb, Zenon DEF Next, FileInv
<1>1. /\ DbInv /\ Shape /\ LeveldbGood /\ TxGood
      /\ ldb[Cursor] \in Pos /\ wc \in Pos /\ old \in Pos
      /\ Cursor \in DOMAIN ldb /\ ~After(ldb[Cursor], Limit)
      /\ mode = "up" /\ Limit = old /\ pc = "direct"
  BY InvFacts, Zenon DEF CommitDirect
<1>2. /\ CloseTx /\ UNCHANGED <<fileVars, torn, mode, snap>> /\ cache' = cache
      /\ ldb' = applied(ldb, pend)
  BY Zenon DEF CommitDirect, faultVars
<1>3. /\ files' = files /\ synced' = synced /\ wc' = wc /\ open' = open
      /\ torn' = torn /\ Lost' = Lost /\ Unsynced' = Unsynced
  BY <1>2, SameFiles, Zenon
<1>4. /\ ~After(old, wc) /\ PosGood(files, synced, torn, Unsynced, wc)
      /\ Cursor \in DOMAIN pend.keys /\ pend.keys[Cursor] = wc
      /\ Good(files, synced, torn, Lost, pend.keys, wc)
  BY <1>1, Zenon DEF TxGood
<1>5. Shape' /\ SnapsGood' /\ TxGood' /\ CursorNeverAhead' /\ Limit' = wc
  <2>1. /\ DOMAIN cache'.keys \cup cache'.removed \subseteq Blocks \cup {App, Cursor}
        /\ DOMAIN cache'.keys \cap cache'.removed = {}
    BY <1>1, <1>2, Zenon DEF Shape
  <2> QED BY <1>1, <1>2, <1>4, <2>1, TxClosed, Zenon
<1>6. ~After(ldb[Cursor], wc) /\ ~After(wc, wc)
  BY <1>1, <1>4, AfterOrder, Zenon
<1>7. Cursor \in DOMAIN ldb' /\ ldb'[Cursor] = wc
  <2>1. Cursor \in DOMAIN ldb'
    BY <1>1, <1>2, AppliedDomain, DbAssumption, Zenon DEF DbInv
  <2> QED BY <1>2, <1>4, <2>1, AppliedValue, Zenon
<1>8. Good(files, synced, torn, Lost, ldb', wc)
  <2>1. Good(files, synced, torn, Lost, ldb, wc)
    BY <1>1, <1>6, GoodMore, Zenon DEF LeveldbGood
  <2>2. \A k \in DOMAIN ldb' : \/ k \in DOMAIN pend.keys /\ ldb'[k] = pend.keys[k]
                               \/ k \in DOMAIN ldb /\ ldb'[k] = ldb[k]
    BY <1>2, AppliedValue, Zenon
  <2> QED BY <1>4, <2>1, <2>2, GoodOverlay, ZenonT(40)
<1>9. LeveldbGood'
  BY <1>3, <1>7, <1>8, Zenon DEF LeveldbGood
<1>10. ViewGood'
  <2>1. DOMAIN View' = DOMAIN ldb' /\ \A k \in DOMAIN ldb' : View'[k] = ldb'[k]
    <3>1. View' = applied(ldb', cache) /\ DOMAIN cache.keys = {} /\ cache.removed = {}
      BY <1>1, <1>2, Zenon DEF View, DbInv, Emptied
    <3>2. /\ DOMAIN applied(ldb', cache) = DOMAIN ldb'
          /\ \A k \in DOMAIN ldb' : applied(ldb', cache)[k] = ldb'[k]
      BY <3>1, EmptiedApplied, Zenon
    <3> QED BY <3>1, <3>2, Zenon
  <2>2. Good(files, synced, torn, Unsynced, ldb', wc)
    BY <1>1, <1>6, <1>8, LostUnsynced, GoodMore, Zenon
  <2>3. Good(files, synced, torn, Unsynced, View', wc)
    BY <2>1, <2>2, GoodOverlay, ZenonT(40)
  <2> QED BY <1>2, <1>3, <1>4, <1>5, <1>6, <1>7, <2>1, <2>3, Zenon DEF ViewGood
<1> QED BY <1>0, <1>5, <1>9, <1>10, Zenon DEF FileInv

(* A flush that fails leaves the blocks in the files and the cursor behind *)
(* them.                                                                   *)
LEMMA KeepFlushFails == ASSUME FileInv, FlushFails PROVE FileInv'
<1>0. DbInv'
  BY NextDb, Zenon DEF Next, FileInv
<1>1. pc \in {"write", "flush", "direct"}
  BY Zenon DEF FlushFails
<1>2. /\ Shape /\ LeveldbGood /\ ViewGood /\ TxGood /\ mode = "up" /\ Limit = old
      /\ View[Cursor] \in Pos /\ wc \in Pos /\ old \in Pos /\ ~After(View[Cursor], Limit)
  BY <1>1, InvFacts, Zenon
<1>3. CloseTx /\ UNCHANGED <<fileVars, torn, mode, snap>> /\ cache' = cache /\ ldb' = ldb
  BY Zenon DEF FlushFails, Fault
<1>4. /\ files' = files /\ synced' = synced /\ wc' = wc /\ open' = open
      /\ torn' = torn /\ Lost' = Lost /\ Unsynced' = Unsynced /\ View' = View
  BY <1>3, SameFiles, Zenon DEF View
<1>5. ~After(old, wc) /\ PosGood(files, synced, torn, Unsynced, wc)
  BY <1>1, <1>2, Zenon DEF TxGood
<1>6. Shape' /\ SnapsGood' /\ TxGood' /\ CursorNeverAhead' /\ Limit' = wc
  <2>1. /\ DOMAIN cache'.keys \cup cache'.removed \subseteq Blocks \cup {App, Cursor}
        /\ DOMAIN cache'.keys \cap cache'.removed = {}
    BY <1>2, <1>3, Zenon DEF Shape
  <2> QED BY <1>2, <1>3, <1>5, <2>1, TxClosed, Zenon
<1>7. LeveldbGood'
  BY <1>2, <1>3, <1>4, Zenon DEF LeveldbGood
<1>8. ViewGood'
  <2>1. ~After(View[Cursor], wc)
    BY <1>2, <1>5, AfterOrder, Zenon
  <2> QED BY <1>2, <1>3, <1>4, <1>5, <1>6, <2>1, Zenon DEF ViewGood
<1> QED BY <1>0, <1>6, <1>7, <1>8, Zenon DEF FileInv

-----------------------------------------------------------------------------
(* What a reader sees comes from leveldb and the cache, at whatever times  *)
(* it took them.                                                           *)
LEMMA KeepSnaps ==
  ASSUME FileInv, NEW r \in Readers, SnapLdb(r) \/ SnapCache(r) \/ EndView(r)
  PROVE  FileInv'
<1>0. DbInv'
  BY NextDb, Zenon DEF Next, FileInv
<1>1. /\ DbInv /\ Shape /\ LeveldbGood /\ ViewGood /\ SnapsGood /\ TxGood
      /\ CursorNeverAhead /\ ldb[Cursor] \in Pos /\ Limit \in Pos
  BY InvFacts, Zenon
<1>2. UNCHANGED <<fileVars, torn, ldb, cache, mode, pc, txVars>>
  BY Zenon DEF SnapLdb, SnapCache, EndView, faultVars
<1>3. /\ files' = files /\ synced' = synced /\ wc' = wc /\ open' = open
      /\ torn' = torn /\ Lost' = Lost /\ Unsynced' = Unsynced /\ View' = View
  BY <1>2, SameFiles, Zenon DEF View
<1>4. old' = old /\ todo' = todo /\ unit' = unit /\ pend' = pend /\ Limit' = Limit
  BY <1>2, <1>3, Zenon DEF txVars, Limit
<1>5. Shape' /\ LeveldbGood' /\ ViewGood' /\ CursorNeverAhead'
  BY <1>1, <1>2, <1>3, <1>4, Zenon DEF Shape, LeveldbGood, ViewGood, CursorNeverAhead
<1>6. TxGood'
  BY <1>1, <1>2, <1>3, <1>4, Zenon DEF TxGood, PartWritten
<1>7. SnapsGood'
  <2>0. r \in DOMAIN snap /\ DOMAIN snap = Readers
    BY <1>1, Zenon DEF SnapsGood
  <2>1. DOMAIN snap' = Readers /\ \A q \in Readers : q # r => snap'[q] = snap[q]
    BY <2>0, Zenon DEF SnapLdb, SnapCache, EndView
  <2>2. CASE SnapLdb(r)
    <3>1. /\ snap'[r].at = "ldb" /\ snap'[r].map = blockIndex(ldb) /\ mode = "up"
      BY <2>0, <2>2, Zenon DEF SnapLdb
    <3>2. Good(files, synced, torn, Unsynced, ldb, Limit)
      BY <1>1, <3>1, InvFacts, LostUnsynced, GoodMore, Zenon DEF LeveldbGood
    <3>3. \A k \in DOMAIN blockIndex(ldb) : k \in DOMAIN ldb /\ blockIndex(ldb)[k] = ldb[k]
      BY Zenon DEF blockIndex, Restrict
    <3>4. Good(files, synced, torn, Unsynced, blockIndex(ldb), Limit)
      BY <3>2, <3>3, GoodOverlay, ZenonT(40)
    <3> QED BY <1>1, <1>2, <1>3, <1>4, <2>1, <3>1, <3>4, Zenon DEF SnapsGood
  <2>3. CASE SnapCache(r)
    <3> DEFINE a == applied(snap[r].map, cache)
               m == blockIndex(a)
    <3>1. snap'[r].at = "open" /\ snap'[r].map = m /\ snap[r].at = "ldb"
      BY <2>0, <2>3, Zenon DEF SnapCache
    <3>2. mode = "up" /\ Good(files, synced, torn, Unsynced, snap[r].map, Limit)
      BY <1>1, <3>1, Zenon DEF SnapsGood
    <3>3. Good(files, synced, torn, Unsynced, View, Limit)
      <4>1. View[Cursor] \in Pos /\ ~After(View[Cursor], Limit)
        BY <3>2, InvFacts, Zenon
      <4> QED BY <1>1, <3>2, <4>1, GoodMore, Zenon DEF ViewGood
    <3>4. \A k \in DOMAIN m : k \in DOMAIN a /\ m[k] = a[k]
      BY Zenon DEF blockIndex, Restrict
    <3>5. ASSUME NEW k \in DOMAIN a
          PROVE  \/ k \in DOMAIN snap[r].map /\ a[k] = snap[r].map[k]
                 \/ k \in DOMAIN View /\ a[k] = View[k]
      BY Zenon DEF applied, View, Without, Override
    <3> HIDE DEF a, m
    <3>6. Good(files, synced, torn, Unsynced, m, Limit)
      <4>1. Good(files, synced, torn, Unsynced, a, Limit)
        BY <3>2, <3>3, <3>5, GoodOverlay, ZenonT(40)
      <4> QED BY <3>4, <4>1, GoodOverlay, ZenonT(40)
    <3> QED BY <1>1, <1>2, <1>3, <1>4, <2>1, <3>1, <3>2, <3>6, Zenon DEF SnapsGood
  <2>4. CASE EndView(r)
    <3>1. snap'[r].at = "none"
      BY <2>0, <2>4, Zenon DEF EndView
    <3> QED BY <1>1, <1>2, <1>3, <1>4, <2>1, <3>1, Zenon DEF SnapsGood
  <2> QED BY <2>2, <2>3, <2>4, Zenon
<1> QED BY <1>0, <1>1, <1>5, <1>6, <1>7, Zenon DEF FileInv

-----------------------------------------------------------------------------
(* The files that are not known to be synced after syncBlocks. *)
SyncLost == (IF open THEN dropped \ {wc[1]} ELSE dropped) \cup torn

(* syncBlocks leaves only those behind. *)
LEMMA SyncCarry ==
  ASSUME Shape, NEW p \in Pos
  PROVE  /\ SyncOK(files, syncBlocks)
         /\ Carry(files, synced, Unsynced, files, syncBlocks, SyncLost, p)
<1>1. /\ DOMAIN synced = DOMAIN files /\ (open => wc[1] \in DOMAIN files)
      /\ \A n \in DOMAIN files : synced[n] \in 0..Len(files[n])
      /\ \A n \in DOMAIN files : n \in Nat /\ files[n] \in Seq(Pieces)
  BY Zenon DEF Shape, SyncOK, FilesOK
<1>2. /\ DOMAIN syncBlocks = DOMAIN files
      /\ \A n \in DOMAIN files :
           syncBlocks[n] = IF open /\ n = wc[1] THEN Len(files[n]) ELSE synced[n]
  BY <1>1, Zenon DEF syncBlocks, Override
<1>3. \A n \in DOMAIN files : syncBlocks[n] \in 0..Len(files[n]) /\ synced[n] <= syncBlocks[n]
  BY <1>1, <1>2
<1>4. \A n \in Unsynced : n \in SyncLost \/ (open /\ n = wc[1])
  BY Zenon DEF Unsynced, Lost, SyncLost
<1>5. ASSUME NEW n \in DOMAIN files, NEW i \in 0..p[2], i <= synced[n] PROVE i <= syncBlocks[n]
  BY <1>1, <1>3, <1>5 DEF Pos
<1>6. SyncOK(files, syncBlocks)
  BY <1>2, <1>3, Zenon DEF SyncOK
<1>7. \A n \in DOMAIN files : n \in Unsynced => n \in SyncLost \/ syncBlocks[n] = Len(files[n])
  BY <1>2, <1>4, Zenon
<1> HIDE DEF SyncLost, Unsynced
<1>8. Carry(files, synced, Unsynced, files, syncBlocks, SyncLost, p)
  BY <1>3, <1>5, <1>7, Zenon DEF Carry
<1> QED BY <1>6, <1>8, Zenon

LEMMA SyncPos ==
  ASSUME Shape, NEW q \in Pos, PosGood(files, synced, torn, Unsynced, q)
  PROVE  PosGood(files, syncBlocks, torn, SyncLost, q)
<1>1. /\ SyncOK(files, syncBlocks) /\ ~After(q, q)
      /\ Carry(files, synced, Unsynced, files, syncBlocks, SyncLost, q)
  BY SyncCarry, AfterOrder, Zenon
<1>2. torn \in SUBSET SyncLost /\ FilesOK(files) /\ SyncOK(files, synced)
  BY Zenon DEF SyncLost, Shape
<1> QED BY <1>1, <1>2, PosCarry, Zenon

LEMMA SyncGood ==
  ASSUME Shape, NEW m, NEW q \in Pos, Good(files, synced, torn, Unsynced, m, q)
  PROVE  Good(files, syncBlocks, torn, SyncLost, m, q)
<1>1. /\ SyncOK(files, syncBlocks) /\ ~After(q, q)
      /\ Carry(files, synced, Unsynced, files, syncBlocks, SyncLost, q)
  BY SyncCarry, AfterOrder, Zenon
<1>2. torn \in SUBSET SyncLost /\ FilesOK(files) /\ SyncOK(files, synced)
  BY Zenon DEF SyncLost, Shape
<1> QED BY <1>1, <1>2, GoodCarry, Zenon

LEMMA PosMore ==
  ASSUME NEW fs, NEW sy, NEW cut, NEW X, NEW Y, X \subseteq Y, NEW q,
         PosGood(fs, sy, cut, X, q)
  PROVE  PosGood(fs, sy, cut, Y, q)
BY Zenon DEF PosGood, Synced

(* From the sync on, all that transactions see may go to leveldb. *)
LEMMA KeepFlushSync == ASSUME FileInv, FlushSync PROVE FileInv'
<1>0. DbInv'
  BY NextDb, Zenon DEF Next, FileInv
<1>1. /\ DbInv /\ Shape /\ LeveldbGood /\ ViewGood /\ SnapsGood /\ TxGood
      /\ ldb[Cursor] \in Pos /\ View[Cursor] \in Pos /\ wc \in Pos /\ old \in Pos
      /\ mode = "up" /\ Limit = old /\ pc = "write"
  BY InvFacts, Zenon DEF FlushSync
<1>2. /\ synced' = syncBlocks /\ pend' = withCursor /\ pc' = "flush"
      /\ UNCHANGED <<files, wc, open, ldb, cache, mode, old, todo, unit, snap, torn>>
  BY Zenon DEF FlushSync, faultVars
<1>3. Lost' = SyncLost /\ SyncLost \subseteq Unsynced' /\ View' = View /\ Limit' = Limit
  BY <1>1, <1>2, Zenon DEF FlushSync, Lost, SyncLost, Unsynced, View, Limit
<1> DEFINE Sync(m, q) == Good(files, syncBlocks, torn, SyncLost, m, q)
           Seen1(m, q) == Good(files, syncBlocks, torn, Unsynced', m, q)
<1>4. \A m : \A q \in Pos : Sync(m, q) => Seen1(m, q)
  BY <1>3, GoodMore, AfterOrder, Zenon
<1>5. \A m : \A q \in Pos : Good(files, synced, torn, Unsynced, m, q) => Sync(m, q)
  BY <1>1, SyncGood, Zenon
<1>6. \A q \in Pos : PosGood(files, synced, torn, Unsynced, q)
                       => PosGood(files, syncBlocks, torn, Unsynced', q)
  BY <1>1, <1>3, SyncPos, PosMore, Zenon
<1>7. Shape'
  <2>1. SyncOK(files, syncBlocks)
    BY <1>1, SyncCarry, Zenon
  <2>2. /\ DOMAIN withCursor.keys = DOMAIN pend.keys \cup {Cursor}
        /\ withCursor.removed = pend.removed \ {Cursor}
    BY PutKeyDomain, Zenon DEF withCursor
  <2>3. /\ DOMAIN pend'.keys \cup pend'.removed \subseteq Blocks \cup {App, Cursor}
        /\ DOMAIN pend'.keys \cap pend'.removed = {}
    BY <1>1, <1>2, <2>2, Zenon DEF Shape
  <2> QED BY <1>1, <1>2, <2>1, <2>3, Zenon DEF Shape
<1>8. LeveldbGood'
  <2>1. Good(files, synced, torn, Unsynced, ldb, ldb[Cursor])
    BY <1>1, LostUnsynced, GoodMore, AfterOrder, Zenon DEF LeveldbGood
  <2>2. Sync(ldb, ldb[Cursor])
    BY <1>1, <1>5, <2>1, Zenon
  <2> QED BY <1>1, <1>2, <1>3, <2>2, Zenon DEF LeveldbGood
<1>9. Sync(View, View[Cursor]) /\ Seen1(View, View[Cursor])
  <2>1. Good(files, synced, torn, Unsynced, View, View[Cursor])
    BY <1>1, Zenon DEF ViewGood
  <2> QED BY <1>1, <1>4, <1>5, <2>1, Zenon
<1>10. ViewGood'
  <2>1. PosGood(files, syncBlocks, torn, Unsynced', old)
    BY <1>1, <1>6, Zenon DEF ViewGood
  <2> QED BY <1>1, <1>2, <1>3, <1>9, <2>1, Zenon DEF ViewGood
<1>11. SnapsGood' /\ CursorNeverAhead'
  <2>1. ASSUME NEW r \in Readers, snap[r].at # "none" PROVE Seen1(snap[r].map, old)
    <3>1. Good(files, synced, torn, Unsynced, snap[r].map, old)
      BY <1>1, <2>1, Zenon DEF SnapsGood
    <3> QED BY <1>1, <1>4, <1>5, <3>1, Zenon
  <2> QED BY <1>1, <1>2, <1>3, <2>1, Zenon DEF SnapsGood, CursorNeverAhead
<1>12. TxGood'
  <2>1. /\ ~After(old, wc) /\ PosGood(files, synced, torn, Unsynced, wc)
        /\ Good(files, synced, torn, Unsynced, pend.keys, wc)
    BY <1>1, Zenon DEF TxGood
  <2>2. /\ Cursor \in DOMAIN withCursor.keys /\ withCursor.keys[Cursor] = wc
        /\ Good(files, synced, torn, Unsynced, withCursor.keys, wc)
    BY <1>1, <2>1, WithCursor, Zenon
  <2>3. Sync(withCursor.keys, wc) /\ Seen1(withCursor.keys, wc)
    BY <1>1, <1>4, <1>5, <2>2, Zenon
  <2>4. PosGood(files, syncBlocks, torn, Unsynced', wc)
    BY <1>1, <1>6, <2>1, Zenon
  <2> QED BY <1>2, <1>3, <1>9, <2>1, <2>2, <2>3, <2>4, Zenon DEF TxGood
<1> QED BY <1>0, <1>7, <1>8, <1>10, <1>11, <1>12, Zenon DEF FileInv

-----------------------------------------------------------------------------
(* When the database stops, only the files and leveldb are left. *)
LEMMA Stopped ==
  ASSUME FilesOK(files'), SyncOK(files', synced'), Stop
  PROVE  Shape' /\ ViewGood' /\ SnapsGood' /\ TxGood' /\ CursorNeverAhead'
<1>1. /\ mode' = "down" /\ pc' = "idle" /\ open' = FALSE /\ unit' = 0
      /\ wc' \in Pos /\ old' \in Pos /\ cache' = NoChange /\ pend' = NoChange
      /\ snap' = [r \in Readers |-> [at |-> "none"]]
  BY Zenon DEF Stop, CloseTx, Pos
<1>2. Shape'
  BY <1>1, NoChangeDomain, DbAssumption, SMTT(30) DEF Shape
<1>3. ViewGood' /\ CursorNeverAhead'
  BY <1>1, Zenon DEF ViewGood, CursorNeverAhead
<1>4. SnapsGood'
  BY <1>1, Zenon DEF SnapsGood
<1>5. TxGood'
  BY <1>1, Zenon DEF TxGood
<1> QED BY <1>2, <1>3, <1>4, <1>5, Zenon

LEMMA KeepClose == ASSUME FileInv, Close PROVE FileInv'
<1>0. DbInv'
  BY NextDb, Zenon DEF Next, FileInv
<1>1. /\ Shape /\ ViewGood /\ View[Cursor] \in Pos /\ Cursor \in DOMAIN View
      /\ mode = "up"
  BY InvFacts, Zenon DEF Close
<1>2. /\ files' = files /\ synced' = syncBlocks /\ torn' = torn /\ ldb' = View /\ Stop
      /\ Lost' = SyncLost
  BY Zenon DEF Close, faultVars, Lost, SyncLost
<1>3. FilesOK(files) /\ SyncOK(files, syncBlocks)
  BY <1>1, SyncCarry, Zenon DEF Shape
<1>4. Good(files, syncBlocks, torn, SyncLost, View, View[Cursor])
  BY <1>1, SyncGood, Zenon DEF ViewGood
<1>5. LeveldbGood'
  BY <1>1, <1>2, <1>4, Zenon DEF LeveldbGood
<1>6. Shape' /\ ViewGood' /\ SnapsGood' /\ TxGood' /\ CursorNeverAhead'
  BY <1>2, <1>3, Stopped, Zenon
<1> QED BY <1>0, <1>5, <1>6, Zenon DEF FileInv

LEMMA KeepCrash == ASSUME FileInv, Crash PROVE FileInv'
<1>0. DbInv'
  BY NextDb, Zenon DEF Next, FileInv
<1>1. Shape /\ LeveldbGood
  BY InvFacts, Zenon
<1>2. UNCHANGED <<files, synced, torn, dropped, ldb>> /\ Stop
  BY Zenon DEF Crash
<1>3. Shape' /\ ViewGood' /\ SnapsGood' /\ TxGood' /\ CursorNeverAhead'
  BY <1>1, <1>2, Stopped, Zenon DEF Shape
<1>4. LeveldbGood'
  BY <1>1, <1>2, Zenon DEF LeveldbGood, Lost
<1> QED BY <1>0, <1>3, <1>4, Zenon DEF FileInv

(* A loss of power cuts only what was not synced, and the files in which   *)
(* that may be more than leveldb knows of are from then on torn.           *)
LEMMA KeepPowerFails == ASSUME FileInv, PowerFails PROVE FileInv'
<1>0. DbInv'
  BY NextDb, Zenon DEF Next, FileInv
<1>1. Shape /\ LeveldbGood /\ Cursor \in DOMAIN ldb
  BY InvFacts, Zenon
<1>2. PICK left \in [DOMAIN files -> 0..MaxFileSize] :
        /\ \A n \in DOMAIN files : left[n] \in synced[n]..Len(files[n])
        /\ files' = [n \in DOMAIN files |-> SubSeq(files[n], 1, left[n])]
  BY Zenon DEF PowerFails
<1>3. /\ synced' = [n \in DOMAIN files |-> Len(files'[n])]
      /\ torn' = torn \cup {n \in DOMAIN files : n \in dropped /\ files'[n] # files[n]}
      /\ ldb' = ldb /\ dropped' = dropped /\ Stop
  BY Zenon DEF PowerFails
<1>4. ASSUME NEW n \in DOMAIN files
      PROVE  /\ files'[n] \in Seq(Pieces) /\ Len(files'[n]) \in Nat
             /\ synced[n] \in Nat /\ synced[n] <= Len(files'[n])
             /\ \A i \in 1..Len(files'[n]) : files'[n][i] = files[n][i]
  <2>1. /\ files[n] \in Seq(Pieces) /\ synced[n] \in 0..Len(files[n])
        /\ left[n] \in synced[n]..Len(files[n]) /\ files'[n] = SubSeq(files[n], 1, left[n])
    BY <1>1, <1>2, Zenon DEF Shape, FilesOK, SyncOK
  <2>2. left[n] \in 0..Len(files[n]) /\ synced[n] <= left[n] /\ synced[n] \in Nat
    BY <2>1
  <2>3. /\ SubSeq(files[n], 1, left[n]) \in Seq(Pieces)
        /\ Len(SubSeq(files[n], 1, left[n])) = left[n]
        /\ \A i \in 1..left[n] : SubSeq(files[n], 1, left[n])[i] = files[n][i]
    BY <2>1, <2>2
  <2> QED BY <2>1, <2>2, <2>3, SMTT(30)
<1>5. DOMAIN files' = DOMAIN files /\ DOMAIN synced' = DOMAIN files
  BY <1>2, <1>3, Zenon
<1>6. \A n \in DOMAIN files : synced'[n] = Len(files'[n])
  BY <1>3, Zenon
<1>7. FilesOK(files') /\ SyncOK(files', synced')
  BY <1>1, <1>4, <1>5, <1>6, SMTT(30) DEF Shape, FilesOK, SyncOK
<1>8. Shape' /\ ViewGood' /\ SnapsGood' /\ TxGood' /\ CursorNeverAhead'
  BY <1>3, <1>7, Stopped, Zenon
<1>9. \A n \in DOMAIN files : n \in Lost => n \in torn' \/ files'[n] = files[n]
  BY <1>3, Zenon DEF Lost
<1>10. torn' \subseteq Lost' /\ torn \subseteq torn'
  BY <1>3, Zenon DEF Lost
<1>11. ASSUME NEW q \in Pos, PosGood(files, synced, torn, Lost, q)
       PROVE  /\ PosGood(files', synced', torn', Lost', q)
              /\ q[1] \in torn' \/ (q[1] \in DOMAIN files /\ q[2] <= Len(files'[q[1]]))
  <2>1. /\ 0..q[1] \subseteq DOMAIN files /\ (q[1] \in torn \/ q[2] <= Len(files[q[1]]))
        /\ q[1] \in Lost \/ q[2] <= synced[q[1]]
    BY <1>11, Zenon DEF PosGood, Held, Synced
  <2>2. q[1] \in Nat /\ q[2] \in Nat /\ q[1] \in DOMAIN files
    BY <2>1, SMTT(30) DEF Pos
  <2>3. q[1] \in torn' \/ q[2] <= Len(files'[q[1]])
    BY <1>4, <1>9, <1>10, <2>1, <2>2
  <2> QED BY <1>5, <1>6, <1>10, <2>1, <2>2, <2>3, Zenon DEF PosGood, Held, Synced
<1>12. ASSUME NEW b, NEW loc \in Pos, RecordAt(files, b, loc),
              loc[2] + Units <= Len(files'[loc[1]])
       PROVE  RecordAt(files', b, loc)
  <2>1. /\ loc[1] \in DOMAIN files /\ loc[2] \in Nat /\ Units \in Nat \ {0}
        /\ \A i \in 1..Units : files[loc[1]][loc[2] + i] = <<b, i>>
    BY <1>12, DbAssumption, Zenon DEF RecordAt, Pos
  <2>2. \A i \in 1..Units : loc[2] + i \in 1..Len(files'[loc[1]])
    BY <1>4, <1>12, <2>1, SMTT(30)
  <2> QED BY <1>4, <1>5, <1>12, <2>1, <2>2, ZenonT(40) DEF RecordAt
<1>13. Good(files', synced', torn', Lost', ldb, ldb[Cursor])
  <2> SUFFICES ASSUME NEW k \in DOMAIN ldb \cap FileKeys
               PROVE  /\ ldb[k] \in Pos
                      /\ ~After(Reach(k, ldb[k]), ldb[Cursor])
                      /\ PosGood(files', synced', torn', Lost', Reach(k, ldb[k]))
                      /\ k # Cursor => ldb[k][1] \in torn' \/ RecordAt(files', k, ldb[k])
    BY Zenon DEF Good
  <2>1. /\ ldb[k] \in Pos
        /\ ~After(Reach(k, ldb[k]), ldb[Cursor])
        /\ PosGood(files, synced, torn, Lost, Reach(k, ldb[k]))
        /\ k # Cursor => ldb[k][1] \in torn \/ RecordAt(files, k, ldb[k])
    BY <1>1, Zenon DEF LeveldbGood, Good
  <2>2. Reach(k, ldb[k]) \in Pos /\ Reach(k, ldb[k])[1] = ldb[k][1]
    BY <2>1, ReachPos, Zenon
  <2>3. /\ PosGood(files', synced', torn', Lost', Reach(k, ldb[k]))
        /\ \/ ldb[k][1] \in torn'
           \/ Reach(k, ldb[k])[2] <= Len(files'[ldb[k][1]])
    BY <1>11, <2>1, <2>2, Zenon
  <2>4. k # Cursor => Reach(k, ldb[k])[2] = ldb[k][2] + Units
    BY Zenon DEF Reach
  <2> QED BY <1>10, <1>12, <2>1, <2>3, <2>4, Zenon
<1>14. LeveldbGood'
  BY <1>1, <1>3, <1>13, Zenon DEF LeveldbGood
<1> QED BY <1>0, <1>8, <1>14, Zenon DEF FileInv

-----------------------------------------------------------------------------
(* scanBlockFiles gives the end of the last file without a gap before it. *)
LEMMA ScanFacts ==
  ASSUME FilesOK(files), NEW q \in Pos, 0..q[1] \subseteq DOMAIN files
  PROVE  /\ scanBlockFiles \in Pos /\ scanBlockFiles[1] \in DOMAIN files
         /\ scanBlockFiles[2] = Len(files[scanBlockFiles[1]])
         /\ q[1] <= scanBlockFiles[1]
<1> DEFINE S == {n \in DOMAIN files : 0..n \subseteq DOMAIN files}
           last == CHOOSE n \in S : \A m \in S : m <= n
<1>1. q[1] \in S /\ S \in SUBSET Nat
  BY DEF Pos, FilesOK
<1>2. S \in SUBSET DOMAIN files /\ S # {} /\ HasLast(DOMAIN files)
  BY <1>1, Zenon DEF FilesOK
<1>3. \E n \in S : \A m \in S : m <= n
  BY <1>2, Zenon DEF HasLast
<1>4. last \in S /\ \A m \in S : m <= last
  BY <1>3, Zenon
<1>5. scanBlockFiles = <<last, Len(files[last])>>
  BY <1>1, Zenon DEF scanBlockFiles
<1> HIDE DEF last
<1>6. last \in Nat /\ last \in DOMAIN files /\ Len(files[last]) \in Nat
  BY <1>1, <1>4 DEF FilesOK
<1> QED BY <1>1, <1>4, <1>5, <1>6, Zenon DEF Pos

(* Opening goes back to the cursor in leveldb, or finds it at the end of   *)
(* the files, or fails because a loss of power cut the cursor's file.      *)
LEMMA KeepOpen == ASSUME FileInv, Open PROVE FileInv'
<1>0. DbInv'
  BY NextDb, Zenon DEF Next, FileInv
<1> DEFINE f == scanBlockFiles
           c == ldb[Cursor]
<1>1. /\ DbInv /\ Shape /\ LeveldbGood /\ SnapsGood /\ mode = "down"
      /\ Cursor \in DOMAIN ldb /\ c \in Pos /\ old \in Pos
  BY InvFacts, Zenon DEF Open
<1>2. /\ wc' = f /\ mode' = reconcileDB(f).mode /\ pc' = reconcileDB(f).pc
      /\ old' = IF reconcileDB(f).pc = "rollback" THEN c ELSE old
      /\ UNCHANGED <<files, synced, open, dropped, ldb, cache, todo, unit, pend, snap, torn>>
  BY Zenon DEF Open, faultVars
<1>3. PosGood(files, synced, torn, Lost, c)
  BY <1>1, CursorGood, Zenon DEF LeveldbGood
<1>4. 0..c[1] \subseteq DOMAIN files /\ (c[1] \in torn \/ c[2] <= Len(files[c[1]]))
  BY <1>3, Zenon DEF PosGood, Held
<1>5. /\ f \in Pos /\ f[1] \in DOMAIN files /\ f[2] = Len(files[f[1]]) /\ c[1] <= f[1]
  BY <1>1, <1>4, ScanFacts, Zenon DEF Shape
<1> HIDE DEF f, c
<1>6. Lost' = Lost /\ Lost \subseteq Unsynced' /\ torn' = torn
  BY <1>2, Zenon DEF Lost, Unsynced
<1>7. LeveldbGood'
  BY <1>1, <1>2, <1>6, Zenon DEF LeveldbGood
<1>8. SnapsGood'
  BY <1>1, <1>2, Zenon DEF SnapsGood
<1>9. \/ After(f, c) /\ mode' = "opening" /\ pc' = "rollback" /\ old' = c
      \/ ~After(f, c) /\ After(c, f) /\ mode' = "corrupt" /\ pc' = "idle" /\ old' = old
      \/ ~After(f, c) /\ ~After(c, f) /\ mode' = "up" /\ pc' = "idle" /\ old' = old
  <2>1. CASE After(f, c)
    <3>1. ~After(c, f)
      BY <1>1, <1>5, <2>1 DEF After, Pos
    <3>2. reconcileDB(f) = [mode |-> "opening", pc |-> "rollback"]
      BY <2>1, <3>1, Zenon DEF reconcileDB, c
    <3> QED BY <1>2, <2>1, <3>2
  <2>2. CASE ~After(f, c) /\ After(c, f)
    <3>1. reconcileDB(f) = [mode |-> "corrupt", pc |-> "idle"]
      BY <2>2, Zenon DEF reconcileDB, c
    <3> QED BY <1>2, <2>2, <3>1
  <2>3. CASE ~After(f, c) /\ ~After(c, f)
    <3>1. reconcileDB(f) = [mode |-> "up", pc |-> "idle"]
      BY <2>3, Zenon DEF reconcileDB, c
    <3> QED BY <1>2, <2>3, <3>1
  <2> QED BY <2>1, <2>2, <2>3, Zenon
<1>10. Shape'
  <2>1. old' \in Pos /\ wc' \in Pos /\ wc'[1] \in DOMAIN files
    BY <1>1, <1>2, <1>5, <1>9, Zenon
  <2>2. /\ mode' \in {"up", "opening", "corrupt"} /\ pc' \in {"idle", "rollback"}
        /\ mode' = "corrupt" => pc' = "idle"
        /\ mode' = "opening" => pc' = "rollback"
    BY <1>9, Zenon
  <2> QED BY <1>1, <1>2, <2>1, <2>2, Zenon DEF Shape
<1>11. CursorNeverAhead'
  <2>1. ASSUME mode' = "corrupt" PROVE c[1] \in torn
    <3>1. After(c, f)
      BY <1>9, <2>1, Zenon
    <3> QED BY <1>1, <1>4, <1>5, <3>1, SMTT(30) DEF After, Pos
  <2> QED BY <1>2, <1>6, <2>1, Zenon DEF CursorNeverAhead, c
<1>12. TxGood'
  <2>1. pc' \in {"idle", "rollback"} /\ (pc' = "rollback" => wc'[1] >= old'[1])
    BY <1>1, <1>2, <1>5, <1>9, Zenon DEF Pos
  <2> QED BY <2>1, Zenon DEF TxGood
<1>13. ViewGood'
  <2> SUFFICES ASSUME mode' \in {"up", "opening"} PROVE ViewGood'
    BY Zenon DEF ViewGood
  <2>1. Limit' = c
    BY <1>1, <1>2, <1>5, <1>9, AfterOrder, Zenon DEF Limit
  <2>2. View' = applied(ldb, cache) /\ DOMAIN cache.keys = {} /\ cache.removed = {}
    BY <1>1, <1>2, Zenon DEF View, DbInv, Emptied
  <2>3. /\ DOMAIN applied(ldb, cache) = DOMAIN ldb
        /\ \A k \in DOMAIN ldb : applied(ldb, cache)[k] = ldb[k]
    BY <2>2, EmptiedApplied, Zenon
  <2>4. ~After(c, c)
    BY <1>1, AfterOrder, Zenon
  <2>5. Good(files, synced, torn, Unsynced', ldb, c)
    BY <1>1, <1>6, <2>4, GoodMore, Zenon DEF LeveldbGood, c
  <2>6. Good(files, synced, torn, Unsynced', View', c)
    BY <2>2, <2>3, <2>5, GoodOverlay, ZenonT(40)
  <2>7. PosGood(files, synced, torn, Unsynced', c)
    BY <1>3, <1>6, PosMore, Zenon
  <2>8. View'[Cursor] = c /\ ldb'[Cursor] = c
    BY <1>1, <1>2, <2>2, <2>3, Zenon DEF c
  <2> QED BY <1>2, <1>6, <2>1, <2>4, <2>6, <2>7, <2>8, Zenon DEF ViewGood
<1> QED BY <1>0, <1>7, <1>8, <1>10, <1>11, <1>12, <1>13, Zenon DEF FileInv

-----------------------------------------------------------------------------
LEMMA InitFile == Init => FileInv
<1> SUFFICES ASSUME Init PROVE FileInv
  BY Zenon
<1>0. DbInv
  BY InitDb, Zenon
<1> DEFINE rec == Record(Genesis)
<1>1. /\ rec \in Seq(Pieces) /\ Len(rec) = Units /\ \A i \in 1..Units : rec[i] = <<Genesis, i>>
  <2>1. \A i \in 1..Units : <<Genesis, i>> \in Pieces
    BY DbAssumption, Zenon DEF Pieces
  <2> QED BY <2>1, DbAssumption DEF Record
<1>2. /\ files = [n \in {0} |-> rec] /\ synced = [n \in {0} |-> Units]
      /\ wc = <<0, 0>> /\ old = <<0, 0>> /\ unit = 0 /\ open = FALSE
      /\ mode = "down" /\ pc = "idle" /\ cache = NoChange /\ pend = NoChange
      /\ snap = [r \in Readers |-> [at |-> "none"]] /\ dropped = {} /\ torn = {}
  BY Zenon DEF Init
<1> HIDE DEF rec
<1>3. DOMAIN files = {0} /\ files[0] = rec /\ DOMAIN synced = {0} /\ synced[0] = Units
  BY <1>2, Zenon
<1>4. FilesOK(files) /\ SyncOK(files, synced)
  <2>1. HasLast({0})
    <3>1. ASSUME NEW S \in SUBSET {0}, S # {}
          PROVE  \E n \in S : \A m \in S : m <= n
      <4>1. 0 \in S /\ \A m \in S : m = 0
        BY <3>1, Zenon
      <4> QED BY <4>1
    <3> QED BY <3>1, Zenon DEF HasLast
  <2> QED BY <1>1, <1>3, <2>1, DbAssumption DEF FilesOK, SyncOK
<1>5. Shape
  BY <1>2, <1>4, NoChangeDomain, DbAssumption, SMTT(30) DEF Shape, Pos
<1>6. LeveldbGood
  <2>1. /\ DOMAIN ldb = {Cursor, Genesis} /\ Cursor # Genesis /\ Units \in Nat \ {0}
        /\ ldb[Cursor] = <<0, Units>> /\ ldb[Genesis] = <<0, 0>>
    BY DbAssumption, Zenon DEF Init
  <2>2. /\ <<0, Units>> \in Pos /\ <<0, 0>> \in Pos
        /\ Reach(Cursor, <<0, Units>>) = <<0, Units>>
        /\ Reach(Genesis, <<0, 0>>) = <<0, Units>>
    BY <2>1 DEF Pos, Reach
  <2>3. PosGood(files, synced, torn, Lost, <<0, Units>>)
    BY <1>1, <1>3, <2>1 DEF PosGood, Held, Synced
  <2>4. RecordAt(files, Genesis, <<0, 0>>)
    BY <1>1, <1>3, <2>1 DEF RecordAt
  <2>5. ~After(<<0, Units>>, <<0, Units>>)
    BY <2>2, AfterOrder, Zenon
  <2> QED BY <2>1, <2>2, <2>3, <2>4, <2>5, Zenon DEF LeveldbGood, Good
<1>7. ViewGood /\ CursorNeverAhead
  BY <1>2, Zenon DEF ViewGood, CursorNeverAhead
<1>8. SnapsGood
  BY <1>2, Zenon DEF SnapsGood
<1>9. TxGood
  BY <1>2, Zenon DEF TxGood
<1> QED BY <1>0, <1>5, <1>6, <1>7, <1>8, <1>9, Zenon DEF FileInv

LEMMA SameFile == ASSUME FileInv, UNCHANGED vars PROVE FileInv'
<1>1. /\ UNCHANGED <<fileVars, txVars, faultVars, ldb, cache, mode, pc, snap>>
      /\ Lost' = Lost /\ Unsynced' = Unsynced /\ View' = View /\ Limit' = Limit
  BY Zenon DEF vars, fileVars, txVars, faultVars, Lost, Unsynced, View, Limit
<1>2. DbInv'
  BY NextDb, Zenon DEF FileInv
<1>3. Shape' /\ LeveldbGood' /\ ViewGood'
  BY <1>1, Zenon DEF FileInv, Shape, LeveldbGood, ViewGood, fileVars, txVars, faultVars
<1>4. SnapsGood' /\ CursorNeverAhead'
  BY <1>1, Zenon DEF FileInv, SnapsGood, CursorNeverAhead, fileVars, txVars, faultVars
<1>5. TxGood'
  BY <1>1, Zenon DEF FileInv, TxGood, PartWritten, fileVars, txVars, faultVars
<1> QED BY <1>2, <1>3, <1>4, <1>5, Zenon DEF FileInv

LEMMA NextFile == FileInv /\ [Next]_vars => FileInv'
<1> SUFFICES ASSUME FileInv, [Next]_vars PROVE FileInv'
  BY Zenon
<1>1. CASE Begin \/ WriteData \/ WriteFails
  BY <1>1, KeepBegin, KeepWriteData, KeepWriteFails, Zenon
<1>2. CASE \/ RollbackNothing \/ RollbackDelete \/ RollbackDeleteFails
           \/ RollbackTruncate \/ RollbackTruncateFails
  BY <1>2, KeepRollbackUnchanged, KeepRollbackDelete, KeepRollbackTruncate, Zenon
<1>3. CASE CommitToCache \/ FlushSync \/ FlushCache \/ ClearCache \/ CommitDirect \/ FlushFails
  BY <1>3, KeepCommitToCache, KeepFlushSync, KeepFlushCache, KeepClearCache,
     KeepCommitDirect, KeepFlushFails, Zenon
<1>4. CASE \E r \in Readers : SnapLdb(r) \/ SnapCache(r) \/ EndView(r)
  BY <1>4, KeepSnaps, Zenon
<1>5. CASE Close \/ Crash \/ PowerFails \/ Open
  BY <1>5, KeepClose, KeepCrash, KeepPowerFails, KeepOpen, Zenon
<1>6. CASE UNCHANGED vars
  BY <1>6, SameFile, Zenon
<1> QED BY <1>1, <1>2, <1>3, <1>4, <1>5, <1>6, Zenon DEF Next

LEMMA FileInvariant == Spec => []FileInv
BY InitFile, NextFile, PTL DEF Spec

-----------------------------------------------------------------------------
(* The state of the database always has its shape: no key is both put and  *)
(* removed, leveldb always has a write cursor that nothing removes, no     *)
(* prefix is synced past the end of its file, and the open file exists.    *)
THEOREM DbTypeOK == Spec => []TypeOK
<1>1. FileInv => TypeOK
  <2> SUFFICES ASSUME FileInv PROVE TypeOK
    BY Zenon
  <2>1. Shape /\ Cursor \in DOMAIN ldb /\ cache.removed \subseteq {App}
    BY InvFacts, Zenon DEF DbInv
  <2>2. Cursor \notin cache.removed
    BY <2>1, DbAssumption, Zenon
  <2>3. DOMAIN synced = DOMAIN files /\ \A n \in DOMAIN files : synced[n] \in 0..Len(files[n])
    BY <2>1, Zenon DEF Shape, SyncOK
  <2> QED BY <2>1, <2>2, <2>3, Zenon DEF TypeOK, Shape
<1> QED BY <1>1, FileInvariant, PTL

(* What holds of every map a transaction or a reader uses. *)
LEMMA SeenGood ==
  ASSUME FileInv, mode = "up", NEW m \in Seen
  PROVE  Good(files, synced, torn, Unsynced, m, Limit)
<1>1. /\ ViewGood /\ SnapsGood /\ View[Cursor] \in Pos /\ Limit \in Pos
      /\ ~After(View[Cursor], Limit)
  BY InvFacts, Zenon
<1>2. CASE m = View
  BY <1>1, <1>2, GoodMore, Zenon DEF ViewGood
<1>3. CASE \E r \in Readers : snap[r].at = "open" /\ m = snap[r].map
  BY <1>1, <1>3, Zenon DEF SnapsGood
<1> QED BY <1>2, <1>3, Zenon DEF Seen

(* A committed block always reads back whole, for transactions and for     *)
(* readers that still use an older snapshot, unless its file was cut by a  *)
(* loss of power after the write handle was closed without a sync.         *)
THEOREM CommittedBlocksReadable == Spec => []CommittedReadable
<1>1. FileInv => CommittedReadable
  <2> SUFFICES ASSUME FileInv, mode = "up", NEW m \in Seen, NEW b \in DOMAIN m \cap Blocks
               PROVE  readable(b, m[b]) \/ m[b][1] \in torn
    BY Zenon DEF CommittedReadable
  <2>1. b # Cursor /\ b \in FileKeys
    BY DbAssumption, Zenon DEF FileKeys
  <2>2. m[b] \in Pos /\ (m[b][1] \in torn \/ RecordAt(files, b, m[b]))
    BY <2>1, SeenGood, Zenon DEF Good
  <2>3. FilesOK(files)
    BY InvFacts, Zenon DEF Shape
  <2> QED BY <2>2, <2>3, RecordReadable, Zenon
<1> QED BY <1>1, FileInvariant, PTL

(* Opening fails with a corruption error only if a loss of power cut the   *)
(* file of the cursor as above.                                            *)
THEOREM CursorNeverAheadOfFiles == Spec => []CursorNeverAhead
<1>1. FileInv => CursorNeverAhead
  BY Zenon DEF FileInv
<1> QED BY <1>1, FileInvariant, PTL

(* Outside of a rollback no record of a committed block reaches past the   *)
(* write cursor, so that writeBlock overwrites none.                       *)
THEOREM CursorBehindRecords == Spec => []CursorPastRecords
<1>1. FileInv => CursorPastRecords
  <2> SUFFICES ASSUME FileInv, mode = "up", pc \notin {"rollback", "truncate"},
                      NEW m \in Seen, NEW b \in DOMAIN m \cap Blocks
               PROVE  ~After(<<m[b][1], m[b][2] + Units>>, wc)
    BY Zenon DEF CursorPastRecords
  <2>1. b # Cursor /\ b \in FileKeys
    BY DbAssumption, Zenon DEF FileKeys
  <2>2. m[b] \in Pos /\ ~After(Reach(b, m[b]), Limit)
    BY <2>1, SeenGood, Zenon DEF Good
  <2>3. Limit \in Pos /\ wc \in Pos /\ ~After(Limit, wc)
    <3>1. Shape /\ TxGood /\ Limit \in Pos /\ wc \in Pos
      BY InvFacts, Zenon
    <3>2. CASE pc = "idle"
      BY <3>1, <3>2, AfterOrder, Zenon DEF Limit
    <3>3. CASE pc # "idle"
      BY <3>1, <3>3, Zenon DEF Limit, Shape, TxGood
    <3> QED BY <3>1, <3>2, <3>3, Zenon
  <2>4. Reach(b, m[b]) = <<m[b][1], m[b][2] + Units>>
    BY <2>1, Zenon DEF Reach
  <2> QED BY <2>2, <2>3, <2>4, ReachPos, AfterOrder, SMTT(30)
<1> QED BY <1>1, FileInvariant, PTL

=============================================================================
