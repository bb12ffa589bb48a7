----------------------------- MODULE FlatFileDb -----------------------------
(***************************************************************************)
(* The block database (database/ffldb): blocks are appended to flat files, *)
(* everything else goes through a write cache into leveldb, and the two    *)
(* are reconciled by the write cursor when the database is opened.         *)
(*                                                                         *)
(* A record of the flat files is Units pieces long (the fields writeBlock  *)
(* writes one by one), a file holds MaxFileSize pieces, and what the       *)
(* callers keep in the metadata besides the block index is one key, App.   *)
(* One write transaction runs at a time (writeLock); readers only take     *)
(* snapshots.  Every file operation and every leveldb commit is a step of  *)
(* its own: it can fail, and the process or the machine can stop between.  *)
(***************************************************************************)
EXTENDS Integers, Sequences, FiniteSets, Functions

CONSTANTS
  Blocks,           \* blocks to store
  Genesis,          \* the one a new database gets first
  App,              \* the key that stands for the callers' metadata
  Cursor,           \* writeLocKeyName
  Readers,          \* goroutines in db.View
  Units,            \* pieces of one record
  MaxFileSize,      \* maxBlockFileSize, in pieces
  MaxFaults,        \* bound: failing file and leveldb operations
  MaxCrashes,       \* bound: crashes
  PowerLoss         \* whether a crash may lose what was not synced

ASSUME DbAssumption ==
  /\ Genesis \in Blocks /\ App \notin Blocks /\ Cursor \notin Blocks /\ App # Cursor
  /\ Units \in Nat \ {0} /\ MaxFileSize \in Nat /\ MaxFileSize >= Units
  /\ MaxFaults \in Nat /\ MaxCrashes \in Nat
  /\ PowerLoss \in BOOLEAN

VARIABLES
  files,     \* file number -> its pieces, for the files that exist
  synced,    \* file number -> length of the prefix known to be on disk
  ldb,       \* the metadata in leveldb: key -> value
  cache,     \* dbCache: cachedKeys and cachedRemove
  mode,      \* "down", "opening", "up", or "corrupt" when opening failed
  pc,        \* where the write transaction is, or the rollback of opening
  wc,        \* writeCursor: curFileNum, curOffset
  open,      \* writeCursor.curFile.file # nil
  old,       \* where handleRollback goes back to
  todo,      \* pendingBlockData still to write
  unit,      \* pieces of the first of them that are written
  pend,      \* pendingKeys and pendingRemove of the write transaction
  snap,      \* reader -> what it sees
  faults, crashes,
  dropped,   \* history: files whose write handle was closed before a sync
  torn       \* history: the ones of these that a power loss cut

fileVars == <<files, synced, wc, open, dropped>>
txVars == <<old, todo, unit, pend>>
faultVars == <<faults, crashes, torn>>
vars == <<files, synced, ldb, cache, mode, pc, wc, open, old, todo, unit, pend,
          snap, faults, crashes, dropped, torn>>

-----------------------------------------------------------------------------
(* Metadata: maps of keys, and sets of changes to them. *)

NoKeys == [k \in {} |-> {}]
NoChange == [keys |-> NoKeys, removed |-> {}]

Override(m, n) ==
  [k \in DOMAIN m \cup DOMAIN n |-> IF k \in DOMAIN n THEN n[k] ELSE m[k]]

Without(m, K) == [k \in DOMAIN m \ K |-> m[k]]

(* commitTreaps, and what dbCacheSnapshot.Get finds: the same map. *)
applied(m, c) == Without(Override(m, c.keys), c.removed)

(* Mutant: a key that is put stays in cachedRemove. *)
commitTxKeepsRemoved(c, p) ==
  [keys |-> Without(Override(c.keys, p.keys), p.removed),
   removed |-> c.removed \cup p.removed]

(* commitTx without a flush: the cache takes the changes of p. *)
commitTx(c, p) ==
  [keys |-> Without(Override(c.keys, p.keys), p.removed),
   removed |-> (c.removed \ DOMAIN p.keys) \cup p.removed]

putKey(p, k, v) ==
  [keys |-> Override(p.keys, [x \in {k} |-> v]), removed |-> p.removed \ {k}]

deleteKey(p, k) ==
  [keys |-> Without(p.keys, {k}), removed |-> p.removed \cup {k}]

View == applied(ldb, cache)

blockIndex(m) == Restrict(m, DOMAIN m \cap Blocks)

stored == DOMAIN View \cap Blocks

-----------------------------------------------------------------------------
(* Flat files. *)

Record(b) == [i \in 1..Units |-> <<b, i>>]

Zeros(n) == [i \in 1..n |-> <<>>]

(* os.File.Truncate, which also makes a shorter file longer. *)
Truncate(s, n) == IF Len(s) >= n THEN SubSeq(s, 1, n) ELSE s \o Zeros(n - Len(s))

(* WriteAt of one piece. *)
WriteAt(s, n, x) == Truncate(s, n) \o <<x>> \o SubSeq(s, n + 2, Len(s))

(* readBlock: the checksum is right only if the record is whole. *)
readable(b, loc) ==
  /\ loc[1] \in DOMAIN files
  /\ Len(files[loc[1]]) >= loc[2] + Units
  /\ SubSeq(files[loc[1]], loc[2] + 1, loc[2] + Units) = Record(b)

After(x, y) == x[1] > y[1] \/ (x[1] = y[1] /\ x[2] > y[2])

(* Mutant: the last file is not looked at. *)
scanAllButLast ==
  LET found == {n \in DOMAIN files : 0..(n + 1) \subseteq DOMAIN files}
  IN  IF found = {} THEN <<0, 0>>
      ELSE LET last == CHOOSE n \in found : \A m \in found : m <= n
           IN  <<last, Len(files[last])>>

(* scanBlockFiles stops at the first number without a file. *)
scanBlockFiles ==
  LET found == {n \in DOMAIN files : 0..n \subseteq DOMAIN files}
  IN  IF found = {} THEN <<0, 0>>
      ELSE LET last == CHOOSE n \in found : \A m \in found : m <= n
           IN  <<last, Len(files[last])>>

-----------------------------------------------------------------------------
(* A database created by initDB that was given the genesis block and then  *)
(* closed.                                                                 *)
Init ==
  /\ files = [n \in {0} |-> Record(Genesis)]
  /\ synced = [n \in {0} |-> Units]
  /\ ldb = [k \in {Cursor, Genesis} |-> IF k = Cursor THEN <<0, Units>> ELSE <<0, 0>>]
  /\ cache = NoChange
  /\ mode = "down" /\ pc = "idle"
  /\ wc = <<0, 0>> /\ open = FALSE
  /\ old = <<0, 0>> /\ todo = <<>> /\ unit = 0 /\ pend = NoChange
  /\ snap = [r \in Readers |-> [at |-> "none"]]
  /\ faults = 0 /\ crashes = 0 /\ dropped = {} /\ torn = {}

(* The transaction is closed, after an error or not. *)
CloseTx ==
  /\ pc' = "idle"
  /\ old' = <<0, 0>> /\ todo' = <<>> /\ unit' = 0 /\ pend' = NoChange

Fault == faults < MaxFaults /\ faults' = faults + 1 /\ UNCHANGED <<crashes, torn>>

(* db.Update up to Commit: new blocks, and the other metadata put, deleted *)
(* or left alone.                                                          *)
appChanges == {NoChange, deleteKey(NoChange, App), putKey(NoChange, App, TRUE)}

newBlocks == {s \in UNION {[1..n -> Blocks \ DOMAIN View] : n \in 0..2} : IsInjective(s)}

(* Mutant: a failing transaction goes back to the cursor on disk. *)
cursorOnDisk == ldb[Cursor]

savedCursor == wc

Begin ==
  /\ mode = "up" /\ pc = "idle"
  /\ \E s \in newBlocks, p \in appChanges :
       /\ <<s, p>> # <<<<>>, NoChange>>
       /\ todo' = s /\ pend' = p
  /\ old' = savedCursor /\ unit' = 0
  /\ pc' = "write"
  /\ UNCHANGED <<fileVars, ldb, cache, mode, snap, faultVars>>

(* writeBlock moves to the next file if the record does not fit. *)
moveToNext ==
  IF unit = 0 /\ wc[2] + Units > MaxFileSize THEN <<wc[1] + 1, 0>> ELSE wc

FileAt(n) == IF n \in DOMAIN files THEN files[n] ELSE <<>>
SyncedAt(n) == IF n \in DOMAIN synced THEN synced[n] ELSE 0
(* The write handle of the current file is closed. *)
dropHandle ==
  IF open /\ synced[wc[1]] < Len(files[wc[1]]) THEN dropped \cup {wc[1]} ELSE dropped

Least(x, y) == IF x <= y THEN x ELSE y

WriteData ==
  /\ pc = "write" /\ todo # <<>>
  /\ LET at == moveToNext
         n == at[1]
     IN  /\ files' = Override(files, [k \in {n} |->
                        WriteAt(FileAt(n), at[2], Record(Head(todo))[unit + 1])])
         /\ synced' = Override(synced, [k \in {n} |-> Least(SyncedAt(n), at[2])])
         /\ dropped' = IF at = wc THEN dropped ELSE dropHandle
         /\ wc' = <<n, at[2] + 1>>
         /\ IF unit + 1 = Units
            THEN /\ pend' = putKey(pend, Head(todo), <<n, at[2] - unit>>)
                 /\ todo' = Tail(todo)
                 /\ unit' = 0
            ELSE unit' = unit + 1 /\ UNCHANGED <<pend, todo>>
  /\ open' = TRUE
  /\ UNCHANGED <<ldb, cache, mode, pc, old, snap, faultVars>>

(* The write fails, or before it the opening of the next file. *)
WriteFails ==
  /\ pc = "write" /\ todo # <<>>
  /\ Fault
  /\ LET at == moveToNext
     IN  /\ wc' = at
         /\ dropped' = IF at = wc THEN dropped ELSE dropHandle
         /\ \/ /\ files' = Override(files, [k \in {at[1]} |-> FileAt(at[1])])
               /\ synced' = Override(synced, [k \in {at[1]} |-> SyncedAt(at[1])])
               /\ open' = TRUE
            \/ /\ at # wc \/ ~open
               /\ open' = FALSE
               /\ UNCHANGED <<files, synced>>
  /\ pc' = "rollback"
  /\ UNCHANGED <<ldb, cache, mode, txVars, snap>>

-----------------------------------------------------------------------------
(* handleRollback, in a write transaction or when the database is opened.  *)
(* Whatever fails, the cursor goes back.                                   *)

AfterRollback ==
  /\ wc' = old
  /\ CloseTx
  /\ mode' = "up"

RollbackNothing ==
  /\ pc = "rollback" /\ wc = old
  /\ AfterRollback
  /\ UNCHANGED <<files, synced, open, dropped, ldb, cache, snap, faultVars>>

RollbackDelete ==
  /\ pc = "rollback" /\ wc[1] > old[1]
  /\ wc[1] \in DOMAIN files
  /\ files' = Without(files, {wc[1]})
  /\ synced' = Without(synced, {wc[1]})
  /\ dropped' = dropped \ {wc[1]}
  /\ open' = FALSE
  /\ wc' = <<wc[1] - 1, wc[2]>>
  /\ pc' = IF wc[1] - 1 = old[1] THEN "truncate" ELSE pc
  /\ UNCHANGED <<ldb, cache, mode, txVars, snap, faultVars>>

RollbackDeleteFails ==
  /\ pc = "rollback" /\ wc[1] > old[1]
  /\ \/ wc[1] \notin DOMAIN files /\ UNCHANGED faultVars
     \/ wc[1] \in DOMAIN files /\ Fault
  /\ dropped' = dropHandle
  /\ open' = FALSE
  /\ AfterRollback
  /\ UNCHANGED <<files, synced, ldb, cache, snap>>

Truncating ==
  pc = "truncate" \/ (pc = "rollback" /\ wc # old /\ wc[1] = old[1])

RollbackTruncate ==
  /\ Truncating
  /\ files' = Override(files, [k \in {old[1]} |-> Truncate(FileAt(old[1]), old[2])])
  /\ open' = TRUE
  /\ \/ /\ synced' = Override(synced, [k \in {old[1]} |-> Len(files'[old[1]])])
        /\ dropped' = dropped \ {old[1]}
        /\ UNCHANGED faultVars
     \/ /\ synced' = Override(synced, [k \in {old[1]} |-> Least(SyncedAt(old[1]), old[2])])
        /\ UNCHANGED dropped
        /\ Fault
  /\ AfterRollback
  /\ UNCHANGED <<ldb, cache, snap>>

(* The file does not open, or is not truncated. *)
RollbackTruncateFails ==
  /\ Truncating
  /\ Fault
  /\ open' \in {open, TRUE}
  /\ AfterRollback
  /\ UNCHANGED <<files, synced, dropped, ldb, cache, snap>>

-----------------------------------------------------------------------------
(* dbCache.commitTx, once the blocks are written.  needsFlush looks at the *)
(* clock and the size of the cache: both answers are possible.  An error   *)
(* ends the transaction, and here nothing goes back.                       *)

withCursor == putKey(pend, Cursor, wc)

CommitToCache ==
  /\ pc = "write" /\ todo = <<>>
  /\ cache' = commitTx(cache, withCursor)
  /\ CloseTx
  /\ UNCHANGED <<fileVars, ldb, mode, snap, faultVars>>

(* Mutant: the block file is not synced before the metadata. *)
syncNothing == synced

syncBlocks ==
  IF open THEN Override(synced, [k \in {wc[1]} |-> Len(files[wc[1]])]) ELSE synced

FlushSync ==
  /\ pc = "write" /\ todo = <<>>
  /\ synced' = syncBlocks
  /\ dropped' = IF open THEN dropped \ {wc[1]} ELSE dropped
  /\ pend' = withCursor
  /\ pc' = "flush"
  /\ UNCHANGED <<files, wc, open, ldb, cache, mode, old, todo, unit, snap, faultVars>>

FlushCache ==
  /\ pc = "flush"
  /\ ldb' = View
  /\ pc' = "clear"
  /\ UNCHANGED <<fileVars, cache, mode, txVars, snap, faultVars>>

ClearCache ==
  /\ pc = "clear"
  /\ cache' = NoChange
  /\ pc' = "direct"
  /\ UNCHANGED <<fileVars, ldb, mode, txVars, snap, faultVars>>

CommitDirect ==
  /\ pc = "direct"
  /\ ldb' = applied(ldb, pend)
  /\ CloseTx
  /\ UNCHANGED <<fileVars, cache, mode, snap, faultVars>>

FlushFails ==
  /\ \/ pc = "write" /\ todo = <<>>
     \/ pc \in {"flush", "direct"}
  /\ Fault
  /\ CloseTx
  /\ UNCHANGED <<fileVars, ldb, cache, mode, snap>>

-----------------------------------------------------------------------------
(* db.View: the snapshot of leveldb first, the root of the cache after it. *)

SnapLdb(r) ==
  /\ mode = "up"
  /\ snap[r].at = "none"
  /\ snap' = [snap EXCEPT ![r] = [at |-> "ldb", map |-> blockIndex(ldb), begun |-> stored]]
  /\ UNCHANGED <<fileVars, ldb, cache, mode, pc, txVars, faultVars>>

SnapCache(r) ==
  /\ snap[r].at = "ldb"
  /\ LET m == blockIndex(applied(snap[r].map, cache))
     IN  snap' = [snap EXCEPT ![r] = [at |-> "open", map |-> m,
                                      missed |-> snap[r].begun \ DOMAIN m]]
  /\ UNCHANGED <<fileVars, ldb, cache, mode, pc, txVars, faultVars>>

EndView(r) ==
  /\ snap[r].at = "open"
  /\ snap' = [snap EXCEPT ![r] = [at |-> "none"]]
  /\ UNCHANGED <<fileVars, ldb, cache, mode, pc, txVars, faultVars>>

-----------------------------------------------------------------------------
(* db.Close, crashes, and openDB. *)

Stop ==
  /\ mode' = "down"
  /\ cache' = NoChange
  /\ wc' = <<0, 0>> /\ open' = FALSE
  /\ snap' = [r \in Readers |-> [at |-> "none"]]
  /\ CloseTx

Close ==
  /\ mode = "up" /\ pc = "idle"
  /\ \A r \in Readers : snap[r].at = "none"
  /\ synced' = syncBlocks
  /\ dropped' = IF open THEN dropped \ {wc[1]} ELSE dropped
  /\ ldb' = View
  /\ Stop
  /\ UNCHANGED <<files, faultVars>>

Crash ==
  /\ mode \in {"up", "opening"} /\ crashes < MaxCrashes
  /\ crashes' = crashes + 1
  /\ Stop
  /\ UNCHANGED <<files, synced, dropped, ldb, faults, torn>>

(* The machine stops: a file may end anywhere after its synced prefix. *)
PowerFails ==
  /\ PowerLoss
  /\ mode # "corrupt" /\ crashes < MaxCrashes
  /\ crashes' = crashes + 1
  /\ \E left \in [DOMAIN files -> 0..MaxFileSize] :
       /\ \A n \in DOMAIN files : left[n] \in synced[n]..Len(files[n])
       /\ files' = [n \in DOMAIN files |-> SubSeq(files[n], 1, left[n])]
  /\ synced' = [n \in DOMAIN files |-> Len(files'[n])]
  /\ torn' = torn \cup {n \in DOMAIN files : n \in dropped /\ files'[n] # files[n]}
  /\ Stop
  /\ UNCHANGED <<ldb, faults, dropped>>

reconcileDB(found) ==
  CASE After(found, ldb[Cursor]) -> [mode |-> "opening", pc |-> "rollback"]
    [] After(ldb[Cursor], found) -> [mode |-> "corrupt", pc |-> "idle"]
    [] OTHER -> [mode |-> "up", pc |-> "idle"]

Open ==
  /\ mode = "down"
  /\ LET found == scanBlockFiles
         next == reconcileDB(found)
     IN  /\ wc' = found
         /\ mode' = next.mode /\ pc' = next.pc
         /\ old' = IF next.pc = "rollback" THEN ldb[Cursor] ELSE old
  /\ UNCHANGED <<files, synced, open, dropped, ldb, cache, todo, unit, pend, snap, faultVars>>

-----------------------------------------------------------------------------
Next ==
  \/ Begin \/ WriteData \/ WriteFails
  \/ RollbackNothing \/ RollbackDelete \/ RollbackDeleteFails
  \/ RollbackTruncate \/ RollbackTruncateFails
  \/ CommitToCache \/ FlushSync \/ FlushCache \/ ClearCache \/ CommitDirect
  \/ FlushFails
  \/ \E r \in Readers : SnapLdb(r) \/ SnapCache(r) \/ EndView(r)
  \/ Close \/ Crash \/ PowerFails \/ Open

Spec == Init /\ [][Next]_vars

-----------------------------------------------------------------------------
(* The state has its shape: no key is both put and removed, the metadata   *)
(* always has a write cursor, and no prefix is synced past the end of its  *)
(* file.                                                                   *)
TypeOK ==
  /\ mode \in {"up", "opening", "down", "corrupt"}
  /\ pc \in {"idle", "write", "rollback", "truncate", "flush", "clear", "direct"}
  /\ \A c \in {cache, pend} :
       /\ DOMAIN c.keys \cup c.removed \subseteq Blocks \cup {App, Cursor}
       /\ DOMAIN c.keys \cap c.removed = {}
  /\ Cursor \in DOMAIN ldb /\ Cursor \notin cache.removed
  /\ DOMAIN synced = DOMAIN files
  /\ \A n \in DOMAIN files : synced[n] \in 0..Len(files[n])
  /\ open => wc[1] \in DOMAIN files

Seen == {View} \cup {snap[r].map : r \in {q \in Readers : snap[q].at = "open"}}

(* A block the metadata has, the current one or that of a snapshot a       *)
(* reader still uses, reads back whole: no rollback, failed write or crash *)
(* touches a committed record.  The only exception is a record in a file   *)
(* that a power loss cut after its write handle was closed without a sync: *)
(* syncBlocks then has no handle of it.                                    *)
CommittedReadable ==
  mode = "up" =>
    \A m \in Seen : \A b \in DOMAIN m \cap Blocks :
      readable(b, m[b]) \/ m[b][1] \in torn

(* "This should only happen in the case of missing, deleted, or truncated  *)
(* block files": the block files never end before the write cursor of the  *)
(* metadata, unless a power loss cut them as above.                        *)
CursorNeverAhead ==
  mode = "corrupt" => ldb[Cursor][1] \in torn

(* Outside of a rollback the write cursor is behind every committed        *)
(* record, so that the next record overwrites none.                        *)
CursorPastRecords ==
  mode = "up" /\ pc \notin {"rollback", "truncate"} =>
    \A m \in Seen : \A b \in DOMAIN m \cap Blocks :
      ~After(<<m[b][1], m[b][2] + Units>>, wc)

(* "Snapshot returns a snapshot of the database cache and underlying       *)
(* database at a particular point in time": a reader sees every block that *)
(* was committed when its View began.                                      *)
SnapshotSeesCommitted ==
  \A r \in Readers : snap[r].at = "open" => snap[r].missed = {}

(* What a flush is for: the metadata on disk names no block that a crash   *)
(* can take out of the block files.                                        *)
DurableReadable ==
  mode = "up" => \A b \in DOMAIN ldb \cap Blocks : readable(b, ldb[b])

-----------------------------------------------------------------------------
(* What the callers see: the stored blocks, and whether their key is there. *)
StateOf(m) == [blocks |-> DOMAIN m \cap Blocks, app |-> App \in DOMAIN m]

Asked ==
  [blocks |-> stored \cup Range(todo) \cup (DOMAIN pend.keys \cap Blocks),
   app |-> App \in (DOMAIN View \cup DOMAIN pend.keys) \ pend.removed]

Durable ==
  INSTANCE DurableStore WITH
    States <- [blocks : SUBSET Blocks, app : BOOLEAN],
    current <- StateOf(View),
    durable <- StateOf(ldb),
    tx <- IF mode = "up" /\ pc # "idle" THEN {Asked} ELSE {}

(* The flat files, the cache and leveldb together keep the promise of      *)
(* DurableStore through failing operations and crashes of the process and  *)
(* of the machine.                                                         *)
ImplementsDurable == Durable!Spec

=============================================================================
