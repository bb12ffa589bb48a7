---------------------------- MODULE BlockProcess ----------------------------
(***************************************************************************)
(* How blocks enter a node (core/blockchain process.go, orphan.go,         *)
(* accept.go, notifications.go): ProcessBlock, the pool of orphan blocks   *)
(* and the cache of notifications, called by several goroutines at once.   *)
(* The block manager's handler processes the blocks mined here; the        *)
(* handler of the peer synchronisation processes the ones peers send, and  *)
(* refreshes the orphans, as do the goroutines that handle a connecting or *)
(* disconnecting peer (p2p/synch/handshake.go).                            *)
(*                                                                         *)
(* A step is one stretch of code under a lock, or one access to what no    *)
(* lock protects.  Go's race detector would report those accesses; a race  *)
(* is modelled by its orderings.                                           *)
(***************************************************************************)
EXTENDS Integers, Sequences, FiniteSets, Functions

CONSTANTS
  Threads,       \* goroutines that call ProcessBlock
  Syncers,       \* the ones that call RefreshOrphans as well
  Blocks,        \* blocks the node may be given
  Genesis,       \* the block the DAG starts with
  Parents,       \* block -> its parents
  Height,        \* block -> the height its coinbase claims
  Insane,        \* blocks checkBlockSanity or the checkpoint refuses
  Refused,       \* blocks checkBlockContext or the DAG refuses
  MaxOrphans     \* MaxOrphanBlocks * 2

ASSUME ProcessAssumption ==
  /\ Syncers \subseteq Threads
  /\ Genesis \notin Blocks
  /\ Parents \in [Blocks -> (SUBSET (Blocks \cup {Genesis})) \ {{}}]
  /\ Height \in [Blocks -> Nat]
  /\ MaxOrphans \in Nat \ {0}

VARIABLES
  dag,           \* blocks in the DAG, in the order of their ids
  orphans,       \* keys of BlockChain.orphans
  oldest,        \* the block of BlockChain.oldestOrphan, Genesis for nil
  cache,         \* BlockChain.CacheNotifications
  announced,     \* block -> how many times events.Send was given it
  readers,       \* goroutines that hold the chain lock for reading
  pc,            \* where each goroutine is
  cur,           \* the block it has in hand
  queue,         \* processOrphans' queue
  next,          \* where it goes on after flushNotifications
  snap,          \* the notifications flushNotifications ranges over
  ready,         \* history: orphans with all parents when the queue was made
  overlap        \* history: a call began while another was under way

vars == <<dag, orphans, oldest, cache, announced, readers, pc, cur, queue, next,
          snap, ready, overlap>>

InDag == Range(dag)

Init ==
  /\ dag = <<Genesis>>
  /\ orphans = {}
  /\ oldest = Genesis
  /\ cache = <<>>
  /\ announced = [b \in Blocks |-> 0]
  /\ readers = {}
  /\ pc = [t \in Threads |-> "idle"]
  /\ cur = [t \in Threads |-> Genesis]
  /\ queue = [t \in Threads |-> <<>>]
  /\ next = [t \in Threads |-> "idle"]
  /\ snap = [t \in Threads |-> <<>>]
  /\ ready = [t \in Threads |-> {}]
  /\ overlap = FALSE

Goto(t, from, to) == pc[t] = from /\ pc' = [pc EXCEPT ![t] = to]
Calling == overlap' = (overlap \/ \E u \in Threads : pc[u] # "idle")
DropBlock(t) == cur' = [cur EXCEPT ![t] = Genesis]

-----------------------------------------------------------------------------
(* ProcessBlock, up to its ChainRUnlock. *)

BeginProcess(t, b) ==
  /\ Goto(t, "idle", "check")
  /\ cur' = [cur EXCEPT ![t] = b]
  /\ readers' = readers \cup {t}
  /\ Calling
  /\ UNCHANGED <<dag, orphans, oldest, cache, announced, queue, next, snap,
                 ready>>

(* Mutant: the DAG is not asked for the block. *)
knownOrphan(b) == b \in orphans \cup Insane

known(b) == b \in InDag \cup orphans \cup Insane

(* Mutant: an early return without ChainRUnlock. *)
RefuseKeepsLock(t) ==
  /\ Goto(t, "check", "idle")
  /\ known(cur[t])
  /\ DropBlock(t)
  /\ UNCHANGED <<dag, orphans, oldest, cache, announced, readers, queue, next,
                 snap, ready, overlap>>

RefuseBlock(t) ==
  /\ Goto(t, "check", "idle")
  /\ known(cur[t])
  /\ readers' = readers \ {t}
  /\ DropBlock(t)
  /\ UNCHANGED <<dag, orphans, oldest, cache, announced, queue, next, snap,
                 ready, overlap>>

PassChecks(t) ==
  /\ Goto(t, "check", "parents")
  /\ ~known(cur[t])
  /\ UNCHANGED <<dag, orphans, oldest, cache, announced, readers, cur, queue,
                 next, snap, ready, overlap>>

hasParents(b) == Parents[b] \subseteq InDag

(* refreshOrphans drops the orphans that have expired or that are too far  *)
(* behind the main chain; which ones is left open.  An oldest orphan is    *)
(* only chosen when there is none, and nothing unsets it when it leaves.   *)
refreshOrphans(drop, old) ==
  /\ drop \subseteq orphans
  /\ old \in IF oldest # Genesis \/ orphans = drop THEN {oldest} ELSE orphans \ drop

(* IsOrphanOK may also turn the new orphan away: addOrphanBlock returns    *)
(* before it does anything, and ProcessBlock reports an orphan.            *)
addOrphanBlock(b) ==
  \/ UNCHANGED <<orphans, oldest>>
  \/ \E drop \in SUBSET orphans : \E old \in orphans \cup {oldest} :
       /\ refreshOrphans(drop, old)
       /\ IF Cardinality(orphans \ drop) + 1 > MaxOrphans
          THEN /\ orphans' = ((orphans \ drop) \ {old}) \cup {b}
               /\ oldest' = Genesis
          ELSE /\ orphans' = (orphans \ drop) \cup {b}
               /\ oldest' = old

(* Mutant: the orphan's return without ChainRUnlock. *)
AddOrphanKeepsLock(t) ==
  /\ Goto(t, "parents", "idle")
  /\ ~hasParents(cur[t])
  /\ addOrphanBlock(cur[t])
  /\ DropBlock(t)
  /\ UNCHANGED <<dag, cache, announced, readers, queue, next, snap, ready,
                 overlap>>

AddOrphan(t) ==
  /\ Goto(t, "parents", "idle")
  /\ ~hasParents(cur[t])
  /\ addOrphanBlock(cur[t])
  /\ readers' = readers \ {t}
  /\ DropBlock(t)
  /\ UNCHANGED <<dag, cache, announced, queue, next, snap, ready, overlap>>

GoAccept(t) ==
  /\ Goto(t, "parents", "accept")
  /\ hasParents(cur[t])
  /\ next' = [next EXCEPT ![t] = "refresh"]
  /\ readers' = readers \ {t}
  /\ UNCHANGED <<dag, orphans, oldest, cache, announced, cur, queue, snap,
                 ready, overlap>>

-----------------------------------------------------------------------------
(* maybeAcceptBlock: one step under the chain lock, which no reader may    *)
(* hold, then flushNotifications without it.  An error ends ProcessBlock,  *)
(* while processOrphans ignores it.                                        *)

(* Mutant: the notification is not sent. *)
AcceptSilently(t) ==
  /\ Goto(t, "accept", "flush")
  /\ readers = {}
  /\ hasParents(cur[t]) /\ cur[t] \notin Refused
  /\ dag' = Append(dag, cur[t])
  /\ DropBlock(t)
  /\ UNCHANGED <<orphans, oldest, cache, announced, readers, queue, next, snap,
                 ready, overlap>>

AcceptBlock(t) ==
  /\ Goto(t, "accept", "flush")
  /\ readers = {}
  /\ hasParents(cur[t]) /\ cur[t] \notin Refused
  /\ dag' = Append(dag, cur[t])
  /\ cache' = Append(cache, cur[t])
  /\ DropBlock(t)
  /\ UNCHANGED <<orphans, oldest, announced, readers, queue, next, snap,
                 ready, overlap>>

FailBlock(t) ==
  /\ Goto(t, "accept", "flush")
  /\ readers = {}
  /\ ~(hasParents(cur[t]) /\ cur[t] \notin Refused)
  /\ next' = [next EXCEPT ![t] = IF @ = "refresh" THEN "idle" ELSE @]
  /\ DropBlock(t)
  /\ UNCHANGED <<dag, orphans, oldest, cache, announced, readers, queue, snap,
                 ready, overlap>>

FlushNothing(t) ==
  /\ cache = <<>>
  /\ Goto(t, "flush", next[t])
  /\ next' = [next EXCEPT ![t] = "idle"]
  /\ UNCHANGED <<dag, orphans, oldest, cache, announced, readers, cur, queue,
                 snap, ready, overlap>>

FlushRange(t) ==
  /\ cache # <<>>
  /\ Goto(t, "flush", "send")
  /\ snap' = [snap EXCEPT ![t] = cache]
  /\ UNCHANGED <<dag, orphans, oldest, cache, announced, readers, cur, queue,
                 next, ready, overlap>>

occurrences(s, b) == Cardinality({i \in DOMAIN s : s[i] = b})

(* Mutant: the cache is not emptied. *)
FlushKeepsCache(t) ==
  /\ Goto(t, "send", next[t])
  /\ announced' = [b \in Blocks |-> announced[b] + occurrences(snap[t], b)]
  /\ snap' = [snap EXCEPT ![t] = <<>>]
  /\ next' = [next EXCEPT ![t] = "idle"]
  /\ UNCHANGED <<dag, orphans, oldest, cache, readers, cur, queue, ready,
                 overlap>>

FlushReset(t) ==
  /\ Goto(t, "send", next[t])
  /\ announced' = [b \in Blocks |-> announced[b] + occurrences(snap[t], b)]
  /\ cache' = <<>>
  /\ snap' = [snap EXCEPT ![t] = <<>>]
  /\ next' = [next EXCEPT ![t] = "idle"]
  /\ UNCHANGED <<dag, orphans, oldest, readers, cur, queue, ready, overlap>>

-----------------------------------------------------------------------------
(* RefreshOrphans, after an accepted block or for the synchronisation. *)

BeginRefresh(t) ==
  /\ Goto(t, "idle", "refresh")
  /\ Calling
  /\ UNCHANGED <<dag, orphans, oldest, cache, announced, readers, cur, queue,
                 next, snap, ready>>

Refresh(t) ==
  /\ Goto(t, "refresh", "queue")
  /\ \E drop \in SUBSET orphans : \E old \in orphans \cup {oldest} :
       /\ refreshOrphans(drop, old)
       /\ orphans' = orphans \ drop
       /\ oldest' = old
  /\ UNCHANGED <<dag, cache, announced, readers, cur, queue, next, snap,
                 ready, overlap>>

(* Mutants: the queue is not sorted; the last orphan is left out. *)
inAnyOrder(S) ==
  {q \in [1..Cardinality(S) -> S] :
     \A i, j \in 1..Cardinality(S) : i < j => q[i] # q[j]}

allButLast(S) ==
  {q \in [1..(Cardinality(S) - 1) -> S] :
     \A i, j \in 1..(Cardinality(S) - 1) :
       i < j => q[i] # q[j] /\ Height[q[i]] <= Height[q[j]]}

(* sort.Sort leaves the order of equal heights open. *)
byHeight(S) ==
  {q \in [1..Cardinality(S) -> S] :
     \A i, j \in 1..Cardinality(S) :
       i < j => q[i] # q[j] /\ Height[q[i]] <= Height[q[j]]}

MakeQueue(t) ==
  /\ Goto(t, "queue", "sweep")
  /\ \E q \in byHeight(orphans) : queue' = [queue EXCEPT ![t] = q]
  /\ ready' = [ready EXCEPT ![t] = {b \in orphans : hasParents(b)}]
  /\ UNCHANGED <<dag, orphans, oldest, cache, announced, readers, cur, next,
                 snap, overlap>>

(* The loop of processOrphans: it asks the DAG for the block and for its   *)
(* parents before it removes the orphan.  The DAG only grows, so the       *)
(* answers are as good in one step as in several.                          *)
SkipOrphan(t) ==
  /\ queue[t] # <<>>
  /\ Goto(t, "sweep", "sweep")
  /\ \/ /\ Head(queue[t]) \in InDag
        /\ orphans' = orphans \ {Head(queue[t])}
     \/ /\ Head(queue[t]) \notin InDag
        /\ ~hasParents(Head(queue[t]))
        /\ UNCHANGED orphans
  /\ queue' = [queue EXCEPT ![t] = Tail(@)]
  /\ UNCHANGED <<dag, oldest, cache, announced, readers, cur, next, snap,
                 ready, overlap>>

(* Mutant: the orphan stays in the pool. *)
TakeKeepsOrphan(t) ==
  /\ queue[t] # <<>>
  /\ Head(queue[t]) \notin InDag
  /\ hasParents(Head(queue[t]))
  /\ Goto(t, "sweep", "accept")
  /\ cur' = [cur EXCEPT ![t] = Head(queue[t])]
  /\ next' = [next EXCEPT ![t] = "sweep"]
  /\ queue' = [queue EXCEPT ![t] = Tail(@)]
  /\ UNCHANGED <<dag, orphans, oldest, cache, announced, readers, snap,
                 ready, overlap>>

TakeOrphan(t) ==
  /\ queue[t] # <<>>
  /\ Head(queue[t]) \notin InDag
  /\ hasParents(Head(queue[t]))
  /\ Goto(t, "sweep", "accept")
  /\ orphans' = orphans \ {Head(queue[t])}
  /\ cur' = [cur EXCEPT ![t] = Head(queue[t])]
  /\ next' = [next EXCEPT ![t] = "sweep"]
  /\ queue' = [queue EXCEPT ![t] = Tail(@)]
  /\ UNCHANGED <<dag, oldest, cache, announced, readers, snap, ready, overlap>>

EndRefresh(t) ==
  /\ queue[t] = <<>>
  /\ Goto(t, "sweep", "idle")
  /\ ready' = [ready EXCEPT ![t] = {}]
  /\ UNCHANGED <<dag, orphans, oldest, cache, announced, readers, cur, queue,
                 next, snap, overlap>>

-----------------------------------------------------------------------------
Accept(t) == AcceptBlock(t) \/ FailBlock(t)

Step(t) ==
  \/ RefuseBlock(t) \/ PassChecks(t) \/ AddOrphan(t) \/ GoAccept(t)
  \/ Accept(t)
  \/ FlushNothing(t) \/ FlushRange(t) \/ FlushReset(t)
  \/ Refresh(t) \/ MakeQueue(t) \/ SkipOrphan(t) \/ TakeOrphan(t) \/ EndRefresh(t)

Next ==
  \/ \E t \in Threads, b \in Blocks : BeginProcess(t, b)
  \/ \E t \in Syncers : BeginRefresh(t)
  \/ \E t \in Threads : Step(t)

Spec == Init /\ [][Next]_vars

(* A goroutine that can go on does.  ChainLock is strongly fair: sync's    *)
(* RWMutex lets no new reader in while a writer waits.                     *)
FairSpec ==
  /\ Spec
  /\ \A t \in Threads : WF_vars(Step(t)) /\ SF_vars(Accept(t))

-----------------------------------------------------------------------------
Stages == {"idle", "check", "parents", "accept", "flush", "send", "refresh",
           "queue", "sweep"}

AllIdle == \A t \in Threads : pc[t] = "idle"

(* Everything has its type: the cache and the queues hold known blocks,    *)
(* and the chain lock is held for reading exactly between ChainRLock and   *)
(* the ChainRUnlock of whichever of ProcessBlock's returns is taken.       *)
TypeOK ==
  /\ dag \in Seq(Blocks \cup {Genesis})
  /\ orphans \subseteq Blocks
  /\ oldest \in Blocks \cup {Genesis}
  /\ cache \in Seq(Blocks)
  /\ announced \in [Blocks -> Nat]
  /\ pc \in [Threads -> Stages]
  /\ cur \in [Threads -> Blocks \cup {Genesis}]
  /\ queue \in [Threads -> Seq(Blocks)]
  /\ next \in [Threads -> {"idle", "refresh", "sweep"}]
  /\ snap \in [Threads -> Seq(Blocks)]
  /\ ready \in [Threads -> SUBSET Blocks]
  /\ overlap \in BOOLEAN
  /\ readers = {t \in Threads : pc[t] \in {"check", "parents"}}

(* No block is an orphan and in the DAG at once.  ProcessBlock looks for   *)
(* the parents and adds the orphan under one ChainRLock, and               *)
(* processOrphans removes an orphan before it has it accepted.             *)
OrphansOutsideDag == orphans \cap InDag = {}

(* A refresh takes every orphan that had all its parents when its queue    *)
(* was made: one still in the pool is still in the queue, whatever the     *)
(* other goroutine adds, takes or accepts meanwhile.                       *)
SweepTakesReady ==
  \A t \in Threads : ready[t] \cap orphans \subseteq Range(queue[t])

(* Every call of ProcessBlock and RefreshOrphans returns: none of          *)
(* ProcessBlock's early returns keeps the read lock that maybeAcceptBlock  *)
(* of the other goroutine waits for, and the sweep of the orphans ends.    *)
CallsReturn ==
  \A t \in Threads : (pc[t] # "idle") ~> (pc[t] = "idle")

(* "Rejecting duplicate blocks", ProcessBlock's comment: no block is in    *)
(* the DAG twice.  Only the checks before maybeAcceptBlock look for it.    *)
NoDuplicateBlocks == \A i, j \in DOMAIN dag : dag[i] = dag[j] => i = j

(* The same as long as calls come one after the other, from whichever      *)
(* goroutine: known covers the DAG and the orphans.                        *)
NoDuplicatesInTurn == ~overlap => NoDuplicateBlocks

(* As long as calls come one after the other, each block of the DAG was    *)
(* announced to the subscribers when the last one has returned, as         *)
(* maybeAcceptBlock's comment on its notification says.                    *)
AcceptedAnnounced ==
  ~overlap /\ AllIdle => \A b \in InDag \ {Genesis} : announced[b] >= 1

(* As long as calls come one after the other, no block is announced twice: *)
(* flushNotifications empties the cache.                                   *)
AnnouncedOnce == ~overlap => \A b \in Blocks : announced[b] <= 1

(* An orphan with a parent as high as it is, or higher: in the queue the   *)
(* parent may come after it.                                               *)
overtaken(b) == \E p \in Parents[b] \cap Blocks : Height[b] <= Height[p]

(* processOrphans' comment: orphans that are no longer orphans are         *)
(* accepted until there are no more.  It sweeps the queue once, by height: *)
(* as long as calls come one after the other, the only ready orphans left  *)
(* when the last one has returned are those that a parent as high or       *)
(* higher may have followed in the queue.                                  *)
ReadyLeftOvertaken ==
  ~overlap /\ AllIdle => \A b \in orphans : hasParents(b) => overtaken(b)
=============================================================================
