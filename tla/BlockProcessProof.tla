-------------------------- MODULE BlockProcessProof --------------------------
(***************************************************************************)
(* For any number of goroutines, any blocks and any limit on the orphans,  *)
(* a block is never an orphan and in the DAG at once, and a refresh takes  *)
(* every orphan that was ready when its queue was made.                    *)
(*                                                                         *)
(* Neither is inductive.  That an orphan added by one goroutine is not     *)
(* being accepted by another needs Hands: what a goroutine found out about *)
(* the block it has in hand stays true, because the DAG only grows, does   *)
(* not grow while someone holds the read lock, and a block is only added   *)
(* to the orphans for want of a parent.                                    *)
(***************************************************************************)
EXTENDS BlockProcess, TLAPS, SequenceTheorems, FiniteSetTheorems

(* The DAG holds the parents of its blocks. *)
Closed == \A b \in Blocks \cap InDag : Parents[b] \subseteq InDag

(* What a goroutine knows of the block it has in hand. *)
Hands ==
  \A t \in Threads :
    /\ pc[t] \in {"check", "parents", "accept"} => cur[t] \in Blocks
    /\ pc[t] = "parents" => cur[t] \notin orphans \/ ~hasParents(cur[t])
    /\ pc[t] = "accept" => cur[t] \notin orphans /\ hasParents(cur[t])

ReadyHaveParents == \A t \in Threads : \A b \in ready[t] : hasParents(b)

ProcInv ==
  /\ TypeOK
  /\ IsFiniteSet(orphans)
  /\ Closed
  /\ Hands
  /\ ReadyHaveParents
  /\ OrphansOutsideDag
  /\ SweepTakesReady

-----------------------------------------------------------------------------
(* Appending to a sequence adds one element to its range. *)
LEMMA RangeAppend ==
  ASSUME NEW S, NEW s \in Seq(S), NEW e \in S
  PROVE  Append(s, e) \in Seq(S) /\ Range(Append(s, e)) = Range(s) \cup {e}
<1>1. /\ Append(s, e) \in Seq(S)
      /\ Len(Append(s, e)) = Len(s) + 1
      /\ \A i \in 1..Len(s) : Append(s, e)[i] = s[i]
      /\ Append(s, e)[Len(s) + 1] = e
  BY AppendProperties
<1>2. DOMAIN s = 1..Len(s) /\ DOMAIN Append(s, e) = 1..(Len(s) + 1) /\ Len(s) \in Nat
  BY <1>1
<1>3. ASSUME NEW x \in Range(Append(s, e)) PROVE x \in Range(s) \cup {e}
  BY <1>1, <1>2, <1>3 DEF Range
<1>4. ASSUME NEW x \in Range(s) \cup {e} PROVE x \in Range(Append(s, e))
  BY <1>1, <1>2, <1>4 DEF Range
<1> QED BY <1>1, <1>3, <1>4, Zenon

(* A sequence that is not empty ranges over its head and its tail. *)
LEMMA RangeTail ==
  ASSUME NEW S, NEW s \in Seq(S), s # <<>>
  PROVE  /\ Head(s) \in S /\ Tail(s) \in Seq(S)
         /\ Range(s) = {Head(s)} \cup Range(Tail(s))
<1>1. /\ Head(s) \in S
      /\ Tail(s) \in Seq(S)
      /\ Len(Tail(s)) = Len(s) - 1
      /\ \A i \in 1..Len(Tail(s)) : Tail(s)[i] = s[i + 1]
  BY HeadTailProperties, Zenon
<1>2. DOMAIN s = 1..Len(s) /\ DOMAIN Tail(s) = 1..(Len(s) - 1) /\ Len(s) \in Nat \ {0}
  BY <1>1
<1>3. Head(s) = s[1]
  OBVIOUS
<1>4. ASSUME NEW x \in Range(s) PROVE x \in {Head(s)} \cup Range(Tail(s))
  <2>1. PICK i \in 1..Len(s) : x = s[i]
    BY <1>2, Zenon DEF Range
  <2>2. CASE i = 1
    BY <1>3, <2>1, <2>2, Zenon
  <2>3. CASE i # 1
    <3>1. i - 1 \in 1..(Len(s) - 1) /\ (i - 1) + 1 = i
      BY <1>2, <2>3
    <3>2. Tail(s)[i - 1] = s[i]
      BY <1>1, <3>1, Zenon
    <3> QED BY <1>2, <2>1, <3>1, <3>2, Zenon DEF Range
  <2> QED BY <2>2, <2>3, Zenon
<1>5. ASSUME NEW x \in {Head(s)} \cup Range(Tail(s)) PROVE x \in Range(s)
  BY <1>1, <1>2, <1>3 DEF Range
<1> QED BY <1>1, <1>4, <1>5, Zenon

(* The queue processOrphans sorts holds every orphan. *)
LEMMA ByHeightIsWhole ==
  ASSUME NEW S, IsFiniteSet(S), NEW q \in byHeight(S)
  PROVE  q \in Seq(S) /\ Range(q) = S
<1> DEFINE n == Cardinality(S)
<1>1. n \in Nat
  BY FS_CardinalityType, Zenon
<1>2. q \in [1..n -> S] /\ \A i, j \in 1..n : i < j => q[i] # q[j]
  BY Zenon DEF byHeight
<1>3. q \in Injection(1..n, S)
  <2>1. ASSUME NEW i \in 1..n, NEW j \in 1..n, q[i] = q[j] PROVE i = j
    BY <1>1, <1>2, <2>1
  <2> QED BY <1>2, <2>1, Zenon DEF Injection, IsInjective
<1>4. Cardinality(1..n) = n
  BY <1>1, FS_Interval
<1>5. q \in Surjection(1..n, S)
  BY <1>3, <1>4, FS_Injection, Zenon
<1>6. q \in Seq(S)
  BY <1>1, <1>2, SeqDef, Zenon
<1> QED BY <1>2, <1>5, <1>6 DEF Surjection, Range

(* How often a block occurs among the notifications is a number. *)
LEMMA OccurrencesType ==
  ASSUME NEW s \in Seq(Blocks), NEW b PROVE occurrences(s, b) \in Nat
<1>1. IsFiniteSet(DOMAIN s)
  BY FS_Interval
<1>2. {i \in DOMAIN s : s[i] = b} \in SUBSET DOMAIN s
  BY Zenon
<1>3. IsFiniteSet({i \in DOMAIN s : s[i] = b})
  BY <1>1, <1>2, FS_Subset, Zenon
<1> QED BY <1>3, FS_CardinalityType, Zenon DEF occurrences

-----------------------------------------------------------------------------
(* The empty node satisfies the invariant. *)
LEMMA ProcInvInit == Init => ProcInv
<1> SUFFICES ASSUME Init PROVE ProcInv
  BY Zenon
<1>1. InDag = {Genesis} /\ dag \in Seq(Blocks \cup {Genesis})
  BY DEF Init, InDag, Range
<1>2. TypeOK
  <2>1. overlap \in BOOLEAN
    BY Zenon DEF Init
  <2> QED BY <1>1, <2>1, ProcessAssumption DEF Init, TypeOK, Stages
<1>3. IsFiniteSet(orphans)
  BY FS_EmptySet, Zenon DEF Init
<1>4. Closed /\ OrphansOutsideDag
  BY <1>1, ProcessAssumption, Zenon DEF Init, Closed, OrphansOutsideDag
<1>5. Hands /\ ReadyHaveParents /\ SweepTakesReady
  BY Zenon DEF Init, Hands, ReadyHaveParents, SweepTakesReady
<1> QED BY <1>2, <1>3, <1>4, <1>5, Zenon DEF ProcInv

(* addOrphanBlock adds at most the block it is given, and removes others. *)
LEMMA AddOrphanBlockKeeps ==
  ASSUME TypeOK, IsFiniteSet(orphans), NEW b \in Blocks, addOrphanBlock(b)
  PROVE  /\ orphans' \subseteq orphans \cup {b}
         /\ oldest' \in Blocks \cup {Genesis}
         /\ IsFiniteSet(orphans')
<1>1. orphans' \subseteq orphans \cup {b} /\ oldest' \in Blocks \cup {Genesis}
  BY Zenon DEF addOrphanBlock, refreshOrphans, TypeOK
<1>2. IsFiniteSet(orphans \cup {b})
  BY FS_AddElement, Zenon
<1> QED BY <1>1, <1>2, FS_Subset, Zenon

(* ProcessBlock up to its ChainRUnlock. *)
LEMMA ReadSteps ==
  ASSUME ProcInv, NEW t \in Threads,
         \/ \E b \in Blocks : BeginProcess(t, b)
         \/ RefuseBlock(t) \/ PassChecks(t) \/ AddOrphan(t) \/ GoAccept(t)
  PROVE  ProcInv'
<1> USE DEF Goto, DropBlock
<1>0. TypeOK /\ IsFiniteSet(orphans) /\ Closed /\ Hands /\ ReadyHaveParents
      /\ OrphansOutsideDag /\ SweepTakesReady
  BY Zenon DEF ProcInv
<1>1. /\ dag' = dag /\ InDag' = InDag
      /\ queue' = queue /\ ready' = ready
      /\ UNCHANGED <<cache, announced, snap>>
  BY Zenon DEF BeginProcess, RefuseBlock, PassChecks, AddOrphan, GoAccept, InDag
<1>2. \A b : hasParents(b)' = hasParents(b)
  BY <1>1, Zenon DEF hasParents
<1>3. CASE AddOrphan(t)
  <2>1. cur[t] \in Blocks /\ ~hasParents(cur[t]) /\ addOrphanBlock(cur[t])
    BY <1>0, <1>3, Zenon DEF AddOrphan, Hands
  <2>2. /\ orphans' \subseteq orphans \cup {cur[t]}
        /\ oldest' \in Blocks \cup {Genesis}
        /\ IsFiniteSet(orphans')
    BY <1>0, <2>1, AddOrphanBlockKeeps, Zenon
  <2>3. TypeOK'
    BY <1>0, <1>1, <1>3, <2>1, <2>2, Zenon DEF AddOrphan, TypeOK, Stages
  <2>4. Hands'
    BY <1>0, <1>2, <1>3, <2>1, <2>2, Zenon DEF AddOrphan, Hands, TypeOK
  <2>5. cur[t] \notin InDag
    BY <1>0, <2>1, Zenon DEF Closed, hasParents
  <2>6. OrphansOutsideDag'
    BY <1>0, <1>1, <2>2, <2>5, Zenon DEF OrphansOutsideDag
  <2>7. SweepTakesReady'
    BY <1>0, <1>1, <2>1, <2>2, Zenon DEF SweepTakesReady, ReadyHaveParents
  <2> QED BY <1>0, <1>1, <1>2, <2>2, <2>3, <2>4, <2>6, <2>7, Zenon
          DEF ProcInv, Closed, ReadyHaveParents
<1>4. CASE ~AddOrphan(t)
  <2>1. orphans' = orphans /\ oldest' = oldest
    BY <1>4, Zenon DEF BeginProcess, RefuseBlock, PassChecks, GoAccept
  <2>2. TypeOK'
    <3>1. CASE \E b \in Blocks : BeginProcess(t, b)
      <4>1. overlap' \in BOOLEAN
        BY <3>1, Zenon DEF BeginProcess, Calling
      <4> QED BY <1>0, <1>1, <2>1, <3>1, <4>1, SMTT(30) DEF TypeOK, Stages, BeginProcess
    <3>2. CASE RefuseBlock(t)
      BY <1>0, <1>1, <2>1, <3>2, Zenon DEF TypeOK, Stages, RefuseBlock
    <3>3. CASE PassChecks(t)
      BY <1>0, <1>1, <2>1, <3>3, Zenon DEF TypeOK, Stages, PassChecks
    <3>4. CASE GoAccept(t)
      BY <1>0, <1>1, <2>1, <3>4, Zenon DEF TypeOK, Stages, GoAccept
    <3> QED BY <1>4, <3>1, <3>2, <3>3, <3>4, Zenon
  <2>3. Hands'
    BY <1>0, <1>2, <1>4, <2>1, ZenonT(40)
       DEF TypeOK, Hands, BeginProcess, RefuseBlock, PassChecks, GoAccept, known
  <2> QED BY <1>0, <1>1, <1>2, <2>1, <2>2, <2>3, Zenon
          DEF ProcInv, Closed, ReadyHaveParents, OrphansOutsideDag, SweepTakesReady
<1> QED BY <1>3, <1>4, Zenon

(* maybeAcceptBlock: the DAG grows by a block whose parents it has, while  *)
(* nobody holds the read lock.                                             *)
LEMMA AcceptSteps ==
  ASSUME ProcInv, NEW t \in Threads, AcceptBlock(t) \/ FailBlock(t)
  PROVE  ProcInv'
<1> USE DEF Goto, DropBlock
<1>0. TypeOK /\ IsFiniteSet(orphans) /\ Closed /\ Hands /\ ReadyHaveParents
      /\ OrphansOutsideDag /\ SweepTakesReady
  BY Zenon DEF ProcInv
<1>1. /\ pc[t] = "accept" /\ pc' = [pc EXCEPT ![t] = "flush"]
      /\ readers = {} /\ readers' = {}
      /\ cur' = [cur EXCEPT ![t] = Genesis]
      /\ UNCHANGED <<orphans, oldest, announced, queue, snap, ready, overlap>>
  BY Zenon DEF AcceptBlock, FailBlock
<1>2. \A s \in Threads : pc[s] # "parents"
  BY <1>0, <1>1, Zenon DEF TypeOK
<1>3. cur[t] \in Blocks /\ cur[t] \notin orphans
  BY <1>0, <1>1, Zenon DEF Hands
<1>4. InDag \subseteq InDag' /\ InDag' \subseteq InDag \cup {cur[t]}
      /\ dag' \in Seq(Blocks \cup {Genesis}) /\ cache' \in Seq(Blocks)
  <2>1. CASE AcceptBlock(t)
    <3>1. dag' = Append(dag, cur[t]) /\ cache' = Append(cache, cur[t])
      BY <2>1, Zenon DEF AcceptBlock
    <3>2. dag \in Seq(Blocks \cup {Genesis}) /\ cache \in Seq(Blocks)
      BY <1>0, Zenon DEF TypeOK
    <3> QED BY <1>3, <3>1, <3>2, RangeAppend DEF InDag
  <2>2. CASE FailBlock(t)
    BY <1>0, <2>2, Zenon DEF FailBlock, TypeOK, InDag
  <2> QED BY <2>1, <2>2, Zenon
<1>5. \A b : hasParents(b) => hasParents(b)'
  BY <1>4, Zenon DEF hasParents
<1>6. next' \in [Threads -> {"idle", "refresh", "sweep"}]
  BY <1>0, Zenon DEF AcceptBlock, FailBlock, TypeOK
<1>7. TypeOK'
  BY <1>0, <1>1, <1>4, <1>6, ZenonT(40) DEF TypeOK, Stages
<1>8. Closed'
  <2>1. hasParents(cur[t])
    BY <1>0, <1>1, Zenon DEF Hands
  <2> QED BY <1>0, <1>4, <2>1, Zenon DEF Closed, hasParents
<1>9. Hands'
  BY <1>0, <1>1, <1>2, <1>5, Zenon DEF Hands, TypeOK
<1>10. OrphansOutsideDag'
  BY <1>0, <1>1, <1>3, <1>4, Zenon DEF OrphansOutsideDag
<1> QED BY <1>0, <1>1, <1>5, <1>7, <1>8, <1>9, <1>10, Zenon
        DEF ProcInv, ReadyHaveParents, SweepTakesReady

(* flushNotifications and the start and end of RefreshOrphans change       *)
(* neither the orphans nor the DAG.                                        *)
LEMMA FlushSteps ==
  ASSUME ProcInv, NEW t \in Threads,
         FlushNothing(t) \/ FlushRange(t) \/ FlushReset(t) \/ BeginRefresh(t)
           \/ EndRefresh(t)
  PROVE  ProcInv'
<1> USE DEF Goto
<1>0. TypeOK /\ IsFiniteSet(orphans) /\ Closed /\ Hands /\ ReadyHaveParents
      /\ OrphansOutsideDag /\ SweepTakesReady
  BY Zenon DEF ProcInv
<1>1. /\ InDag' = InDag
      /\ UNCHANGED <<dag, orphans, oldest, cur, queue, readers>>
  BY Zenon DEF FlushNothing, FlushRange, FlushReset, BeginRefresh, EndRefresh, InDag
<1>2. \A b : hasParents(b)' = hasParents(b)
  BY <1>1, Zenon DEF hasParents
<1>3. \A s \in Threads : ready'[s] \subseteq ready[s]
  BY <1>0, ZenonT(40) DEF FlushNothing, FlushRange, FlushReset, BeginRefresh, EndRefresh, TypeOK
<1>4. \A s \in Threads :
        pc'[s] \in {"check", "parents", "accept"} <=> pc[s] = pc'[s]
          /\ pc[s] \in {"check", "parents", "accept"}
  BY <1>0, Zenon DEF FlushNothing, FlushRange, FlushReset, BeginRefresh, EndRefresh, TypeOK
<1>5. TypeOK'
  <2>1. CASE FlushNothing(t)
    BY <1>0, <1>1, <2>1, Zenon DEF FlushNothing, TypeOK, Stages
  <2>2. CASE FlushRange(t)
    BY <1>0, <1>1, <2>2, Zenon DEF FlushRange, TypeOK, Stages
  <2>3. CASE FlushReset(t)
    <3>1. \A b \in Blocks : occurrences(snap[t], b) \in Nat
      BY <1>0, OccurrencesType, Zenon DEF TypeOK
    <3>2. announced' \in [Blocks -> Nat]
      BY <1>0, <2>3, <3>1, SMTT(30) DEF FlushReset, TypeOK
    <3> QED BY <1>0, <1>1, <2>3, <3>2 DEF FlushReset, TypeOK, Stages
  <2>4. CASE BeginRefresh(t)
    <3>1. overlap' \in BOOLEAN
      BY <2>4, Zenon DEF BeginRefresh, Calling
    <3> QED BY <1>0, <1>1, <2>4, <3>1, Zenon DEF BeginRefresh, TypeOK, Stages
  <2>5. CASE EndRefresh(t)
    BY <1>0, <1>1, <2>5, Zenon DEF EndRefresh, TypeOK, Stages
  <2> QED BY <2>1, <2>2, <2>3, <2>4, <2>5, Zenon
<1>6. Hands'
  BY <1>0, <1>1, <1>2, <1>4, Zenon DEF Hands
<1>7. ReadyHaveParents' /\ SweepTakesReady'
  BY <1>0, <1>1, <1>2, <1>3, Zenon DEF ReadyHaveParents, SweepTakesReady
<1> QED BY <1>0, <1>1, <1>5, <1>6, <1>7, Zenon DEF ProcInv, Closed, OrphansOutsideDag

(* RefreshOrphans: only processOrphans and refreshOrphans remove orphans,  *)
(* and each one taken from the queue is taken from the pool or has no      *)
(* parents yet.                                                            *)
LEMMA RefreshSteps ==
  ASSUME ProcInv, NEW t \in Threads,
         Refresh(t) \/ MakeQueue(t) \/ SkipOrphan(t) \/ TakeOrphan(t)
  PROVE  ProcInv'
<1> USE DEF Goto
<1>0. TypeOK /\ IsFiniteSet(orphans) /\ Closed /\ Hands /\ ReadyHaveParents
      /\ OrphansOutsideDag /\ SweepTakesReady
  BY Zenon DEF ProcInv
<1>1. InDag' = InDag /\ UNCHANGED <<dag, cache, announced, readers, snap, overlap>>
  BY Zenon DEF Refresh, MakeQueue, SkipOrphan, TakeOrphan, InDag
<1>2. \A b : hasParents(b)' = hasParents(b)
  BY <1>1, Zenon DEF hasParents
<1>3. orphans' \subseteq orphans
  BY Zenon DEF Refresh, MakeQueue, SkipOrphan, TakeOrphan
<1>4. IsFiniteSet(orphans') /\ Closed' /\ OrphansOutsideDag'
  BY <1>0, <1>1, <1>3, FS_Subset, Zenon DEF Closed, OrphansOutsideDag
<1>5. CASE Refresh(t)
  <2>1. UNCHANGED <<cur, queue, next, ready>> /\ oldest' \in Blocks \cup {Genesis}
    BY <1>0, <1>5, Zenon DEF Refresh, refreshOrphans, TypeOK
  <2>2. TypeOK'
    BY <1>0, <1>1, <1>3, <1>5, <2>1, Zenon DEF Refresh, TypeOK, Stages
  <2>3. Hands'
    BY <1>0, <1>2, <1>3, <1>5, <2>1, Zenon DEF Refresh, Hands, TypeOK
  <2>4. ReadyHaveParents' /\ SweepTakesReady'
    BY <1>0, <1>2, <1>3, <2>1, Zenon DEF ReadyHaveParents, SweepTakesReady
  <2> QED BY <1>4, <2>2, <2>3, <2>4, Zenon DEF ProcInv
<1>6. CASE MakeQueue(t)
  <2>1. PICK q \in byHeight(orphans) : queue' = [queue EXCEPT ![t] = q]
    BY <1>6, Zenon DEF MakeQueue
  <2>2. q \in Seq(orphans) /\ Range(q) = orphans
    BY <1>0, ByHeightIsWhole, Zenon
  <2>3. q \in Seq(Blocks)
    BY <1>0, <2>2, SeqMonotonic, Zenon DEF TypeOK
  <2>4. UNCHANGED <<orphans, oldest, cur, next>>
        /\ ready' = [ready EXCEPT ![t] = {b \in orphans : hasParents(b)}]
    BY <1>6, Zenon DEF MakeQueue
  <2>5. TypeOK'
    BY <1>0, <1>1, <1>6, <2>1, <2>3, <2>4, SMTT(30) DEF MakeQueue, TypeOK, Stages
  <2>6. Hands'
    BY <1>0, <1>2, <1>6, <2>4, Zenon DEF MakeQueue, Hands, TypeOK
  <2>7. ReadyHaveParents' /\ SweepTakesReady'
    BY <1>0, <1>2, <2>1, <2>2, <2>4, Zenon DEF ReadyHaveParents, SweepTakesReady, TypeOK
  <2> QED BY <1>4, <2>5, <2>6, <2>7, Zenon DEF ProcInv
<1>7. ASSUME SkipOrphan(t) \/ TakeOrphan(t)
      PROVE  /\ queue[t] \in Seq(Blocks) /\ Head(queue[t]) \in Blocks
             /\ Range(queue[t]) = {Head(queue[t])} \cup Range(Tail(queue[t]))
             /\ queue' = [queue EXCEPT ![t] = Tail(queue[t])]
             /\ queue' \in [Threads -> Seq(Blocks)]
             /\ UNCHANGED <<oldest, ready>>
  <2>1. queue[t] \in Seq(Blocks) /\ queue[t] # <<>>
    BY <1>0, <1>7, Zenon DEF SkipOrphan, TakeOrphan, TypeOK
  <2>2. /\ Head(queue[t]) \in Blocks /\ Tail(queue[t]) \in Seq(Blocks)
        /\ Range(queue[t]) = {Head(queue[t])} \cup Range(Tail(queue[t]))
    BY <2>1, RangeTail, Zenon
  <2>3. queue' = [queue EXCEPT ![t] = Tail(queue[t])] /\ UNCHANGED <<oldest, ready>>
    BY <1>7, Zenon DEF SkipOrphan, TakeOrphan
  <2> QED BY <1>0, <2>1, <2>2, <2>3, Zenon DEF TypeOK
<1>8. CASE SkipOrphan(t)
  <2>1. Head(queue[t]) \notin orphans' \/ ~hasParents(Head(queue[t]))
    BY <1>8, Zenon DEF SkipOrphan
  <2>2. TypeOK'
    BY <1>0, <1>1, <1>3, <1>7, <1>8, ZenonT(40) DEF SkipOrphan, TypeOK, Stages
  <2>3. Hands'
    BY <1>0, <1>2, <1>3, <1>8, Zenon DEF SkipOrphan, Hands, TypeOK
  <2>4. ReadyHaveParents' /\ SweepTakesReady'
    BY <1>0, <1>2, <1>3, <1>7, <1>8, <2>1, ZenonT(40) DEF ReadyHaveParents, SweepTakesReady, TypeOK
  <2> QED BY <1>4, <2>2, <2>3, <2>4, Zenon DEF ProcInv
<1>9. CASE TakeOrphan(t)
  <2>1. /\ orphans' = orphans \ {Head(queue[t])}
        /\ hasParents(Head(queue[t]))
        /\ cur' = [cur EXCEPT ![t] = Head(queue[t])]
        /\ pc' = [pc EXCEPT ![t] = "accept"] /\ pc[t] = "sweep"
        /\ next' = [next EXCEPT ![t] = "sweep"]
    BY <1>9, Zenon DEF TakeOrphan
  <2>2. TypeOK'
    BY <1>0, <1>1, <1>3, <1>7, <1>9, <2>1, Zenon DEF TypeOK, Stages
  <2>3. Hands'
    BY <1>0, <1>2, <1>7, <1>9, <2>1, Zenon DEF Hands, TypeOK
  <2>4. ReadyHaveParents' /\ SweepTakesReady'
    BY <1>0, <1>2, <1>7, <1>9, <2>1, ZenonT(40) DEF ReadyHaveParents, SweepTakesReady, TypeOK
  <2> QED BY <1>4, <2>2, <2>3, <2>4, Zenon DEF ProcInv
<1> QED BY <1>5, <1>6, <1>8, <1>9, Zenon

-----------------------------------------------------------------------------
(* The invariant holds of every behaviour. *)
LEMMA ProcInvariant == Spec => []ProcInv
<1>1. ASSUME ProcInv, [Next]_vars PROVE ProcInv'
  <2>1. CASE UNCHANGED vars
    BY <1>1, <2>1, Zenon DEF vars, ProcInv, TypeOK, Closed, Hands, ReadyHaveParents,
                             OrphansOutsideDag, SweepTakesReady, hasParents, InDag
  <2>2. CASE \E t \in Threads, b \in Blocks : BeginProcess(t, b)
    BY <1>1, <2>2, ReadSteps, Zenon
  <2>3. CASE \E t \in Syncers : BeginRefresh(t)
    BY <1>1, <2>3, FlushSteps, ProcessAssumption, Zenon
  <2>4. CASE \E t \in Threads : Step(t)
    BY <1>1, <2>4, ReadSteps, AcceptSteps, FlushSteps, RefreshSteps, Zenon DEF Step, Accept
  <2> QED BY <1>1, <2>1, <2>2, <2>3, <2>4, Zenon DEF Next
<1> QED BY <1>1, ProcInvInit, PTL DEF Spec

(* Type correctness, and the read lock of the chain held exactly between   *)
(* ChainRLock and ChainRUnlock on every path through ProcessBlock.         *)
THEOREM TypeCorrect == Spec => []TypeOK
<1>1. ProcInv => TypeOK
  BY Zenon DEF ProcInv
<1> QED BY <1>1, ProcInvariant, PTL

(* No block is ever an orphan and in the DAG at once, however calls of     *)
(* ProcessBlock and RefreshOrphans interleave.                             *)
THEOREM OrphansAlwaysOutsideDag == Spec => []OrphansOutsideDag
<1>1. ProcInv => OrphansOutsideDag
  BY Zenon DEF ProcInv
<1> QED BY <1>1, ProcInvariant, PTL

(* processOrphans takes every orphan that had its parents when it made its *)
(* queue, whatever other goroutines do meanwhile.                          *)
THEOREM SweepAlwaysTakesReady == Spec => []SweepTakesReady
<1>1. ProcInv => SweepTakesReady
  BY Zenon DEF ProcInv
<1> QED BY <1>1, ProcInvariant, PTL

-----------------------------------------------------------------------------
(***************************************************************************)
(* As long as the calls of ProcessBlock and RefreshOrphans come one after  *)
(* the other, from whichever goroutine: no block enters the DAG twice,     *)
(* every block is announced once, and an orphan left in the pool although  *)
(* its parents are known is no higher than one of them.                    *)
(*                                                                         *)
(* The three are about idle goroutines, and hold because of what is true   *)
(* while one is under way.  TurnInv: the block in hand is not in the DAG,  *)
(* and a block of the DAG is either announced or in the cache, which holds *)
(* nothing outside flushNotifications.  SweepInv: an orphan processOrphans *)
(* has passed over is no higher than what is left in the queue, so a       *)
(* parent accepted from there on is as high as it is, or higher.           *)
(***************************************************************************)

Alone ==
  \A t, u \in Threads : pc[t] # "idle" /\ pc[u] # "idle" => t = u

(* The block in hand passed known, or the look of processOrphans. *)
Fresh == \A t \in Threads : pc[t] \in {"parents", "accept"} => cur[t] \notin InDag

Counted ==
  \A b \in Blocks :
    announced[b] + occurrences(cache, b) = IF b \in InDag THEN 1 ELSE 0

CacheFlushed ==
  /\ cache # <<>> => \E t \in Threads : pc[t] \in {"flush", "send"}
  /\ \A t \in Threads : pc[t] = "send" => snap[t] = cache

TurnInv ==
  ~overlap => Alone /\ Fresh /\ NoDuplicateBlocks /\ Counted /\ CacheFlushed

(* A goroutine that cannot have made an orphan ready: nothing was accepted *)
(* since the last sweep.                                                   *)
Settled(t) ==
  \/ pc[t] \in {"idle", "check", "parents"}
  \/ pc[t] = "accept" /\ next[t] = "refresh"
  \/ pc[t] \in {"flush", "send"} /\ next[t] = "idle"

Sweeping(t) ==
  \/ pc[t] = "sweep"
  \/ pc[t] \in {"accept", "flush", "send"} /\ next[t] = "sweep"

Sorted(q) == \A i, j \in 1..Len(q) : i < j => Height[q[i]] <= Height[q[j]]

(* An orphan that waits for a parent, unless one overtook it. *)
Waits(b) == hasParents(b) => overtaken(b)

(* The orphans t has passed over wait, and t has nothing lower than they   *)
(* are left.                                                               *)
PassedOver(t) ==
  \A b \in orphans \ Range(queue[t]) :
    /\ Waits(b)
    /\ \A x \in Range(queue[t]) : Height[b] <= Height[x]
    /\ pc[t] = "accept" => Height[b] <= Height[cur[t]]

AllWait == \A b \in orphans : Waits(b)

(* A block is accepted for ProcessBlock or for processOrphans. *)
NextInHand == \A t \in Threads : pc[t] = "accept" => next[t] # "idle"

SweepInv ==
  /\ NextInHand
  /\ ~overlap =>
       /\ (\A t \in Threads : Settled(t)) => AllWait
       /\ \A t \in Threads : Sweeping(t) => Sorted(queue[t]) /\ PassedOver(t)

-----------------------------------------------------------------------------
(* Appending a block to the notifications adds one occurrence of it. *)
LEMMA OccurrencesAppend ==
  ASSUME NEW s \in Seq(Blocks), NEW e \in Blocks, NEW b
  PROVE  occurrences(Append(s, e), b) = occurrences(s, b) + IF b = e THEN 1 ELSE 0
<1> DEFINE at == {i \in DOMAIN s : s[i] = b}
           after == {i \in DOMAIN Append(s, e) : Append(s, e)[i] = b}
<1>1. /\ DOMAIN s = 1..Len(s) /\ Len(s) \in Nat
      /\ DOMAIN Append(s, e) = 1..(Len(s) + 1)
      /\ \A i \in 1..Len(s) : Append(s, e)[i] = s[i]
      /\ Append(s, e)[Len(s) + 1] = e
  BY AppendProperties
<1>2. IsFiniteSet(at) /\ Cardinality(at) \in Nat
  <2>1. IsFiniteSet(DOMAIN s) /\ at \in SUBSET DOMAIN s
    BY <1>1, FS_Interval
  <2> QED BY <2>1, FS_Subset, FS_CardinalityType, Zenon
<1>3. CASE b = e
  <2>1. after = at \cup {Len(s) + 1} /\ Len(s) + 1 \notin at
    BY <1>1, <1>3
  <2> QED BY <1>2, <1>3, <2>1, FS_AddElement, Zenon DEF occurrences
<1>4. CASE b # e
  <2>1. after = at
    BY <1>1, <1>4
  <2>2. occurrences(Append(s, e), b) = occurrences(s, b) /\ occurrences(s, b) \in Nat
    BY <1>2, <2>1, Zenon DEF occurrences
  <2> QED BY <1>4, <2>2
<1> QED BY <1>3, <1>4, Zenon

(* An empty cache has no notification of any block. *)
LEMMA OccurrencesNone == ASSUME NEW b PROVE occurrences(<<>>, b) = 0
<1>1. {i \in DOMAIN <<>> : <<>>[i] = b} = {}
  OBVIOUS
<1> QED BY <1>1, FS_EmptySet, Zenon DEF occurrences

-----------------------------------------------------------------------------
(* A call that begins in turn begins with everyone idle. *)
LEMMA TurnBegin ==
  ASSUME ProcInv, TurnInv, NEW t \in Threads,
         (\E b \in Blocks : BeginProcess(t, b)) \/ BeginRefresh(t)
  PROVE  TurnInv'
<1> USE DEF Goto
<1> SUFFICES ASSUME ~overlap'
             PROVE  Alone' /\ Fresh' /\ NoDuplicateBlocks' /\ Counted' /\ CacheFlushed'
  BY Zenon DEF TurnInv
<1>1. ~overlap /\ \A u \in Threads : pc[u] = "idle"
  BY Zenon DEF BeginProcess, BeginRefresh, Calling
<1>2. pc \in [Threads -> Stages]
  BY Zenon DEF ProcInv, TypeOK
<1>3. /\ UNCHANGED <<dag, cache, announced, snap>>
      /\ pc'[t] \in {"check", "refresh"} /\ \A u \in Threads \ {t} : pc'[u] = "idle"
  BY <1>1, <1>2, Zenon DEF BeginProcess, BeginRefresh
<1>4. Alone' /\ Fresh'
  BY <1>3, Zenon DEF Alone, Fresh
<1>5. NoDuplicateBlocks' /\ Counted'
  BY <1>1, <1>3, Zenon DEF TurnInv, NoDuplicateBlocks, Counted, InDag
<1>6. CacheFlushed'
  BY <1>1, <1>3, Zenon DEF TurnInv, CacheFlushed
<1> QED BY <1>4, <1>5, <1>6, Zenon

(* maybeAcceptBlock adds the block in hand to the DAG and to the cache. *)
LEMMA TurnAccept ==
  ASSUME ProcInv, TurnInv, NEW t \in Threads, AcceptBlock(t)
  PROVE  TurnInv'
<1> USE DEF Goto
<1> SUFFICES ASSUME ~overlap'
             PROVE  Alone' /\ Fresh' /\ NoDuplicateBlocks' /\ Counted' /\ CacheFlushed'
  BY Zenon DEF TurnInv
<1>1. ~overlap /\ Alone /\ Fresh /\ NoDuplicateBlocks /\ Counted /\ CacheFlushed
  BY Zenon DEF AcceptBlock, TurnInv
<1>2. TypeOK /\ Hands
  BY Zenon DEF ProcInv
<1>3. /\ pc[t] = "accept" /\ pc' = [pc EXCEPT ![t] = "flush"]
      /\ dag' = Append(dag, cur[t]) /\ cache' = Append(cache, cur[t])
      /\ UNCHANGED <<announced, snap>>
  BY Zenon DEF AcceptBlock
<1>4. /\ cur[t] \in Blocks /\ cur[t] \notin InDag
      /\ cur[t] \in Blocks \cup {Genesis} /\ cur[t] \notin Range(dag)
      /\ dag \in Seq(Blocks \cup {Genesis})
  BY <1>1, <1>2, <1>3, Zenon DEF Hands, Fresh, InDag, TypeOK
<1>5. pc'[t] = "flush" /\ \A u \in Threads \ {t} : pc'[u] = "idle"
  BY <1>1, <1>2, <1>3, Zenon DEF Alone, TypeOK
<1>6. Alone' /\ Fresh' /\ CacheFlushed'
  BY <1>5, Zenon DEF Alone, Fresh, CacheFlushed
<1>7. NoDuplicateBlocks'
  <2>1. /\ Len(dag) \in Nat /\ DOMAIN dag = 1..Len(dag)
        /\ DOMAIN dag' = 1..(Len(dag) + 1)
        /\ \A i \in 1..Len(dag) : dag'[i] = dag[i]
        /\ dag'[Len(dag) + 1] = cur[t]
    BY <1>3, <1>4, AppendProperties, SMTT(30)
  <2>2. \A i \in 1..Len(dag) : dag[i] # cur[t]
    BY <1>4, <2>1, Zenon DEF Range
  <2>3. \A i \in 1..(Len(dag) + 1) : i \in 1..Len(dag) \/ i = Len(dag) + 1
    BY <2>1
  <2>4. \A i, j \in 1..Len(dag) : dag[i] = dag[j] => i = j
    BY <1>1, <2>1, Zenon DEF NoDuplicateBlocks
  <2>5. ASSUME NEW i \in DOMAIN dag', NEW j \in DOMAIN dag', dag'[i] = dag'[j]
        PROVE  i = j
    BY <2>1, <2>2, <2>3, <2>4, <2>5, Zenon
  <2> QED BY <2>5, Zenon DEF NoDuplicateBlocks
<1>8. Counted'
  <2>1. InDag' = InDag \cup {cur[t]}
    BY <1>3, <1>4, RangeAppend, SMTT(30) DEF InDag
  <2>2. ASSUME NEW b \in Blocks
        PROVE  announced'[b] + occurrences(cache', b) = IF b \in InDag' THEN 1 ELSE 0
    <3>1. occurrences(cache', b) = occurrences(cache, b) + IF b = cur[t] THEN 1 ELSE 0
      BY <1>2, <1>3, <1>4, OccurrencesAppend, ZenonT(40) DEF TypeOK
    <3>2. announced'[b] \in Nat /\ occurrences(cache, b) \in Nat /\ announced'[b] = announced[b]
      BY <1>2, <1>3, OccurrencesType, Zenon DEF TypeOK
    <3>3. announced[b] + occurrences(cache, b) = IF b \in InDag THEN 1 ELSE 0
      BY <1>1, Zenon DEF Counted
    <3> QED BY <1>4, <2>1, <3>1, <3>2, <3>3, SMTT(30)
  <2> QED BY <2>2, Zenon DEF Counted
<1> QED BY <1>6, <1>7, <1>8, Zenon

(* flushNotifications announces what is in the cache and empties it. *)
LEMMA TurnReset ==
  ASSUME ProcInv, TurnInv, NEW t \in Threads, FlushReset(t)
  PROVE  TurnInv'
<1> USE DEF Goto
<1> SUFFICES ASSUME ~overlap'
             PROVE  Alone' /\ Fresh' /\ NoDuplicateBlocks' /\ Counted' /\ CacheFlushed'
  BY Zenon DEF TurnInv
<1>1. ~overlap /\ Alone /\ NoDuplicateBlocks /\ Counted /\ CacheFlushed
  BY Zenon DEF FlushReset, TurnInv
<1>2. TypeOK
  BY Zenon DEF ProcInv
<1>3. /\ pc[t] = "send" /\ pc' = [pc EXCEPT ![t] = next[t]] /\ cache' = <<>> /\ dag' = dag
      /\ announced' = [b \in Blocks |-> announced[b] + occurrences(snap[t], b)]
  BY Zenon DEF FlushReset
<1>4. /\ pc'[t] \in {"idle", "refresh", "sweep"}
      /\ \A u \in Threads \ {t} : pc'[u] = "idle"
  BY <1>1, <1>2, <1>3, Zenon DEF Alone, TypeOK
<1>5. Alone' /\ Fresh' /\ CacheFlushed'
  BY <1>3, <1>4, Zenon DEF Alone, Fresh, CacheFlushed
<1>6. NoDuplicateBlocks'
  BY <1>1, <1>3, Zenon DEF NoDuplicateBlocks
<1>7. Counted'
  <2>1. ASSUME NEW b \in Blocks
        PROVE  announced'[b] + occurrences(cache', b) = IF b \in InDag' THEN 1 ELSE 0
    <3>1. snap[t] = cache /\ occurrences(cache', b) = 0
      BY <1>1, <1>3, OccurrencesNone, Zenon DEF CacheFlushed
    <3>2. announced[b] \in Nat /\ occurrences(cache, b) \in Nat
      BY <1>2, OccurrencesType, Zenon DEF TypeOK
    <3>3. announced[b] + occurrences(cache, b) = IF b \in InDag THEN 1 ELSE 0
      BY <1>1, Zenon DEF Counted
    <3>4. InDag' = InDag /\ announced'[b] = announced[b] + occurrences(cache, b)
      BY <1>3, <3>1, Zenon DEF InDag
    <3> QED BY <3>1, <3>2, <3>3, <3>4, SMTT(30)
  <2> QED BY <2>1, Zenon DEF Counted
<1> QED BY <1>5, <1>6, <1>7, Zenon

(* No other step touches the DAG, the cache or the announcements. *)
LEMMA TurnOther ==
  ASSUME ProcInv, TurnInv, NEW t \in Threads, Step(t), ~AcceptBlock(t), ~FlushReset(t)
  PROVE  TurnInv'
<1> USE DEF Goto
<1> SUFFICES ASSUME ~overlap'
             PROVE  Alone' /\ Fresh' /\ NoDuplicateBlocks' /\ Counted' /\ CacheFlushed'
  BY Zenon DEF TurnInv
<1> DEFINE A == \/ RefuseBlock(t) \/ AddOrphan(t) \/ FailBlock(t) \/ FlushNothing(t)
                \/ FlushRange(t) \/ Refresh(t) \/ MakeQueue(t) \/ SkipOrphan(t) \/ EndRefresh(t)
<1>0. A \/ PassChecks(t) \/ GoAccept(t) \/ TakeOrphan(t)
  BY Zenon DEF Step, Accept
<1>1. UNCHANGED <<dag, cache, announced, overlap>>
  BY <1>0, Zenon DEF RefuseBlock, AddOrphan, FailBlock, FlushNothing, FlushRange, Refresh,
              MakeQueue, SkipOrphan, EndRefresh, PassChecks, GoAccept, TakeOrphan
<1>2. ~overlap /\ Alone /\ Fresh /\ NoDuplicateBlocks /\ Counted /\ CacheFlushed
  BY <1>1, Zenon DEF TurnInv
<1>3. TypeOK
  BY Zenon DEF ProcInv
<1>4. InDag' = InDag
  BY <1>1, Zenon DEF InDag
<1>5. NoDuplicateBlocks' /\ Counted'
  BY <1>1, <1>2, <1>4, Zenon DEF NoDuplicateBlocks, Counted
<1>6. PICK to \in Stages : pc[t] # "idle" /\ pc' = [pc EXCEPT ![t] = to]
  BY <1>0, <1>3, Zenon DEF RefuseBlock, AddOrphan, FailBlock, FlushNothing, FlushRange, Refresh,
                    MakeQueue, SkipOrphan, EndRefresh, PassChecks, GoAccept, TakeOrphan,
                    TypeOK, Stages
<1>7. pc'[t] = to /\ \A u \in Threads \ {t} : pc[u] = "idle" /\ pc'[u] = "idle"
  BY <1>2, <1>3, <1>6, Zenon DEF Alone, TypeOK
<1>8. Alone'
  BY <1>7, Zenon DEF Alone
<1>9. Fresh'
  <2>1. CASE A
    <3>1. pc'[t] \notin {"parents", "accept"}
      BY <1>3, <2>1, Zenon DEF RefuseBlock, AddOrphan, FailBlock, FlushNothing, FlushRange,
                        Refresh, MakeQueue, SkipOrphan, EndRefresh, TypeOK
    <3> QED BY <1>7, <3>1, Zenon DEF Fresh
  <2>2. CASE PassChecks(t)
    BY <1>4, <1>7, <2>2, Zenon DEF PassChecks, known, Fresh
  <2>3. CASE GoAccept(t)
    BY <1>2, <1>4, <1>7, <2>3, Zenon DEF GoAccept, Fresh
  <2>4. CASE TakeOrphan(t)
    BY <1>3, <1>4, <1>7, <2>4, Zenon DEF TakeOrphan, Fresh, TypeOK
  <2> QED BY <1>0, <2>1, <2>2, <2>3, <2>4, Zenon
<1>10. CacheFlushed'
  <2>1. CASE FlushRange(t)
    BY <1>1, <1>3, <1>7, <2>1, Zenon DEF FlushRange, CacheFlushed, TypeOK
  <2>2. CASE ~FlushRange(t)
    <3>1. cache = <<>>
      BY <1>0, <1>2, <1>7, <2>2, Zenon
         DEF CacheFlushed, RefuseBlock, AddOrphan, FailBlock, FlushNothing, Refresh,
             MakeQueue, SkipOrphan, EndRefresh, PassChecks, GoAccept, TakeOrphan
    <3>2. pc'[t] # "send"
      BY <1>0, <1>3, <2>2, Zenon
         DEF RefuseBlock, AddOrphan, FailBlock, FlushNothing, Refresh, MakeQueue,
             SkipOrphan, EndRefresh, PassChecks, GoAccept, TakeOrphan, TypeOK
    <3> QED BY <1>1, <1>7, <3>1, <3>2, Zenon DEF CacheFlushed
  <2> QED BY <2>1, <2>2, Zenon
<1> QED BY <1>5, <1>8, <1>9, <1>10, Zenon

(* The bookkeeping of calls that come in turn. *)
LEMMA TurnInvariant == Spec => []TurnInv
<1>1. Init => TurnInv
  <2> SUFFICES ASSUME Init PROVE Alone /\ Fresh /\ NoDuplicateBlocks /\ Counted /\ CacheFlushed
    BY Zenon DEF TurnInv
  <2>1. InDag = {Genesis} /\ DOMAIN dag = {1}
    BY DEF Init, InDag, Range
  <2>2. Alone /\ Fresh /\ NoDuplicateBlocks /\ CacheFlushed
    BY <2>1, Zenon DEF Init, Alone, Fresh, NoDuplicateBlocks, CacheFlushed
  <2>3. Counted
    BY <2>1, OccurrencesNone, ProcessAssumption DEF Init, Counted
  <2> QED BY <2>2, <2>3, Zenon
<1>2. ASSUME ProcInv, TurnInv, [Next]_vars PROVE TurnInv'
  <2>1. CASE UNCHANGED vars
    BY <1>2, <2>1, Zenon DEF vars, TurnInv, Alone, Fresh, NoDuplicateBlocks, Counted,
                             CacheFlushed, InDag
  <2>2. CASE \E t \in Threads, b \in Blocks : BeginProcess(t, b)
    BY <1>2, <2>2, TurnBegin, Zenon
  <2>3. CASE \E t \in Syncers : BeginRefresh(t)
    BY <1>2, <2>3, TurnBegin, ProcessAssumption, Zenon
  <2>4. CASE \E t \in Threads : Step(t)
    BY <1>2, <2>4, TurnAccept, TurnReset, TurnOther, Zenon
  <2> QED BY <1>2, <2>1, <2>2, <2>3, <2>4, Zenon DEF Next
<1> QED BY <1>1, <1>2, ProcInvariant, PTL DEF Spec

(* ProcessBlock's check keeps duplicates out as long as no other call is   *)
(* under way between it and maybeAcceptBlock.                              *)
THEOREM NoDuplicatesWhenInTurn == Spec => []NoDuplicatesInTurn
<1>1. TurnInv => NoDuplicatesInTurn
  BY Zenon DEF TurnInv, NoDuplicatesInTurn
<1> QED BY <1>1, TurnInvariant, PTL

(* When calls come in turn and the last one has returned, every block of   *)
(* the DAG was announced.                                                  *)
THEOREM AcceptedBlocksAnnounced == Spec => []AcceptedAnnounced
<1>1. ASSUME ProcInv, TurnInv PROVE AcceptedAnnounced
  <2> SUFFICES ASSUME ~overlap, AllIdle, NEW b \in InDag \ {Genesis} PROVE announced[b] >= 1
    BY Zenon DEF AcceptedAnnounced
  <2>1. TypeOK /\ Counted /\ CacheFlushed
    BY <1>1, Zenon DEF ProcInv, TurnInv
  <2>2. b \in Blocks
    BY <2>1 DEF TypeOK, InDag, Range
  <2>3. cache = <<>>
    BY <2>1, Zenon DEF AllIdle, CacheFlushed
  <2>4. announced[b] + 0 = 1
    BY <2>1, <2>2, <2>3, OccurrencesNone, Zenon DEF Counted
  <2>5. announced[b] \in Nat
    BY <2>1, <2>2, Zenon DEF TypeOK
  <2> QED BY <2>4, <2>5
<1> QED BY <1>1, ProcInvariant, TurnInvariant, PTL

(* When calls come in turn, flushNotifications announces no block twice. *)
THEOREM NeverAnnouncedTwice == Spec => []AnnouncedOnce
<1>1. ASSUME ProcInv, TurnInv PROVE AnnouncedOnce
  <2> SUFFICES ASSUME ~overlap, NEW b \in Blocks PROVE announced[b] <= 1
    BY Zenon DEF AnnouncedOnce
  <2>1. TypeOK /\ Counted
    BY <1>1, Zenon DEF ProcInv, TurnInv
  <2>2. announced[b] \in Nat /\ occurrences(cache, b) \in Nat
    BY <2>1, OccurrencesType, Zenon DEF TypeOK
  <2>3. announced[b] + occurrences(cache, b) = IF b \in InDag THEN 1 ELSE 0
    BY <2>1, Zenon DEF Counted
  <2> QED BY <2>2, <2>3
<1> QED BY <1>1, ProcInvariant, TurnInvariant, PTL

-----------------------------------------------------------------------------
(* What is left of a sorted queue is sorted and no lower than its head. *)
LEMMA SortedTail ==
  ASSUME NEW q \in Seq(Blocks), q # <<>>, Sorted(q)
  PROVE  Sorted(Tail(q)) /\ \A x \in Range(Tail(q)) : Height[Head(q)] <= Height[x]
<1>1. /\ Tail(q) \in Seq(Blocks) /\ Len(q) \in Nat \ {0}
      /\ Len(Tail(q)) = Len(q) - 1 /\ Head(q) = q[1]
      /\ \A i \in 1..Len(Tail(q)) : Tail(q)[i] = q[i + 1]
  BY HeadTailProperties
<1>2. \A i \in 1..Len(Tail(q)) : i + 1 \in 1..Len(q) /\ 1 < i + 1
  BY <1>1
<1>3. ASSUME NEW i \in 1..Len(Tail(q)), NEW j \in 1..Len(Tail(q)), i < j
      PROVE  Height[Tail(q)[i]] <= Height[Tail(q)[j]]
  <2>1. i + 1 < j + 1 /\ i + 1 \in 1..Len(q) /\ j + 1 \in 1..Len(q)
    BY <1>2, <1>3
  <2> QED BY <1>1, <2>1, Zenon DEF Sorted
<1>4. ASSUME NEW x \in Range(Tail(q)) PROVE Height[Head(q)] <= Height[x]
  <2>1. PICK i \in 1..Len(Tail(q)) : x = Tail(q)[i]
    BY <1>1 DEF Range
  <2>2. 1 \in 1..Len(q) /\ i + 1 \in 1..Len(q) /\ 1 < i + 1 /\ x = q[i + 1]
    BY <1>1, <1>2, <2>1
  <2> QED BY <1>1, <2>2, Zenon DEF Sorted
<1> QED BY <1>3, <1>4, Zenon DEF Sorted

(* While one goroutine is at work, it alone decides what is ready. *)
LEMMA SweepFrame ==
  ASSUME TypeOK, SweepInv, Alone, ~overlap, NEW t \in Threads, pc[t] # "idle",
         NEW to, pc' = [pc EXCEPT ![t] = to]
  PROVE  /\ Settled(t) => AllWait
         /\ Sweeping(t) => Sorted(queue[t]) /\ PassedOver(t)
         /\ /\ NextInHand'
            /\ Settled(t)' => AllWait'
            /\ Sweeping(t)' => Sorted(queue'[t]) /\ PassedOver(t)'
            => SweepInv'
<1>1. \A u \in Threads \ {t} : pc[u] = "idle" /\ pc'[u] = "idle"
  BY Zenon DEF Alone, TypeOK
<1>2. \A u \in Threads \ {t} : Settled(u) /\ ~Sweeping(u)' /\ ~Sweeping(u)
  BY <1>1, Zenon DEF Settled, Sweeping
<1>3. Settled(t) => AllWait
  BY <1>2, Zenon DEF SweepInv
<1>4. Sweeping(t) => Sorted(queue[t]) /\ PassedOver(t)
  BY Zenon DEF SweepInv
<1>5. ASSUME NextInHand', Settled(t)' => AllWait',
             Sweeping(t)' => Sorted(queue'[t]) /\ PassedOver(t)'
      PROVE  SweepInv'
  BY <1>2, <1>5, Zenon DEF SweepInv
<1> QED BY <1>3, <1>4, <1>5, Zenon

(* A call that begins finds every orphan waiting and leaves it so. *)
LEMMA SweepBegin ==
  ASSUME ProcInv, TurnInv, SweepInv, NEW t \in Threads,
         (\E b \in Blocks : BeginProcess(t, b)) \/ BeginRefresh(t)
  PROVE  SweepInv'
<1> USE DEF Goto
<1>1. pc \in [Threads -> Stages]
  BY Zenon DEF ProcInv, TypeOK
<1>2. /\ UNCHANGED <<dag, orphans, next>> /\ InDag' = InDag
      /\ \A u \in Threads : pc'[u] = pc[u] \/ (u = t /\ pc'[u] \in {"check", "refresh"})
  BY <1>1, Zenon DEF BeginProcess, BeginRefresh, InDag
<1>3. NextInHand'
  BY <1>2, Zenon DEF SweepInv, NextInHand
<1>4. ASSUME ~overlap'
      PROVE  AllWait' /\ \A u \in Threads : ~Sweeping(u)'
  <2>1. ~overlap /\ \A u \in Threads : pc[u] = "idle"
    BY <1>4, Zenon DEF BeginProcess, BeginRefresh, Calling
  <2>2. AllWait
    BY <2>1, Zenon DEF SweepInv, Settled
  <2> QED BY <1>2, <2>1, <2>2, Zenon DEF Waits, AllWait, hasParents, Sweeping
<1> QED BY <1>3, <1>4, Zenon DEF SweepInv

(* ProcessBlock adds an orphan only for want of a parent. *)
LEMMA SweepProcess ==
  ASSUME ProcInv, TurnInv, SweepInv, NEW t \in Threads,
         RefuseBlock(t) \/ PassChecks(t) \/ AddOrphan(t) \/ GoAccept(t)
  PROVE  SweepInv'
<1> USE DEF Goto
<1>0. TypeOK /\ IsFiniteSet(orphans) /\ Hands
  BY Zenon DEF ProcInv
<1>1. /\ pc[t] \in {"check", "parents"}
      /\ UNCHANGED <<dag, overlap>> /\ InDag' = InDag
  BY Zenon DEF RefuseBlock, PassChecks, AddOrphan, GoAccept, InDag
<1>2. PICK to \in {"idle", "parents", "accept"} : pc' = [pc EXCEPT ![t] = to]
  BY Zenon DEF RefuseBlock, PassChecks, AddOrphan, GoAccept
<1>3. pc'[t] = to /\ \A u \in Threads \ {t} : pc'[u] = pc[u]
  BY <1>0, <1>2, Zenon DEF TypeOK
<1>4. to = "accept" => next'[t] = "refresh"
  BY <1>0, <1>1, <1>2, <1>3, Zenon DEF RefuseBlock, PassChecks, AddOrphan, GoAccept, TypeOK
<1>5. \A u \in Threads \ {t} : next'[u] = next[u]
  BY <1>0, Zenon DEF RefuseBlock, PassChecks, AddOrphan, GoAccept, TypeOK
<1>6. NextInHand'
  BY <1>3, <1>4, <1>5, Zenon DEF SweepInv, NextInHand
<1>7. \A b \in orphans' : b \in orphans \/ ~hasParents(b)
  <2>1. CASE AddOrphan(t)
    BY <1>0, <1>1, <2>1, AddOrphanBlockKeeps, Zenon DEF AddOrphan, Hands
  <2>2. CASE ~AddOrphan(t)
    BY <2>2, Zenon DEF RefuseBlock, PassChecks, GoAccept
  <2> QED BY <2>1, <2>2, Zenon
<1>8. ASSUME ~overlap PROVE SweepInv'
  <2>1. Alone
    BY <1>8, Zenon DEF TurnInv
  <2>2. Settled(t) /\ pc[t] # "idle"
    BY <1>1, Zenon DEF Settled
  <2>3. AllWait
    BY <1>0, <1>2, <1>8, <2>1, <2>2, SweepFrame, Zenon
  <2>4. AllWait'
    BY <1>1, <1>7, <2>3, Zenon DEF Waits, AllWait, hasParents
  <2>5. ~Sweeping(t)'
    BY <1>3, <1>4, Zenon DEF Sweeping
  <2> QED BY <1>0, <1>2, <1>6, <1>8, <2>1, <2>2, <2>4, <2>5, SweepFrame, Zenon
<1> QED BY <1>1, <1>6, <1>8, Zenon DEF SweepInv

(* A block accepted from the queue that is a parent of an orphan passed    *)
(* over overtook it: it is no lower.  One accepted for ProcessBlock is     *)
(* followed by a sweep of its own.                                         *)
LEMMA SweepAccept ==
  ASSUME ProcInv, TurnInv, SweepInv, NEW t \in Threads, AcceptBlock(t)
  PROVE  SweepInv'
<1> USE DEF Goto
<1>0. TypeOK /\ Hands
  BY Zenon DEF ProcInv
<1>1. /\ pc[t] = "accept" /\ pc' = [pc EXCEPT ![t] = "flush"]
      /\ dag' = Append(dag, cur[t])
      /\ UNCHANGED <<orphans, queue, next, overlap>>
  BY Zenon DEF AcceptBlock
<1>2. pc'[t] = "flush" /\ \A u \in Threads \ {t} : pc'[u] = pc[u]
  BY <1>0, <1>1, Zenon DEF TypeOK
<1>3. NextInHand'
  BY <1>1, <1>2, Zenon DEF SweepInv, NextInHand
<1>4. ~Settled(t)'
  <2>1. next[t] # "idle"
    BY <1>1, Zenon DEF SweepInv, NextInHand
  <2> QED BY <1>1, <1>2, <2>1, Zenon DEF Settled
<1>5. ASSUME ~overlap PROVE SweepInv'
  <2>1. Alone
    BY <1>5, Zenon DEF TurnInv
  <2>2. ASSUME Sweeping(t)' PROVE Sorted(queue'[t]) /\ PassedOver(t)'
    <3>1. Sweeping(t)
      BY <1>1, <1>2, <2>2, Zenon DEF Sweeping
    <3>2. Sorted(queue[t]) /\ PassedOver(t)
      BY <1>0, <1>1, <1>5, <2>1, <3>1, SweepFrame, Zenon
    <3>3. ASSUME NEW b \in orphans \ Range(queue[t]) PROVE Waits(b)'
      <4>1. b \in Blocks /\ cur[t] \in Blocks
        BY <1>0, <1>1, Zenon DEF TypeOK, Hands
      <4>2. Waits(b) /\ Height[b] <= Height[cur[t]]
        BY <1>1, <3>2, Zenon DEF PassedOver
      <4>3. cur[t] \in Parents[b] => overtaken(b)
        BY <4>1, <4>2, Zenon DEF overtaken
      <4>4. InDag' = InDag \cup {cur[t]}
        <5>1. cur[t] \in Blocks \cup {Genesis} /\ dag \in Seq(Blocks \cup {Genesis})
          BY <1>0, <4>1, Zenon DEF TypeOK
        <5> QED BY <1>1, <5>1, RangeAppend DEF InDag
      <4>5. cur[t] \notin Parents[b] => (hasParents(b)' => hasParents(b))
        BY <4>4, Zenon DEF hasParents
      <4> QED BY <4>2, <4>3, <4>5, Zenon DEF Waits
    <3> QED BY <1>1, <1>2, <3>2, <3>3, Zenon DEF PassedOver
  <2> QED BY <1>0, <1>1, <1>3, <1>4, <1>5, <2>1, <2>2, SweepFrame, Zenon
<1> QED BY <1>1, <1>3, <1>5, Zenon DEF SweepInv

(* A failure and flushNotifications go on where the call left off. *)
LEMMA SweepFlush ==
  ASSUME ProcInv, TurnInv, SweepInv, NEW t \in Threads,
         FailBlock(t) \/ FlushNothing(t) \/ FlushRange(t) \/ FlushReset(t)
  PROVE  SweepInv'
<1> USE DEF Goto
<1>0. TypeOK
  BY Zenon DEF ProcInv
<1>1. /\ pc[t] \in {"accept", "flush", "send"}
      /\ UNCHANGED <<dag, orphans, queue, overlap>> /\ InDag' = InDag
  BY Zenon DEF FailBlock, FlushNothing, FlushRange, FlushReset, InDag
<1>2. PICK to \in {"flush", "send", "idle", "refresh", "sweep"} : pc' = [pc EXCEPT ![t] = to]
  BY <1>0, Zenon DEF FailBlock, FlushNothing, FlushRange, FlushReset, TypeOK
<1>3. pc'[t] = to /\ \A u \in Threads \ {t} : pc'[u] = pc[u]
  BY <1>0, <1>2, Zenon DEF TypeOK
<1>4. \A u \in Threads \ {t} : next'[u] = next[u]
  BY <1>0, Zenon DEF FailBlock, FlushNothing, FlushRange, FlushReset, TypeOK
<1>5. NextInHand'
  BY <1>3, <1>4, Zenon DEF SweepInv, NextInHand
<1>6. (Settled(t)' => Settled(t)) /\ (Sweeping(t)' => Sweeping(t))
  <2>1. CASE FailBlock(t)
    BY <1>0, <2>1, Zenon DEF FailBlock, Settled, Sweeping, SweepInv, NextInHand, TypeOK
  <2>2. CASE FlushNothing(t)
    BY <1>0, <2>2, Zenon DEF FlushNothing, Settled, Sweeping, TypeOK
  <2>3. CASE FlushRange(t)
    BY <1>0, <2>3, Zenon DEF FlushRange, Settled, Sweeping, TypeOK
  <2>4. CASE FlushReset(t)
    BY <1>0, <2>4, Zenon DEF FlushReset, Settled, Sweeping, TypeOK
  <2> QED BY <2>1, <2>2, <2>3, <2>4, Zenon
<1>7. ASSUME ~overlap PROVE SweepInv'
  <2>1. Alone /\ pc[t] # "idle"
    BY <1>1, <1>7, Zenon DEF TurnInv
  <2>2. Settled(t)' => AllWait
    BY <1>0, <1>2, <1>6, <1>7, <2>1, SweepFrame, Zenon
  <2>3. Sweeping(t)' => Sorted(queue[t]) /\ PassedOver(t)
    BY <1>0, <1>2, <1>6, <1>7, <2>1, SweepFrame, Zenon
  <2>4. AllWait => AllWait'
    BY <1>1, Zenon DEF Waits, AllWait, hasParents
  <2>5. PassedOver(t) => PassedOver(t)'
    BY <1>1, <1>3, Zenon DEF Waits, PassedOver, hasParents
  <2>6. queue'[t] = queue[t]
    BY <1>1, Zenon
  <2> QED BY <1>0, <1>2, <1>5, <1>7, <2>1, <2>2, <2>3, <2>4, <2>5, <2>6, SweepFrame, Zenon
<1> QED BY <1>1, <1>5, <1>7, Zenon DEF SweepInv

(* RefreshOrphans: the queue starts with every orphan, in order of height, *)
(* and ends with all of the ones passed over waiting.                      *)
LEMMA SweepLoop ==
  ASSUME ProcInv, TurnInv, SweepInv, NEW t \in Threads,
         Refresh(t) \/ MakeQueue(t) \/ SkipOrphan(t) \/ TakeOrphan(t) \/ EndRefresh(t)
  PROVE  SweepInv'
<1> USE DEF Goto
<1>0. TypeOK /\ IsFiniteSet(orphans)
  BY Zenon DEF ProcInv
<1>1. /\ pc[t] \in {"refresh", "queue", "sweep"}
      /\ UNCHANGED <<dag, overlap>> /\ InDag' = InDag
  BY Zenon DEF Refresh, MakeQueue, SkipOrphan, TakeOrphan, EndRefresh, InDag
<1>2. PICK to \in {"queue", "sweep", "accept", "idle"} : pc' = [pc EXCEPT ![t] = to]
  BY Zenon DEF Refresh, MakeQueue, SkipOrphan, TakeOrphan, EndRefresh
<1>3. pc'[t] = to /\ \A u \in Threads \ {t} : pc'[u] = pc[u]
  BY <1>0, <1>2, Zenon DEF TypeOK
<1>4. \A u \in Threads \ {t} : next'[u] = next[u]
  BY <1>0, Zenon DEF Refresh, MakeQueue, SkipOrphan, TakeOrphan, EndRefresh, TypeOK
<1>5. to = "accept" => next'[t] = "sweep"
  BY <1>0, <1>2, <1>3, Zenon DEF Refresh, MakeQueue, SkipOrphan, TakeOrphan, EndRefresh, TypeOK
<1>6. NextInHand'
  BY <1>3, <1>4, <1>5, Zenon DEF SweepInv, NextInHand
<1>7. \A b : hasParents(b)' = hasParents(b)
  BY <1>1, Zenon DEF hasParents
<1>8. ASSUME ~overlap
      PROVE  (Settled(t)' => AllWait') /\ (Sweeping(t)' => Sorted(queue'[t]) /\ PassedOver(t)')
  <2>1. Alone /\ pc[t] # "idle"
    BY <1>1, <1>8, Zenon DEF TurnInv
  <2>2. Sweeping(t) => Sorted(queue[t]) /\ PassedOver(t)
    BY <1>0, <1>2, <1>8, <2>1, SweepFrame, Zenon
  <2>3. CASE Refresh(t)
    <3>1. pc'[t] = "queue"
      BY <1>0, <2>3, Zenon DEF Refresh, TypeOK
    <3> QED BY <3>1, Zenon DEF Settled, Sweeping
  <2>4. CASE MakeQueue(t)
    <3>1. PICK q \in byHeight(orphans) : queue' = [queue EXCEPT ![t] = q]
      BY <2>4, Zenon DEF MakeQueue
    <3>2. q \in Seq(orphans) /\ Range(q) = orphans
      BY <1>0, ByHeightIsWhole, Zenon
    <3>3. queue'[t] = q /\ pc'[t] = "sweep" /\ orphans' = orphans
      BY <1>0, <2>4, <3>1, Zenon DEF MakeQueue, TypeOK
    <3>4. Sorted(q)
      <4>1. /\ q \in [1..Cardinality(orphans) -> orphans]
            /\ \A i, j \in 1..Cardinality(orphans) : i < j => Height[q[i]] <= Height[q[j]]
        BY Zenon DEF byHeight
      <4>2. 1..Len(q) = 1..Cardinality(orphans)
        BY <3>2, <4>1, SMTT(30)
      <4> QED BY <4>1, <4>2, Zenon DEF Sorted
    <3>5. PassedOver(t)'
      BY <3>2, <3>3, Zenon DEF PassedOver
    <3> QED BY <3>3, <3>4, <3>5, Zenon DEF Settled
  <2>5. ASSUME SkipOrphan(t) \/ TakeOrphan(t)
        PROVE  /\ Sorted(queue'[t]) /\ PassedOver(t) /\ pc[t] = "sweep"
               /\ Range(queue[t]) = {Head(queue[t])} \cup Range(queue'[t])
               /\ \A x \in Range(queue'[t]) : Height[Head(queue[t])] <= Height[x]
    <3>1. queue[t] \in Seq(Blocks) /\ queue[t] # <<>> /\ pc[t] = "sweep"
      BY <1>0, <2>5, Zenon DEF SkipOrphan, TakeOrphan, TypeOK
    <3>2. Sorted(queue[t]) /\ PassedOver(t)
      BY <2>2, <3>1, Zenon DEF Sweeping
    <3>3. queue'[t] = Tail(queue[t])
      BY <1>0, <2>5, Zenon DEF SkipOrphan, TakeOrphan, TypeOK
    <3> QED BY <3>1, <3>2, <3>3, SortedTail, RangeTail, Zenon
  <2>6. CASE SkipOrphan(t)
    <3>1. pc'[t] = "sweep"
      BY <1>0, <2>6, Zenon DEF SkipOrphan, TypeOK
    <3>2. ASSUME NEW b \in orphans' \ Range(queue'[t])
          PROVE  Waits(b)' /\ \A x \in Range(queue'[t]) : Height[b] <= Height[x]
      <4>1. CASE b = Head(queue[t])
        BY <1>7, <2>5, <2>6, <4>1, Zenon DEF SkipOrphan, Waits
      <4>2. CASE b # Head(queue[t])
        <5>1. b \in orphans \ Range(queue[t])
          BY <2>5, <2>6, <4>2, Zenon DEF SkipOrphan
        <5> QED BY <1>7, <2>5, <2>6, <5>1, Zenon DEF PassedOver, Waits
      <4> QED BY <4>1, <4>2, Zenon
    <3>3. PassedOver(t)'
      BY <3>1, <3>2, Zenon DEF PassedOver
    <3> QED BY <2>5, <2>6, <3>1, <3>3, Zenon DEF Settled
  <2>7. CASE TakeOrphan(t)
    <3>1. pc'[t] = "accept" /\ next'[t] = "sweep" /\ cur'[t] = Head(queue[t])
      BY <1>0, <2>7, Zenon DEF TakeOrphan, TypeOK
    <3>2. ASSUME NEW b \in orphans' \ Range(queue'[t])
          PROVE  /\ Waits(b)' /\ \A x \in Range(queue'[t]) : Height[b] <= Height[x]
                 /\ Height[b] <= Height[cur'[t]]
      <4>1. b \in orphans \ Range(queue[t])
        BY <2>5, <2>7, Zenon DEF TakeOrphan
      <4> QED BY <1>7, <2>5, <2>7, <3>1, <4>1, Zenon DEF PassedOver, Waits
    <3>3. PassedOver(t)'
      BY <3>2, Zenon DEF PassedOver
    <3> QED BY <2>5, <2>7, <3>1, <3>3, Zenon DEF Settled
  <2>8. CASE EndRefresh(t)
    <3>1. pc[t] = "sweep" /\ pc'[t] = "idle" /\ queue[t] = <<>> /\ orphans' = orphans
      BY <1>0, <2>8, Zenon DEF EndRefresh, TypeOK
    <3>2. PassedOver(t) /\ Range(queue[t]) = {}
      BY <2>2, <3>1 DEF Sweeping, Range
    <3> QED BY <1>7, <3>1, <3>2, Zenon DEF Waits, PassedOver, AllWait, Sweeping
  <2> QED BY <2>3, <2>4, <2>6, <2>7, <2>8, Zenon
<1>9. ASSUME ~overlap PROVE SweepInv'
  <2>1. Alone /\ pc[t] # "idle"
    BY <1>1, <1>9, Zenon DEF TurnInv
  <2> QED BY <1>0, <1>2, <1>6, <1>8, <1>9, <2>1, SweepFrame, Zenon
<1> QED BY <1>1, <1>6, <1>9, Zenon DEF SweepInv

(* The orphans behind a sweep wait, for calls that come in turn. *)
LEMMA SweepInvariant == Spec => []SweepInv
<1>1. Init => SweepInv
  BY Zenon DEF Init, SweepInv, NextInHand, AllWait, Sweeping
<1>2. ASSUME ProcInv, TurnInv, SweepInv, [Next]_vars PROVE SweepInv'
  <2>1. CASE UNCHANGED vars
    BY <1>2, <2>1, Zenon DEF vars, SweepInv, NextInHand, AllWait, Settled, Sweeping,
                             Sorted, PassedOver, Waits, hasParents, InDag
  <2>2. CASE \E t \in Threads, b \in Blocks : BeginProcess(t, b)
    BY <1>2, <2>2, SweepBegin, Zenon
  <2>3. CASE \E t \in Syncers : BeginRefresh(t)
    BY <1>2, <2>3, SweepBegin, ProcessAssumption, Zenon
  <2>4. CASE \E t \in Threads : Step(t)
    BY <1>2, <2>4, SweepProcess, SweepAccept, SweepFlush, SweepLoop, Zenon DEF Step, Accept
  <2> QED BY <1>2, <2>1, <2>2, <2>3, <2>4, Zenon DEF Next
<1> QED BY <1>1, <1>2, ProcInvariant, TurnInvariant, PTL DEF Spec

(* processOrphans sweeps the orphans once, by height.  With calls in turn, *)
(* and the last one returned, an orphan that is left although its parents  *)
(* are all in the DAG is no higher than one of them: the sweep misses      *)
(* nothing else, whatever the heights.                                     *)
THEOREM SweepLeavesOvertaken == Spec => []ReadyLeftOvertaken
<1>1. SweepInv => ReadyLeftOvertaken
  BY Zenon DEF SweepInv, ReadyLeftOvertaken, AllIdle, Settled, AllWait, Waits
<1> QED BY <1>1, SweepInvariant, PTL

=============================================================================
