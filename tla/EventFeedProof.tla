--------------------------- MODULE EventFeedProof ---------------------------
(***************************************************************************)
(* Whatever senders and subscribers do, the lists of the feed stay exact   *)
(* and a Send reaches everyone it has to.                                  *)
(***************************************************************************)
EXTENDS EventFeed, TLAPS

Sending == \E s \in Senders : spc[s] = "try"

(* What else the steps rely on: a Send that runs knows all subscribers in  *)
(* sendCases, and its locals are reset when it returns.                    *)
LocalsExact ==
  /\ Sending => Range(sendCases) \subseteq due
  /\ ~Sending => cases = 0 /\ next = 1 /\ due = {} /\ got = {}

FeedInv == TypeOK /\ SubscribedOnce /\ DeliveredToAll /\ LocalsExact

-----------------------------------------------------------------------------
(* Lemmas about the lists. *)

(* caseList.find finds what is there. *)
LEMMA FindFinds ==
  ASSUME NEW S, NEW s \in Seq(S), NEW c \in Range(s)
  PROVE  find(s, c) \in 1..Len(s) /\ s[find(s, c)] = c
<1>1. \E i \in DOMAIN s : s[i] = c
  BY DEF Range
<1>2. find(s, c) \in DOMAIN s /\ s[find(s, c)] = c
  BY <1>1 DEF find
<1> QED BY <1>2

(* caseList.delete takes out one element and closes the gap. *)
LEMMA DeleteGap ==
  ASSUME NEW S, NEW s \in Seq(S), NEW i \in 1..Len(s)
  PROVE  /\ delete(s, i) \in Seq(S)
         /\ Len(delete(s, i)) = Len(s) - 1
         /\ \A j \in 1..(Len(s) - 1) : delete(s, i)[j] = IF j < i THEN s[j] ELSE s[j + 1]
<1> DEFINE a == SubSeq(s, 1, i - 1)
           b == SubSeq(s, i + 1, Len(s))
<1>1. a \in Seq(S) /\ Len(a) = i - 1 /\ \A j \in 1..(i - 1) : a[j] = s[j]
  OBVIOUS
<1>2. b \in Seq(S) /\ Len(b) = Len(s) - i /\ \A j \in 1..(Len(s) - i) : b[j] = s[j + i]
  OBVIOUS
<1>3. delete(s, i) = a \o b
  BY DEF delete
<1> HIDE DEF a, b
<1>4. a \o b \in Seq(S) /\ Len(a \o b) = Len(s) - 1
  <2>0. a \in Seq(S) /\ b \in Seq(S)
    BY <1>1, <1>2
  <2>1. a \o b \in Seq(S) /\ Len(a \o b) = Len(a) + Len(b)
    BY <2>0
  <2>2. Len(s) \in Nat
    OBVIOUS
  <2> QED BY <1>1, <1>2, <2>1, <2>2
<1>5. ASSUME NEW j \in 1..(Len(s) - 1)
      PROVE  (a \o b)[j] = IF j < i THEN s[j] ELSE s[j + 1]
  <2>1. CASE j < i
    BY <2>1, <1>1, <1>2
  <2>2. CASE j >= i
    <3>1. (a \o b)[j] = b[j - (i - 1)]
      BY <2>2, <1>1, <1>2, SMTT(30)
    <3>2. b[j - (i - 1)] = s[j - (i - 1) + i]
      BY <2>2, <1>2, SMTT(30)
    <3> QED BY <2>2, <3>1, <3>2
  <2>3. j < i \/ j >= i
    OBVIOUS
  <2> QED BY <2>1, <2>2, <2>3, Zenon
<1> QED BY <1>3, <1>4, <1>5

(* Without repetitions, delete removes exactly the element and makes none. *)
LEMMA DeleteExact ==
  ASSUME NEW S, NEW s \in Seq(S), NEW i \in 1..Len(s), IsInjective(s)
  PROVE  IsInjective(delete(s, i)) /\ Range(delete(s, i)) = Range(s) \ {s[i]}
<1> DEFINE d == delete(s, i)
<1>1. /\ d \in Seq(S) /\ Len(d) = Len(s) - 1
      /\ \A j \in 1..(Len(s) - 1) : d[j] = IF j < i THEN s[j] ELSE s[j + 1]
  BY DeleteGap
<1> HIDE DEF d
<1>2. DOMAIN d = 1..(Len(s) - 1) /\ DOMAIN s = 1..Len(s)
  BY <1>1
<1>3. \A j, k \in 1..Len(s) : s[j] = s[k] => j = k
  BY <1>2 DEF IsInjective
<1>4. IsInjective(d)
  BY <1>1, <1>2, <1>3, SMTT(30) DEF IsInjective
<1>5. ASSUME NEW x \in Range(d) PROVE x \in Range(s) \ {s[i]}
  <2>1. PICK j \in 1..(Len(s) - 1) : x = d[j]
    BY <1>2 DEF Range
  <2>2. \E k \in 1..Len(s) : d[j] = s[k] /\ k # i
    <3>1. CASE j < i
      BY <3>1, <1>1
    <3>2. CASE ~(j < i)
      <4>1. j + 1 \in 1..Len(s) /\ j + 1 # i /\ d[j] = s[j + 1]
        BY <3>2, <1>1
      <4> QED BY <4>1
    <3> QED BY <3>1, <3>2
  <2> QED BY <2>1, <2>2, <1>2, <1>3 DEF Range
<1>6. ASSUME NEW x \in Range(s) \ {s[i]} PROVE x \in Range(d)
  <2>1. PICK j \in 1..Len(s) : x = s[j] /\ j # i
    BY <1>2 DEF Range
  <2>2. CASE j < i
    BY <2>1, <2>2, <1>1, <1>2, SMTT(30) DEF Range
  <2>3. CASE j > i
    <3>1. j - 1 \in 1..(Len(s) - 1) /\ d[j - 1] = s[j]
      BY <2>1, <2>3, <1>1
    <3> QED BY <2>1, <3>1, <1>2 DEF Range
  <2> QED BY <2>1, <2>2, <2>3
<1>7. Range(d) = Range(s) \ {s[i]}
  BY <1>5, <1>6
<1> QED BY <1>4, <1>7 DEF d

(* What remove does to a list the channel is in. *)
LEMMA RemoveExact ==
  ASSUME NEW S, NEW s \in Seq(S), NEW c \in Range(s), IsInjective(s)
  PROVE  /\ delete(s, find(s, c)) \in Seq(S)
         /\ Len(delete(s, find(s, c))) = Len(s) - 1
         /\ IsInjective(delete(s, find(s, c)))
         /\ Range(delete(s, find(s, c))) = Range(s) \ {c}
<1> DEFINE i == find(s, c)
<1>1. i \in 1..Len(s) /\ s[i] = c
  BY FindFinds
<1> HIDE DEF i
<1>2. delete(s, i) \in Seq(S) /\ Len(delete(s, i)) = Len(s) - 1
  BY <1>1, DeleteGap
<1>3. IsInjective(delete(s, i)) /\ Range(delete(s, i)) = Range(s) \ {s[i]}
  BY <1>1, DeleteExact
<1> QED BY <1>1, <1>2, <1>3 DEF i

(* Appending a list with no element in common. *)
LEMMA ConcatExact ==
  ASSUME NEW S, NEW s \in Seq(S), NEW t \in Seq(S), IsInjective(s), IsInjective(t),
         Range(s) \cap Range(t) = {}
  PROVE  /\ s \o t \in Seq(S) /\ Len(s \o t) = Len(s) + Len(t)
         /\ IsInjective(s \o t)
         /\ Range(s \o t) = Range(s) \cup Range(t)
<1> DEFINE u == s \o t
<1>1. u \in Seq(S) /\ Len(u) = Len(s) + Len(t)
  OBVIOUS
<1>2. \A j \in 1..Len(s) : u[j] = s[j]
  OBVIOUS
<1>3. \A j \in 1..Len(t) : u[Len(s) + j] = t[j]
  OBVIOUS
<1> HIDE DEF u
<1>4. DOMAIN u = 1..(Len(s) + Len(t)) /\ DOMAIN s = 1..Len(s) /\ DOMAIN t = 1..Len(t)
  BY <1>1
<1>5. \A j \in 1..Len(s), k \in 1..Len(t) : s[j] # t[k]
  BY <1>4, Zenon DEF Range
<1>6. ASSUME NEW j \in 1..(Len(s) + Len(t))
      PROVE  \/ j \in 1..Len(s) /\ u[j] = s[j]
             \/ j - Len(s) \in 1..Len(t) /\ u[j] = t[j - Len(s)]
  <2>1. CASE j <= Len(s)
    BY <2>1, <1>2
  <2>2. CASE j > Len(s)
    <3>1. j - Len(s) \in 1..Len(t) /\ Len(s) + (j - Len(s)) = j
      BY <2>2
    <3> QED BY <3>1, <1>3
  <2> QED BY <2>1, <2>2
<1>7. ASSUME NEW j \in 1..(Len(s) + Len(t)), NEW k \in 1..(Len(s) + Len(t)), u[j] = u[k]
      PROVE  j = k
  <2>1. CASE j \in 1..Len(s) /\ k \in 1..Len(s) /\ s[j] = s[k]
    BY <2>1, <1>4 DEF IsInjective
  <2>2. CASE /\ j - Len(s) \in 1..Len(t) /\ k - Len(s) \in 1..Len(t)
             /\ t[j - Len(s)] = t[k - Len(s)]
    <3>1. j - Len(s) = k - Len(s)
      BY <2>2, <1>4 DEF IsInjective
    <3> QED BY <3>1
  <2> QED BY <1>5, <1>6, <1>7, <2>1, <2>2
<1>8. IsInjective(u)
  BY <1>4, <1>7 DEF IsInjective
<1>9. ASSUME NEW x \in Range(u) PROVE x \in Range(s) \cup Range(t)
  BY <1>4, <1>6, Zenon DEF Range
<1>10. ASSUME NEW x \in Range(s) \cup Range(t) PROVE x \in Range(u)
  <2>1. CASE x \in Range(s)
    BY <2>1, <1>2, <1>4 DEF Range
  <2>2. CASE x \in Range(t)
    <3>1. PICK k \in 1..Len(t) : x = t[k]
      BY <2>2, <1>4 DEF Range
    <3>2. Len(s) + k \in 1..(Len(s) + Len(t))
      OBVIOUS
    <3> QED BY <3>1, <3>2, <1>3, <1>4, SMTT(30) DEF Range
  <2> QED BY <2>1, <2>2
<1> QED BY <1>1, <1>8, <1>9, <1>10 DEF u

(* Subscribe's append. *)
LEMMA AppendExact ==
  ASSUME NEW S, NEW s \in Seq(S), NEW c \in S, IsInjective(s), c \notin Range(s)
  PROVE  /\ Append(s, c) \in Seq(S)
         /\ IsInjective(Append(s, c))
         /\ Range(Append(s, c)) = Range(s) \cup {c}
<1> DEFINE t == <<c>>
<1>1. t \in Seq(S) /\ Append(s, c) = s \o t
  OBVIOUS
<1>2. IsInjective(t) /\ Range(t) = {c}
  BY DEF IsInjective, Range
<1> HIDE DEF t
<1>3. Range(s) \cap Range(t) = {}
  BY <1>2
<1>4. /\ s \o t \in Seq(S)
      /\ IsInjective(s \o t)
      /\ Range(s \o t) = Range(s) \cup Range(t)
  BY <1>1, <1>2, <1>3, ConcatExact
<1> QED BY <1>1, <1>2, <1>4

-----------------------------------------------------------------------------
LEMMA InitFeed == Init => FeedInv
<1> SUFFICES ASSUME Init PROVE FeedInv
  OBVIOUS
<1>1. Range(<<>>) = {} /\ IsInjective(<<>>)
  BY DEF Range, IsInjective
<1>2. ~Sending /\ Holding = {}
  BY DEF Init, Sending, Holding
<1>3. TypeOK
  <2>1. <<>> \in Seq(Subs) /\ Len(<<>>) = 0
    OBVIOUS
  <2>2. locked \in BOOLEAN
    BY Zenon DEF Init
  <2>3. cases \in 0..Len(sendCases) /\ next \in 1..(Len(sendCases) + 1)
    BY <2>1 DEF Init
  <2> QED BY <2>1, <2>2, <2>3 DEF Init, TypeOK
<1>4. SubscribedOnce
  BY <1>1, <1>2 DEF Init, SubscribedOnce
<1> QED BY <1>2, <1>3, <1>4 DEF Init, FeedInv, DeliveredToAll, LocalsExact, Sending

(* Steps that leave the lists alone and move one subscriber between the    *)
(* stages in which it is subscribed and holds no lock.                     *)
LEMMA SubscriberMoves ==
  ASSUME FeedInv, NEW c \in Subs, Handled(c) \/ Quit(c)
  PROVE  FeedInv'
<1> USE DEF FeedInv
<1>1. TypeOK'
  BY Zenon DEF TypeOK, Handled, Quit
<1>2. Holding' = Holding
  BY DEF TypeOK, Handled, Quit, Holding
<1>3. SubscribedOnce'
  BY <1>2 DEF TypeOK, SubscribedOnce, Handled, Quit
<1>4. DeliveredToAll' /\ LocalsExact'
  BY DEF TypeOK, DeliveredToAll, LocalsExact, Sending, Handled, Quit
<1> QED BY <1>1, <1>3, <1>4

LEMMA SubscribeStep ==
  ASSUME FeedInv, NEW c \in Subs, Subscribe(c)
  PROVE  FeedInv'
<1> USE DEF FeedInv
<1>1. c \notin Range(inbox) /\ c \notin Range(sendCases)
  BY DEF SubscribedOnce, Subscribe
<1>2. /\ inbox' \in Seq(Subs) /\ IsInjective(inbox')
      /\ Range(inbox') = Range(inbox) \cup {c}
  BY <1>1, AppendExact DEF TypeOK, SubscribedOnce, Subscribe
<1>3. TypeOK'
  BY <1>2 DEF TypeOK, Subscribe
<1>4. Holding' = Holding
  BY DEF TypeOK, Subscribe, Holding
<1>5. SubscribedOnce'
  BY <1>1, <1>2, <1>4 DEF TypeOK, SubscribedOnce, Subscribe
<1>6. DeliveredToAll' /\ LocalsExact'
  BY DEF TypeOK, DeliveredToAll, LocalsExact, Sending, Subscribe
<1> QED BY <1>3, <1>5, <1>6

LEMMA RemoveFromInboxStep ==
  ASSUME FeedInv, NEW c \in Subs, RemoveFromInbox(c)
  PROVE  FeedInv'
<1> USE DEF FeedInv
<1>1. Holding' = Holding
  BY DEF TypeOK, RemoveFromInbox, Holding
<1>2. DeliveredToAll' /\ LocalsExact'
  BY DEF TypeOK, DeliveredToAll, LocalsExact, Sending, RemoveFromInbox
<1>3. CASE c \in Range(inbox)
  <2>1. /\ inbox' \in Seq(Subs) /\ IsInjective(inbox')
        /\ Range(inbox') = Range(inbox) \ {c}
    BY <1>3, RemoveExact DEF TypeOK, SubscribedOnce, RemoveFromInbox
  <2>2. TypeOK'
    BY <1>3, <2>1 DEF TypeOK, RemoveFromInbox
  <2>3. SubscribedOnce'
    BY <1>1, <1>3, <2>1 DEF TypeOK, SubscribedOnce, RemoveFromInbox
  <2> QED BY <1>2, <2>2, <2>3
<1>4. CASE c \notin Range(inbox)
  <2>1. TypeOK'
    BY <1>4, SMTT(30) DEF TypeOK, RemoveFromInbox
  <2>2. SubscribedOnce'
    BY <1>1, <1>4 DEF TypeOK, SubscribedOnce, RemoveFromInbox
  <2> QED BY <1>2, <2>1, <2>2
<1> QED BY <1>3, <1>4

LEMMA RemoveTakeLockStep ==
  ASSUME FeedInv, NEW c \in Subs, RemoveTakeLock(c)
  PROVE  FeedInv'
<1> USE DEF FeedInv
<1>1. TypeOK'
  BY DEF TypeOK, RemoveTakeLock
<1>2. Holding = {} /\ Holding' = {c}
  BY FeedAssumption DEF TypeOK, SubscribedOnce, RemoveTakeLock, Holding
<1>3. SubscribedOnce'
  BY <1>2 DEF TypeOK, SubscribedOnce, RemoveTakeLock
<1>4. DeliveredToAll' /\ LocalsExact'
  BY DEF TypeOK, DeliveredToAll, LocalsExact, Sending, RemoveTakeLock
<1> QED BY <1>1, <1>3, <1>4

(* With the send lock no Send is under way. *)
LEMMA RemoveCaseStep ==
  ASSUME FeedInv, NEW c \in Subs, RemoveCase(c)
  PROVE  FeedInv'
<1> USE DEF FeedInv
<1>1. Holding = {c} /\ Holding' = {}
  BY FeedAssumption DEF TypeOK, SubscribedOnce, RemoveCase, Holding
<1>2. ~Sending /\ ~Sending'
  BY <1>1, FeedAssumption DEF Holding, Sending, RemoveCase
<1>3. c \in Range(sendCases)
  BY DEF SubscribedOnce, RemoveCase
<1>4. /\ sendCases' \in Seq(Subs) /\ IsInjective(sendCases')
      /\ Range(sendCases') = Range(sendCases) \ {c}
  BY <1>3, RemoveExact DEF TypeOK, SubscribedOnce, RemoveCase
<1>5. cases = 0 /\ next = 1 /\ due = {} /\ got = {}
  BY <1>2 DEF LocalsExact
<1>6. TypeOK'
  <2>1. Len(sendCases') \in Nat
    BY <1>4
  <2>2. cases' \in 0..Len(sendCases') /\ next' \in 1..(Len(sendCases') + 1)
    BY <1>5, <2>1 DEF RemoveCase
  <2>3. locked' \in BOOLEAN
    BY Zenon DEF RemoveCase
  <2> QED BY <1>4, <2>2, <2>3 DEF TypeOK, RemoveCase
<1>7. SubscribedOnce'
  BY <1>1, <1>4 DEF TypeOK, SubscribedOnce, RemoveCase
<1>8. DeliveredToAll' /\ LocalsExact'
  BY <1>2, <1>5 DEF DeliveredToAll, LocalsExact, Sending, RemoveCase
<1> QED BY <1>6, <1>7, <1>8

-----------------------------------------------------------------------------
LEMMA CallSendStep ==
  ASSUME FeedInv, NEW s \in Senders, CallSend(s)
  PROVE  FeedInv'
<1> USE DEF FeedInv
<1>1. TypeOK'
  BY DEF TypeOK, CallSend
<1>2. Holding' = Holding /\ (Sending' <=> Sending)
  BY DEF TypeOK, CallSend, Holding, Sending
<1>3. SubscribedOnce'
  BY <1>2 DEF TypeOK, SubscribedOnce, CallSend
<1>4. DeliveredToAll' /\ LocalsExact'
  BY <1>2 DEF TypeOK, DeliveredToAll, LocalsExact, Sending, CallSend
<1> QED BY <1>1, <1>3, <1>4

LEMMA SendTakeLockStep ==
  ASSUME FeedInv, NEW s \in Senders, SendTakeLock(s)
  PROVE  FeedInv'
<1> USE DEF FeedInv
<1>1. TypeOK'
  BY DEF TypeOK, SendTakeLock
<1>2. Holding = {} /\ Holding' = {s}
  BY FeedAssumption DEF TypeOK, SubscribedOnce, SendTakeLock, Holding
<1>3. SubscribedOnce'
  BY <1>2 DEF TypeOK, SubscribedOnce, SendTakeLock
<1>4. ~Sending /\ ~Sending'
  BY <1>2 DEF TypeOK, Sending, Holding, SendTakeLock
<1>5. DeliveredToAll' /\ LocalsExact'
  BY <1>4 DEF DeliveredToAll, LocalsExact, Sending, SendTakeLock
<1> QED BY <1>1, <1>3, <1>5

LEMMA MergeInboxStep ==
  ASSUME FeedInv, NEW s \in Senders, MergeInbox(s)
  PROVE  FeedInv'
<1> USE DEF FeedInv
<1>1. /\ sendCases' \in Seq(Subs) /\ Len(sendCases') = Len(sendCases) + Len(inbox)
      /\ IsInjective(sendCases')
      /\ Range(sendCases') = Range(sendCases) \cup Range(inbox)
  BY ConcatExact DEF TypeOK, SubscribedOnce, MergeInbox
<1>2. inbox' = <<>> /\ Range(inbox') = {} /\ IsInjective(inbox') /\ inbox' \in Seq(Subs)
  BY DEF MergeInbox, Range, IsInjective
<1>3. Range(sendCases') \subseteq Subs
  BY <1>1 DEF Range
<1>4. TypeOK'
  <2>1. Len(sendCases') \in Nat
    BY <1>1
  <2>2. cases' \in 0..Len(sendCases') /\ next' \in 1..(Len(sendCases') + 1)
    BY <1>1, <2>1 DEF MergeInbox
  <2> QED BY <1>1, <1>2, <1>3, <2>2 DEF TypeOK, MergeInbox
<1>5. Holding' = Holding
  BY DEF TypeOK, MergeInbox, Holding
<1>6. SubscribedOnce'
  BY <1>1, <1>2, <1>5 DEF TypeOK, SubscribedOnce, MergeInbox
<1>7. Sending'
  BY DEF TypeOK, Sending, MergeInbox
<1>8. DeliveredToAll'
  <2>1. \A i \in DOMAIN sendCases' : ~(i > cases')
    BY <1>1 DEF MergeInbox
  <2> QED BY <1>1, <2>1 DEF DeliveredToAll, MergeInbox
<1>9. LocalsExact'
  BY <1>1, <1>7 DEF LocalsExact, MergeInbox
<1> QED BY <1>4, <1>6, <1>8, <1>9

(* One value handed over: the case leaves the active prefix, and only its  *)
(* subscriber moves.                                                       *)
LEMMA DeliverStep ==
  ASSUME FeedInv, Sending, NEW i \in 1..cases, Deliver(i),
         UNCHANGED <<inbox, locked, spc, due>>,
         next' = 1 \/ (next' = next /\ next <= cases)
  PROVE  FeedInv'
<1> USE DEF FeedInv
<1>1. i \in 1..Len(sendCases) /\ cases \in 1..Len(sendCases) /\ Len(sendCases) \in Nat
  BY DEF TypeOK
<1>2. /\ sendCases' \in Seq(Subs) /\ Len(sendCases') = Len(sendCases)
      /\ IsInjective(sendCases')
      /\ Range(sendCases') = Range(sendCases)
      /\ \A j \in 1..Len(sendCases) :
           sendCases'[j] = IF j = cases THEN sendCases[i]
                           ELSE IF j = i THEN sendCases[cases] ELSE sendCases[j]
  <2>1. sendCases' = [sendCases EXCEPT ![i] = sendCases[cases], ![cases] = sendCases[i]]
    BY DEF Deliver, deactivate
  <2>2. sendCases \in Seq(Subs) /\ IsInjective(sendCases)
    BY DEF TypeOK, SubscribedOnce
  <2>3. DOMAIN sendCases = 1..Len(sendCases) /\ DOMAIN sendCases' = 1..Len(sendCases)
    BY <2>1, <2>2
  <2>4. \A j \in 1..Len(sendCases) :
          sendCases'[j] = IF j = cases THEN sendCases[i]
                          ELSE IF j = i THEN sendCases[cases] ELSE sendCases[j]
    BY <1>1, <2>1, <2>3
  <2>5. \A j \in 1..Len(sendCases) : sendCases'[j] \in Subs
    BY <1>1, <2>2, <2>4
  <2>6. sendCases' \in [1..Len(sendCases) -> Subs]
    BY <2>1, <2>3, <2>5, Zenon
  <2>7. sendCases' \in Seq(Subs) /\ Len(sendCases') = Len(sendCases)
    BY <1>1, <2>6
  <2>8. IsInjective(sendCases')
    <3>1. \A j, k \in 1..Len(sendCases) : sendCases[j] = sendCases[k] => j = k
      BY <2>2, <2>3 DEF IsInjective
    <3> QED BY <1>1, <2>3, <2>4, <3>1 DEF IsInjective
  <2>9. \A x \in Range(sendCases') : x \in Range(sendCases)
    BY <1>1, <2>3, <2>4 DEF Range
  <2>10. ASSUME NEW x \in Range(sendCases) PROVE x \in Range(sendCases')
    <3>1. PICK j \in 1..Len(sendCases) : x = sendCases[j]
      BY <2>3 DEF Range
    <3>2. \E k \in 1..Len(sendCases) : sendCases'[k] = sendCases[j]
      BY <1>1, <2>4
    <3> QED BY <2>3, <3>1, <3>2 DEF Range
  <2> QED BY <2>4, <2>7, <2>8, <2>9, <2>10, Zenon
<1>3. sendCases[i] \in Subs /\ sendCases[i] \in Range(sendCases) /\ sendCases[i] \in due
  BY <1>1 DEF TypeOK, Range, LocalsExact
<1>4. Sending'
  BY DEF Sending
<1>5. TypeOK'
  <2>1. cases' \in 0..Len(sendCases') /\ next' \in 1..(Len(sendCases') + 1)
    BY <1>1, <1>2 DEF TypeOK, Deliver
  <2>2. got' \subseteq due' /\ due' \subseteq Subs
    BY <1>3 DEF TypeOK, Deliver
  <2>3. pc' \in [Subs -> {"new", "receive", "handle", "unsubscribe", "remove", "delete", "gone"}]
    BY DEF TypeOK, Deliver
  <2> QED BY <1>2, <2>1, <2>2, <2>3 DEF TypeOK
<1>6. Holding' = Holding
  BY <1>3 DEF TypeOK, Deliver, Holding
<1>7. SubscribedOnce'
  BY <1>2, <1>3, <1>6 DEF TypeOK, SubscribedOnce, Deliver
<1>8. DeliveredToAll'
  <2>1. ASSUME NEW j \in 1..Len(sendCases)
        PROVE  j > cases' <=> sendCases'[j] \in got'
    <3>1. \A k \in 1..Len(sendCases) : k > cases <=> sendCases[k] \in got
      BY DEF TypeOK, DeliveredToAll, Sending
    <3>2. \A k, l \in 1..Len(sendCases) : sendCases[k] = sendCases[l] => k = l
      BY DEF TypeOK, SubscribedOnce, IsInjective
    <3>3. cases' = cases - 1 /\ got' = got \cup {sendCases[i]}
      BY DEF Deliver
    <3>4. CASE j = cases
      BY <1>1, <1>2, <3>3, <3>4
    <3>5. CASE j = i /\ j # cases
      <4>1. sendCases'[j] = sendCases[cases]
        BY <1>2, <3>5
      <4>2. sendCases[cases] \notin got /\ sendCases[cases] # sendCases[i]
        BY <1>1, <3>1, <3>2, <3>5
      <4>3. ~(j > cases - 1)
        BY <1>1, <3>5
      <4> QED BY <3>3, <4>1, <4>2, <4>3
    <3>6. CASE j # i /\ j # cases
      <4>1. sendCases'[j] = sendCases[j] /\ sendCases[j] # sendCases[i]
        BY <1>1, <1>2, <3>2, <3>6
      <4>2. j > cases - 1 <=> j > cases
        BY <1>1, <3>6
      <4> QED BY <3>1, <3>3, <4>1, <4>2
    <3> QED BY <3>4, <3>5, <3>6
  <2>2. ASSUME NEW c \in due' PROVE c \in Range(sendCases') \/ pc'[c] = "gone"
    BY <1>2, <1>3 DEF TypeOK, SubscribedOnce, DeliveredToAll, Sending, Deliver
  <2>3. DOMAIN sendCases' = 1..Len(sendCases)
    BY <1>2
  <2> QED BY <2>1, <2>2, <2>3 DEF DeliveredToAll
<1>9. LocalsExact'
  BY <1>2, <1>4 DEF LocalsExact
<1> QED BY <1>5, <1>7, <1>8, <1>9

LEMMA TrySendStep ==
  ASSUME FeedInv, NEW s \in Senders, TrySend(s)
  PROVE  FeedInv'
<1>1. Sending /\ next \in 1..cases /\ next <= cases
  BY DEF FeedInv, TypeOK, Sending, TrySend
<1>2. CASE Deliver(next) /\ UNCHANGED next
  BY <1>1, <1>2, DeliverStep DEF TrySend
<1>3. CASE next' = next + 1 /\ UNCHANGED <<pc, got, sendCases, cases, inbox, locked, spc, due>>
  <2> USE DEF FeedInv
  <2>1. next' \in 1..(Len(sendCases') + 1)
    BY <1>1, <1>3 DEF TypeOK
  <2>2. TypeOK'
    BY <1>3, <2>1 DEF TypeOK
  <2>3. SubscribedOnce' /\ DeliveredToAll'
    BY <1>3 DEF SubscribedOnce, DeliveredToAll, Holding
  <2>4. LocalsExact'
    BY <1>1, <1>3 DEF LocalsExact, Sending
  <2> QED BY <2>2, <2>3, <2>4
<1> QED BY <1>2, <1>3 DEF TrySend

LEMMA SelectSendStep ==
  ASSUME FeedInv, NEW s \in Senders, SelectSend(s)
  PROVE  FeedInv'
<1>1. PICK i \in 1..cases : Deliver(i)
  BY DEF SelectSend
<1>2. Sending
  BY DEF SelectSend, Selecting, Sending
<1> QED BY <1>1, <1>2, DeliverStep DEF SelectSend

(* The removed case was active or not; the active prefix follows. *)
LEMMA SelectRemoveStep ==
  ASSUME FeedInv, NEW s \in Senders, SelectRemove(s)
  PROVE  FeedInv'
<1> USE DEF FeedInv
<1>1. PICK c \in Subs :
        /\ pc[c] = "remove"
        /\ pc' = [pc EXCEPT ![c] = "gone"]
        /\ sendCases' = delete(sendCases, find(sendCases, c))
        /\ cases' = casesAfterRemoval(find(sendCases, c))
  BY Zenon DEF SelectRemove
<1> DEFINE i == find(sendCases, c)
<1>2. /\ spc[s] = "try" /\ next' = 1 /\ cases > 0
      /\ UNCHANGED <<inbox, locked, spc, due, got>>
  BY DEF SelectRemove, Selecting
<1>3. Sending /\ Sending'
  BY <1>2 DEF Sending
<1>4. sendCases \in Seq(Subs) /\ IsInjective(sendCases) /\ c \in Range(sendCases)
  BY <1>1 DEF TypeOK, SubscribedOnce
<1>5. i \in 1..Len(sendCases) /\ sendCases[i] = c
  BY <1>4, FindFinds
<1>6. /\ sendCases' \in Seq(Subs) /\ Len(sendCases') = Len(sendCases) - 1
      /\ IsInjective(sendCases')
      /\ Range(sendCases') = Range(sendCases) \ {c}
  BY <1>1, <1>4, RemoveExact
<1>7. \A j \in 1..(Len(sendCases) - 1) :
        sendCases'[j] = IF j < i THEN sendCases[j] ELSE sendCases[j + 1]
  BY <1>1, <1>4, <1>5, DeleteGap, Zenon
<1>8. cases' = IF i <= cases THEN cases - 1 ELSE cases
  BY <1>1 DEF casesAfterRemoval
<1>9. cases \in 1..Len(sendCases) /\ Len(sendCases) \in Nat
  BY <1>2, <1>4 DEF TypeOK
<1> HIDE DEF i
<1>10. TypeOK'
  <2>1. cases' \in 0..Len(sendCases') /\ next' \in 1..(Len(sendCases') + 1)
    BY <1>2, <1>5, <1>6, <1>8, <1>9
  <2>2. pc' \in [Subs -> {"new", "receive", "handle", "unsubscribe", "remove", "delete", "gone"}]
    BY <1>1 DEF TypeOK
  <2> QED BY <1>2, <1>6, <2>1, <2>2 DEF TypeOK
<1>11. Holding' = Holding
  BY <1>1, <1>2 DEF TypeOK, Holding
<1>12. SubscribedOnce'
  BY <1>1, <1>2, <1>6, <1>11, SMTT(30) DEF TypeOK, SubscribedOnce
<1>13. DeliveredToAll'
  <2>1. \A k \in 1..Len(sendCases) : k > cases <=> sendCases[k] \in got
    BY <1>3, <1>4, SMTT(30) DEF DeliveredToAll, Sending
  <2>2. ASSUME NEW j \in 1..(Len(sendCases) - 1)
        PROVE  j > cases' <=> sendCases'[j] \in got
    <3>1. CASE j < i
      <4>1. j > cases' <=> j > cases
        BY <1>5, <1>8, <1>9, <3>1
      <4>2. j \in 1..Len(sendCases) /\ sendCases'[j] = sendCases[j]
        BY <1>7, <1>9, <3>1
      <4> QED BY <2>1, <4>1, <4>2
    <3>2. CASE ~(j < i)
      <4>1. j > cases' <=> j + 1 > cases
        BY <1>5, <1>8, <1>9, <3>2
      <4>2. j + 1 \in 1..Len(sendCases) /\ sendCases'[j] = sendCases[j + 1]
        BY <1>7, <1>9, <3>2
      <4> QED BY <2>1, <4>1, <4>2
    <3> QED BY <3>1, <3>2
  <2>3. DOMAIN sendCases' = 1..(Len(sendCases) - 1)
    BY <1>6
  <2>4. ASSUME NEW d \in due' PROVE d \in Range(sendCases') \/ pc'[d] = "gone"
    BY <1>1, <1>2, <1>3, <1>6 DEF TypeOK, DeliveredToAll, Sending
  <2> QED BY <1>2, <2>2, <2>3, <2>4 DEF DeliveredToAll
<1>14. LocalsExact'
  BY <1>2, <1>3, <1>6 DEF LocalsExact
<1> QED BY <1>10, <1>12, <1>13, <1>14

LEMMA SendReturnStep ==
  ASSUME FeedInv, NEW s \in Senders, SendReturn(s)
  PROVE  FeedInv'
<1> USE DEF FeedInv
<1>1. Holding = {s} /\ Holding' = {}
  BY FeedAssumption DEF TypeOK, SubscribedOnce, SendReturn, Holding
<1>2. ~Sending'
  BY <1>1 DEF TypeOK, Holding, Sending
<1>3. TypeOK'
  <2>1. Len(sendCases) \in Nat
    BY DEF TypeOK
  <2>2. next' \in 1..(Len(sendCases') + 1)
    BY <2>1 DEF SendReturn
  <2> QED BY <2>2, Zenon DEF TypeOK, SendReturn
<1>4. SubscribedOnce'
  BY <1>1 DEF TypeOK, SubscribedOnce, SendReturn
<1>5. DeliveredToAll' /\ LocalsExact'
  BY <1>2 DEF DeliveredToAll, LocalsExact, Sending, SendReturn
<1> QED BY <1>3, <1>4, <1>5

-----------------------------------------------------------------------------
(* The inductive invariant, for any senders and subscribers. *)
LEMMA FeedInvariant == Spec => []FeedInv
<1>1. Init => FeedInv
  BY InitFeed
<1>2. FeedInv /\ [Next]_vars => FeedInv'
  <2> SUFFICES ASSUME FeedInv, [Next]_vars PROVE FeedInv'
    OBVIOUS
  <2>1. ASSUME NEW s \in Senders, CallSend(s) \/ Send(s) PROVE FeedInv'
    BY <2>1, CallSendStep, SendTakeLockStep, MergeInboxStep, TrySendStep, SelectSendStep,
       SelectRemoveStep, SendReturnStep DEF Send
  <2>2. ASSUME NEW c \in Subs, Subscribe(c) \/ Handled(c) \/ Quit(c) \/ Remove(c)
        PROVE  FeedInv'
    BY <2>2, SubscribeStep, SubscriberMoves, RemoveFromInboxStep, RemoveTakeLockStep, SMTT(30),
       RemoveCaseStep DEF Remove
  <2>3. CASE UNCHANGED vars
    BY <2>3 DEF vars, FeedInv, TypeOK, SubscribedOnce, DeliveredToAll, LocalsExact, Sending,
                Holding
  <2> QED BY <2>1, <2>2, <2>3 DEF Next
<1> QED BY <1>1, <1>2, PTL DEF Spec

(* For any number of senders and subscribers, each subscription is in      *)
(* exactly one list of the feed, once, and the send lock has one holder,   *)
(* through every interleaving of Send, Subscribe and remove.               *)
THEOREM AlwaysSubscribedOnce == Spec => []SubscribedOnce
<1>1. FeedInv => SubscribedOnce
  BY DEF FeedInv
<1> QED BY <1>1, FeedInvariant, PTL

(* For any number of senders and subscribers, a running Send has reached   *)
(* exactly the inactive cases, and nobody it began with is missing who has *)
(* not unsubscribed: what the swaps of deactivate and the deletions of     *)
(* removeSub do to the list loses no subscriber and sends to none twice.   *)
THEOREM AlwaysDeliveredToAll == Spec => []DeliveredToAll
<1>1. FeedInv => DeliveredToAll
  BY DEF FeedInv
<1> QED BY <1>1, FeedInvariant, PTL

(* The locals of Send never leave the list they index. *)
THEOREM TypeCorrect == Spec => []TypeOK
<1>1. FeedInv => TypeOK
  BY DEF FeedInv
<1> QED BY <1>1, FeedInvariant, PTL
=============================================================================
