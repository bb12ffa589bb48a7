----------------------------- MODULE EventFeed -----------------------------
(***************************************************************************)
(* The feed that carries chain notifications (core/event): goroutines that *)
(* Send, and subscribers that each receive on an unbuffered channel of     *)
(* their own until they are told to quit, and then Unsubscribe             *)
(* (BlockManager.subscribe, RpcServer.subscribe).                          *)
(*                                                                         *)
(* A subscriber and its channel have one name.  A step ends where another  *)
(* goroutine can come in between: at a channel operation or at f.mu.       *)
(***************************************************************************)
EXTENDS Integers, Sequences, Functions

CONSTANTS Senders, Subs

ASSUME FeedAssumption == Senders \cap Subs = {}

VARIABLES
  inbox,      \* Feed.inbox: channels the next Send adds to sendCases
  sendCases,  \* Feed.sendCases without the case of removeSub
  locked,     \* nobody can take from sendLock
  spc,        \* where each sender is
  cases,      \* length of the active prefix of sendCases (Send's local)
  next,       \* the case the fast path tries next (Send's local i)
  pc,         \* where each subscriber is
  due,        \* history: the subscribers in sendCases when this Send began
  got         \* history: the subscribers this Send has reached

vars == <<inbox, sendCases, locked, spc, cases, next, pc, due, got>>

Init ==
  /\ inbox = <<>> /\ sendCases = <<>>
  /\ locked = FALSE
  /\ spc = [s \in Senders |-> "idle"]
  /\ cases = 0 /\ next = 1
  /\ pc = [c \in Subs |-> "new"]
  /\ due = {} /\ got = {}

delete(s, i) == SubSeq(s, 1, i - 1) \o SubSeq(s, i + 1, Len(s))

find(s, c) == CHOOSE i \in DOMAIN s : s[i] = c

(* The case changes places with the last active one. *)
(* Mutant: it does not. *)
deactivateInPlace(i) == sendCases

deactivate(i) == [sendCases EXCEPT ![i] = sendCases[cases], ![cases] = sendCases[i]]

-----------------------------------------------------------------------------
(* A subscriber: Subscribe, receive and handle until quit, then remove. *)

Subscribe(c) ==
  /\ pc[c] = "new"
  /\ inbox' = Append(inbox, c)
  /\ pc' = [pc EXCEPT ![c] = "receive"]
  /\ UNCHANGED <<sendCases, locked, spc, cases, next, due, got>>

Handled(c) ==
  /\ pc[c] = "handle"
  /\ pc' = [pc EXCEPT ![c] = "receive"]
  /\ UNCHANGED <<inbox, sendCases, locked, spc, cases, next, due, got>>

Quit(c) ==
  /\ pc[c] = "receive"
  /\ pc' = [pc EXCEPT ![c] = "unsubscribe"]
  /\ UNCHANGED <<inbox, sendCases, locked, spc, cases, next, due, got>>

(* remove looks into the inbox first. *)
RemoveFromInbox(c) ==
  /\ pc[c] = "unsubscribe"
  /\ IF c \in Range(inbox)
     THEN inbox' = delete(inbox, find(inbox, c)) /\ pc' = [pc EXCEPT ![c] = "gone"]
     ELSE UNCHANGED inbox /\ pc' = [pc EXCEPT ![c] = "remove"]
  /\ UNCHANGED <<sendCases, locked, spc, cases, next, due, got>>

(* Mutant: remove waits for a running Send only. *)
removeTakeNoLock(c) == FALSE

(* The select of remove: the send lock, or (SelectRemove) a running Send. *)
RemoveTakeLock(c) ==
  /\ pc[c] = "remove"
  /\ ~locked
  /\ locked' = TRUE
  /\ pc' = [pc EXCEPT ![c] = "delete"]
  /\ UNCHANGED <<inbox, sendCases, spc, cases, next, due, got>>

RemoveCase(c) ==
  /\ pc[c] = "delete"
  /\ sendCases' = delete(sendCases, find(sendCases, c))
  /\ locked' = FALSE
  /\ pc' = [pc EXCEPT ![c] = "gone"]
  /\ UNCHANGED <<inbox, spc, cases, next, due, got>>

-----------------------------------------------------------------------------
(* Send. *)

CallSend(s) ==
  /\ spc[s] = "idle"
  /\ spc' = [spc EXCEPT ![s] = "lock"]
  /\ UNCHANGED <<inbox, sendCases, locked, cases, next, pc, due, got>>

SendTakeLock(s) ==
  /\ spc[s] = "lock"
  /\ ~locked
  /\ locked' = TRUE
  /\ spc' = [spc EXCEPT ![s] = "merge"]
  /\ UNCHANGED <<inbox, sendCases, cases, next, pc, due, got>>

(* Mutant: the inbox is not emptied. *)
mergeInboxKept(s) ==
  /\ spc[s] = "merge"
  /\ sendCases' = sendCases \o inbox
  /\ cases' = Len(sendCases) + Len(inbox)
  /\ next' = 1
  /\ due' = Range(sendCases) \cup Range(inbox)
  /\ got' = {}
  /\ spc' = [spc EXCEPT ![s] = "try"]
  /\ UNCHANGED <<inbox, locked, pc>>

MergeInbox(s) ==
  /\ spc[s] = "merge"
  /\ sendCases' = sendCases \o inbox
  /\ inbox' = <<>>
  /\ cases' = Len(sendCases) + Len(inbox)
  /\ next' = 1
  /\ due' = Range(sendCases) \cup Range(inbox)
  /\ got' = {}
  /\ spc' = [spc EXCEPT ![s] = "try"]
  /\ UNCHANGED <<locked, pc>>

(* A value goes through an unbuffered channel when its receiver waits.     *)
Deliver(i) ==
  /\ pc[sendCases[i]] = "receive"
  /\ pc' = [pc EXCEPT ![sendCases[i]] = "handle"]
  /\ got' = got \cup {sendCases[i]}
  /\ sendCases' = deactivate(i)
  /\ cases' = cases - 1

(* The fast path over the active cases: the case that takes the place of   *)
(* a delivered one is tried too.                                           *)
TrySend(s) ==
  /\ spc[s] = "try" /\ next <= cases
  /\ \/ Deliver(next) /\ UNCHANGED next
     \/ /\ pc[sendCases[next]] # "receive"
        /\ next' = next + 1
        /\ UNCHANGED <<pc, got, sendCases, cases>>
  /\ UNCHANGED <<inbox, locked, spc, due>>

(* reflect.Select, after a pass that left cases active: a receiver becomes *)
(* ready, or a subscriber is in remove.                                    *)
Selecting(s) == spc[s] = "try" /\ next > cases /\ cases > 0

SelectSend(s) ==
  /\ Selecting(s)
  /\ \E i \in 1..cases : Deliver(i)
  /\ next' = 1
  /\ UNCHANGED <<inbox, locked, spc, due>>

(* Mutant: the active prefix does not shrink with the list. *)
casesKept(i) == cases

casesAfterRemoval(i) == IF i <= cases THEN cases - 1 ELSE cases

(* Mutant: Send polls the active cases and does not listen to removeSub. *)
selectPolls(s) ==
  /\ Selecting(s)
  /\ next' = 1
  /\ UNCHANGED <<inbox, sendCases, locked, spc, cases, pc, due, got>>

SelectRemove(s) ==
  /\ Selecting(s)
  /\ \E c \in Subs :
       /\ pc[c] = "remove"
       /\ pc' = [pc EXCEPT ![c] = "gone"]
       /\ sendCases' = delete(sendCases, find(sendCases, c))
       /\ cases' = casesAfterRemoval(find(sendCases, c))
  /\ next' = 1
  /\ UNCHANGED <<inbox, locked, spc, due, got>>

SendReturn(s) ==
  /\ spc[s] = "try" /\ cases = 0
  /\ locked' = FALSE
  /\ spc' = [spc EXCEPT ![s] = "idle"]
  /\ next' = 1 /\ due' = {} /\ got' = {}
  /\ UNCHANGED <<inbox, sendCases, cases, pc>>

-----------------------------------------------------------------------------
Send(s) ==
  \/ SendTakeLock(s) \/ MergeInbox(s) \/ TrySend(s)
  \/ SelectSend(s) \/ SelectRemove(s) \/ SendReturn(s)

Remove(c) == RemoveFromInbox(c) \/ RemoveTakeLock(c) \/ RemoveCase(c)

Next ==
  \/ \E s \in Senders : CallSend(s) \/ Send(s)
  \/ \E c \in Subs : Subscribe(c) \/ Handled(c) \/ Quit(c) \/ Remove(c)

Spec == Init /\ [][Next]_vars

(* Goroutines that can run do, and handlers return; nobody has to send,    *)
(* subscribe or quit.  A goroutine that waits to take from sendLock is     *)
(* served though others come and go: Go channels queue their receivers.    *)
Fairness ==
  /\ \A s \in Senders :
       /\ WF_vars(Send(s))
       /\ SF_vars(SendTakeLock(s))
  /\ \A c \in Subs :
       /\ WF_vars(Handled(c))
       /\ WF_vars(Remove(c))
       /\ SF_vars(RemoveTakeLock(c))

FairSpec == Spec /\ Fairness

-----------------------------------------------------------------------------
Holding == {s \in Senders : spc[s] \notin {"idle", "lock"}} \cup {c \in Subs : pc[c] = "delete"}

(* The locals are meaningful: no index leaves its list. *)
TypeOK ==
  /\ inbox \in Seq(Subs) /\ sendCases \in Seq(Subs)
  /\ locked \in BOOLEAN
  /\ spc \in [Senders -> {"idle", "lock", "merge", "try"}]
  /\ pc \in [Subs -> {"new", "receive", "handle", "unsubscribe", "remove", "delete", "gone"}]
  /\ cases \in 0..Len(sendCases) /\ next \in 1..(Len(sendCases) + 1)
  /\ due \subseteq Subs /\ got \subseteq due

(* Every subscription is in exactly one of inbox and sendCases, once, from *)
(* Subscribe until its Unsubscribe returns, so that remove never gets -1   *)
(* from find on sendCases; and sendLock has one holder at most, which      *)
(* inbox and sendCases rely on.                                            *)
SubscribedOnce ==
  /\ IsInjective(inbox) /\ IsInjective(sendCases)
  /\ Range(inbox) \cap Range(sendCases) = {}
  /\ Range(inbox) \cup Range(sendCases) = {c \in Subs : pc[c] \notin {"new", "gone"}}
  /\ \A c \in Subs : pc[c] \in {"remove", "delete"} => c \in Range(sendCases)
  /\ \A p, q \in Holding : p = q
  /\ locked <=> Holding # {}

(* "Values sent to a Feed are delivered to all subscribed channels": while *)
(* a Send runs, the inactive cases are the ones it has reached and the     *)
(* active ones those it has not, whatever is removed meanwhile; so when it *)
(* returns every subscriber it began with has the value, once, or has      *)
(* unsubscribed.                                                           *)
DeliveredToAll ==
  (\E s \in Senders : spc[s] = "try") =>
    /\ \A i \in DOMAIN sendCases : i > cases <=> sendCases[i] \in got
    /\ \A c \in due : c \in Range(sendCases) \/ pc[c] = "gone"

(* A call of Send returns, though subscribers quit and receive no more     *)
(* from their channels.                                                    *)
SendsReturn == \A s \in Senders : spc[s] # "idle" ~> spc[s] = "idle"

(* Unsubscribe returns, whether a Send is running or not. *)
UnsubscribeReturns == \A c \in Subs : pc[c] = "unsubscribe" ~> pc[c] = "gone"

=============================================================================
