---------------------------- MODULE PhantomLists ----------------------------
(***************************************************************************)
(* Lists of blocks in topological order: getDiffAnticoneOrder makes one of *)
(* the diff anticone, updateMainOrder strings them together along the main *)
(* chain and numbers the result, and connectDagChain turns the connected   *)
(* chain into it.                                                          *)
(***************************************************************************)
EXTENDS PhantomProof

(* The leaves below are for Zenon, but for those that name another prover. *)
USE Zenon

-----------------------------------------------------------------------------
(* getDiffAnticoneOrder: the work list empties, and what it leaves behind  *)
(* has every block after its parents.                                      *)

(* Which ids occur in a sequence. *)
LEMMA InRange ==
  ASSUME NEW S, NEW s \in Seq(S)
  PROVE  /\ Range(s) \in SUBSET S
         /\ \A c : c \in Range(s) <=> \E i \in 1..Len(s) : s[i] = c
<1>1. DOMAIN s = 1..Len(s) /\ \A i \in 1..Len(s) : s[i] \in S
  BY SMT
<1>. QED BY <1>1 DEF Range

(* What a first element and the others are. *)
LEMMA HeadAndTail ==
  ASSUME NEW S, NEW q \in Seq(S), q # <<>>
  PROVE  /\ Head(q) \in S /\ Head(q) = q[1] /\ 1 \in 1..Len(q)
         /\ Tail(q) \in Seq(S) /\ Len(q) \in Nat /\ Len(Tail(q)) + 1 = Len(q)
         /\ \A i \in 1..Len(q) : i = 1 \/ \E j \in 1..Len(Tail(q)) : q[i] = Tail(q)[j]
<1>1. /\ Head(q) \in S /\ Head(q) = q[1] /\ Len(q) \in Nat /\ Len(q) # 0
      /\ Tail(q) \in Seq(S) /\ Len(Tail(q)) = Len(q) - 1
  BY SMT
<1>2. ASSUME NEW i \in 1..Len(q), i # 1
      PROVE  \E j \in 1..Len(Tail(q)) : q[i] = Tail(q)[j]
  <2>1. i - 1 \in 1..Len(Tail(q))
    BY <1>1, <1>2, SMT
  <2>2. q[i] = Tail(q)[i - 1]
    BY <1>2, SMT
  <2>. QED BY <2>1, <2>2
<1>3. 1 \in 1..Len(q) /\ Len(Tail(q)) + 1 = Len(q)
  BY <1>1, SMT
<1>. QED BY <1>1, <1>2, <1>3

(* t is u with c at its end. *)
Appended(t, u, c) ==
  /\ Len(u) \in Nat /\ Len(t) = Len(u) + 1
  /\ \A i \in 1..Len(u) : t[i] = u[i] /\ i \in 1..Len(t)
  /\ t[Len(u) + 1] = c
  /\ \A i \in 1..Len(t) : i \in 1..Len(u) \/ i = Len(u) + 1
  /\ Range(t) = Range(u) \cup {c}

(* A block appended is the last. *)
LEMMA AppendAt ==
  ASSUME NEW S, NEW u \in Seq(S), NEW c \in S
  PROVE  Append(u, c) \in Seq(S) /\ Appended(Append(u, c), u, c)
<1>. DEFINE t == Append(u, c)
<1>1. t \in Seq(S) /\ Len(u) \in Nat /\ Len(t) = Len(u) + 1
  BY SMT
<1>2. (\A i \in 1..Len(u) : t[i] = u[i]) /\ t[Len(u) + 1] = c
  BY SMT
<1>. HIDE DEF t
<1>3. /\ \A i \in 1..Len(u) : i \in 1..Len(t)
      /\ \A i \in 1..Len(t) : i \in 1..Len(u) \/ i = Len(u) + 1
      /\ Len(u) + 1 \in 1..Len(t)
  BY <1>1, SMT
<1>4. Range(t) = Range(u) \cup {c}
  <2>1. \A x : x \in Range(t) <=> \E i \in 1..Len(t) : t[i] = x
    BY <1>1, InRange
  <2>2. \A x : x \in Range(u) <=> \E i \in 1..Len(u) : u[i] = x
    BY InRange
  <2>3. \A x : x \in Range(t) <=> x \in Range(u) \cup {c}
    BY <1>2, <1>3, <2>1, <2>2
  <2>. QED BY <2>3
<1>. QED BY <1>1, <1>2, <1>3, <1>4 DEF t, Appended

(* Smaller by one measure, or as large by it and smaller by another. *)
Lex(D, mu, nu) ==
  {x \in D \X D : mu[x[1]] < mu[x[2]] \/ (mu[x[1]] = mu[x[2]] /\ nu[x[1]] < nu[x[2]])}

(* There is no endless descent by two measures. *)
LEMMA LexFounded ==
  ASSUME NEW D, NEW mu \in [D -> Nat], NEW nu \in [D -> Nat]
  PROVE  Founded(Lex(D, mu, nu), D)
<1>1. ASSUME NEW T \in SUBSET D, T # {}
      PROVE  \E x \in T : \A y \in T : <<y, x>> \notin Lex(D, mu, nu)
  <2>. DEFINE M == {mu[x] : x \in T}
  <2>1. M \in SUBSET Nat /\ M # {}
    BY <1>1
  <2>2. PICK m \in M : \A k \in M : m <= k
    <3>. HIDE DEF M
    <3>. QED BY <2>1, LeastNat
  <2>. DEFINE U == {x \in T : mu[x] = m}
              W == {nu[x] : x \in U}
  <2>3. W \in SUBSET Nat /\ W # {}
    BY <2>2
  <2>4. PICK w \in W : \A k \in W : w <= k
    <3>. HIDE DEF W
    <3>. QED BY <2>3, LeastNat
  <2>5. PICK x \in T : mu[x] = m /\ nu[x] = w
    BY <2>4
  <2>6. ASSUME NEW y \in T, <<y, x>> \in Lex(D, mu, nu) PROVE FALSE
    <3>1. mu[y] < mu[x] \/ (mu[y] = mu[x] /\ nu[y] < nu[x])
      <4>1. <<y, x>>[1] = y /\ <<y, x>>[2] = x
        OBVIOUS
      <4>. QED BY <2>6, <4>1 DEF Lex
    <3>2. mu[y] \in Nat /\ mu[x] \in Nat /\ nu[y] \in Nat /\ nu[x] \in Nat /\ m <= mu[y]
      BY <2>2
    <3>3. ~(mu[y] < mu[x])
      BY <2>5, <3>2, SMT
    <3>4. w <= nu[y]
      BY <2>4, <2>5, <3>1, <3>3
    <3>. QED BY <2>5, <3>1, <3>2, <3>3, <3>4, SMT
  <2>. QED BY <2>6
<1>2. ASSUME NEW x \in D, NEW y \in D
      PROVE  <<x, y>> \in Lex(D, mu, nu) <=> mu[x] < mu[y] \/ (mu[x] = mu[y] /\ nu[x] < nu[y])
  <2>1. <<x, y>>[1] = x /\ <<x, y>>[2] = y /\ <<x, y>> \in D \X D
    OBVIOUS
  <2>. QED BY <2>1 DEF Lex
<1>3. ASSUME NEW x \in D, NEW y \in D, NEW z \in D,
             <<x, y>> \in Lex(D, mu, nu), <<y, z>> \in Lex(D, mu, nu)
      PROVE  <<x, z>> \in Lex(D, mu, nu)
  <2>1. /\ mu[x] < mu[y] \/ (mu[x] = mu[y] /\ nu[x] < nu[y])
        /\ mu[y] < mu[z] \/ (mu[y] = mu[z] /\ nu[y] < nu[z])
    BY <1>2, <1>3
  <2>2. mu[x] < mu[z] \/ (mu[x] = mu[z] /\ nu[x] < nu[z])
    BY <2>1, SMT
  <2>. QED BY <1>2, <2>2
<1>. QED BY <1>1, <1>3 DEF Founded

(* How much drain still has to do: the blocks without a place, and then    *)
(* where the head of the work list stands.                                 *)
Undone(diff, u) == Cardinality(diff \ Range(u))
Waiting(n, u, q) ==
  IF q = <<>> THEN 0 ELSE IF Head(q) \in Range(u) THEN n + 1 + Len(q) ELSE Head(q)

Missing(bs, diff, u, q) == (bs[Head(q)].parents \cap diff) \ Range(u)

(* The two lists after one round. *)
Drained(bs, blue, diff, u, q) ==
  IF Head(q) \in Range(u) THEN <<u, Tail(q)>>
  ELSE IF Missing(bs, diff, u, q) # {}
  THEN <<u, sortBlocks(bs, bs[Head(q)].mainParent, blue, Missing(bs, diff, u, q), diff) \o q>>
  ELSE <<Append(u, Head(q)), Tail(q)>>

(* One round leaves two lists of the diff anticone with less to do. *)
Less(n, diff, v, r, u, q) ==
  /\ v \in Seq(diff) /\ r \in Seq(diff)
  /\ \/ Undone(diff, v) < Undone(diff, u)
     \/ Undone(diff, v) = Undone(diff, u) /\ Waiting(n, v, r) < Waiting(n, u, q)

(* Both measures are natural numbers. *)
LEMMA DrainMeasures ==
  ASSUME NEW n \in Nat, NEW diff \in SUBSET (0..n), NEW u \in Seq(diff), NEW q \in Seq(diff)
  PROVE  Undone(diff, u) \in Nat /\ Waiting(n, u, q) \in Nat
<1>1. IsFiniteSet(diff)
  <2>1. IsFiniteSet(0..n)
    BY FS_Interval, SMT
  <2>. QED BY <2>1, FS_Subset
<1>2. Undone(diff, u) \in Nat
  <2>1. diff \ Range(u) \in SUBSET diff
    OBVIOUS
  <2>2. IsFiniteSet(diff \ Range(u))
    BY <1>1, <2>1, FS_Subset
  <2>. QED BY <2>2, FS_CardinalityType DEF Undone
<1>3. CASE q = <<>>
  BY <1>2, <1>3 DEF Waiting
<1>4. CASE q # <<>>
  <2>1. Head(q) \in diff /\ Len(q) \in Nat
    BY <1>4, HeadAndTail
  <2>2. Head(q) \in 0..n
    BY <2>1
  <2>3. Head(q) \in Nat /\ n + 1 + Len(q) \in Nat
    BY <2>1, <2>2, SMT
  <2>. QED BY <1>2, <1>4, <2>3 DEF Waiting
<1>. QED BY <1>3, <1>4

(* Passing over a block that has its place. *)
LEMMA DrainSkips ==
  ASSUME NEW n \in Nat, NEW diff \in SUBSET (0..n), NEW u \in Seq(diff), NEW q \in Seq(diff),
         q # <<>>, Head(q) \in Range(u)
  PROVE  Less(n, diff, u, Tail(q), u, q)
<1>1. Tail(q) \in Seq(diff) /\ Len(q) \in Nat /\ Len(Tail(q)) + 1 = Len(q)
  BY HeadAndTail
<1>2. Waiting(n, u, q) = n + 1 + Len(q)
  BY DEF Waiting
<1>3. CASE Tail(q) = <<>>
  <2>1. Waiting(n, u, Tail(q)) = 0
    BY <1>3 DEF Waiting
  <2>2. Waiting(n, u, Tail(q)) < Waiting(n, u, q)
    BY <1>1, <1>2, <2>1, SMT
  <2>. QED BY <1>1, <2>2 DEF Less
<1>4. CASE Tail(q) # <<>>
  <2>. DEFINE r == Tail(q)
  <2>1. Head(r) \in diff /\ Len(r) \in Nat
    BY <1>1, <1>4, HeadAndTail
  <2>2. Waiting(n, u, r) = n + 1 + Len(r) \/ Waiting(n, u, r) = Head(r)
    BY <1>4 DEF Waiting
  <2>3. Waiting(n, u, r) < Waiting(n, u, q)
    <3>1. Head(r) \in 0..n
      BY <2>1
    <3>. HIDE DEF r
    <3>2. Len(r) + 1 = Len(q)
      BY <1>1 DEF r
    <3>. QED BY <1>1, <1>2, <2>1, <2>2, <3>1, <3>2, SMT
  <2>. QED BY <1>1, <2>3 DEF Less
<1>. QED BY <1>3, <1>4

(* Putting the missing parents of the head first. *)
LEMMA DrainDefers ==
  ASSUME NEW bs, NEW n, Acyclic(bs, n), NEW diff \in SUBSET (0..n), Hashed(bs, diff), NEW blue, NEW m,
         NEW u \in Seq(diff), NEW q \in Seq(diff), q # <<>>, Head(q) \notin Range(u),
         Missing(bs, diff, u, q) # {}
  PROVE  Less(n, diff, u, sortBlocks(bs, m, blue, Missing(bs, diff, u, q), diff) \o q, u, q)
<1>. DEFINE M == Missing(bs, diff, u, q)
            v == sortBlocks(bs, m, blue, M, diff)
            r == v \o q
<1>1. n \in Nat /\ Head(q) \in diff /\ Len(q) \in Nat
  BY HeadAndTail DEF Acyclic
<1>2. M \in SUBSET diff /\ M \cap diff = M
  BY DEF Missing
<1>3. Holds(v, M)
  <2>1. Holds(v, M \cap diff)
    BY SortBlocksHolds
  <2>. QED BY <1>2, <2>1
<1>. HIDE DEF v, M
<1>4. v \in Seq(M) /\ v \in Seq(diff) /\ v # <<>>
  <2>1. v \in Seq(M)
    BY <1>3 DEF Holds
  <2>2. v \in Seq(diff)
    BY <1>2, <2>1, SMT
  <2>3. PICK c \in M : TRUE
    BY DEF M
  <2>4. PICK i \in 1..Len(v) : v[i] = c
    BY <1>3 DEF Holds
  <2>5. v # <<>>
    BY <2>1, <2>4, SMT
  <2>. QED BY <2>1, <2>2, <2>5
<1>5. r \in Seq(diff) /\ r # <<>> /\ Head(r) = Head(v)
  BY <1>4, SMT
<1>6. Head(v) \in M
  BY <1>4, HeadAndTail
<1>7. Head(v) \in bs[Head(q)].parents /\ Head(v) \notin Range(u)
  BY <1>6 DEF M, Missing
<1>8. Head(v) < Head(q)
  BY <1>1, <1>7, ParentsOlder
<1>9. Waiting(n, u, r) = Head(v) /\ Waiting(n, u, q) = Head(q)
  <2>. HIDE DEF r
  <2>. QED BY <1>5, <1>7 DEF Waiting
<1>. QED BY <1>5, <1>8, <1>9 DEF Less, v, M

(* Giving the head its place. *)
LEMMA DrainPlaces ==
  ASSUME NEW n \in Nat, NEW diff \in SUBSET (0..n), NEW u \in Seq(diff), NEW q \in Seq(diff),
         q # <<>>, Head(q) \notin Range(u)
  PROVE  Less(n, diff, Append(u, Head(q)), Tail(q), u, q)
<1>. DEFINE c == Head(q)
            v == Append(u, c)
            A == diff \ Range(v)
            B == diff \ Range(u)
<1>1. c \in diff /\ Tail(q) \in Seq(diff)
  BY HeadAndTail
<1>2. v \in Seq(diff) /\ Range(v) = Range(u) \cup {c}
  BY <1>1, AppendAt DEF Appended
<1>. HIDE DEF c, v
<1>3. A \in SUBSET B /\ c \in B /\ c \notin A /\ B \in SUBSET diff
  BY <1>1, <1>2 DEF c
<1>. HIDE DEF A, B
<1>4. IsFiniteSet(B)
  <2>1. IsFiniteSet(0..n)
    BY FS_Interval, SMT
  <2>. QED BY <1>3, <2>1, FS_Subset
<1>5. IsFiniteSet(A) /\ Cardinality(A) <= Cardinality(B) /\ (Cardinality(A) = Cardinality(B) => A = B)
  BY <1>3, <1>4, FS_Subset
<1>6. Cardinality(A) \in Nat /\ Cardinality(B) \in Nat
  BY <1>4, <1>5, FS_CardinalityType
<1>7. Cardinality(A) # Cardinality(B)
  BY <1>3, <1>5
<1>8. Cardinality(A) < Cardinality(B)
  BY <1>5, <1>6, <1>7, SMT
<1>9. Undone(diff, v) < Undone(diff, u)
  BY <1>8 DEF Undone, A, B
<1>. QED BY <1>1, <1>2, <1>9 DEF Less, c, v

(* One round of drain, whatever it does. *)
LEMMA DrainStep ==
  ASSUME NEW bs, NEW n, Acyclic(bs, n), NEW diff \in SUBSET (0..n), Hashed(bs, diff), NEW blue,
         NEW u \in Seq(diff), NEW q \in Seq(diff), q # <<>>
  PROVE  \E v, r : Drained(bs, blue, diff, u, q) = <<v, r>> /\ Less(n, diff, v, r, u, q)
<1>0. n \in Nat
  BY DEF Acyclic
<1>1. CASE Head(q) \in Range(u)
  <2>1. Drained(bs, blue, diff, u, q) = <<u, Tail(q)>>
    BY <1>1 DEF Drained
  <2>. QED BY <1>0, <1>1, <2>1, DrainSkips
<1>2. CASE Head(q) \notin Range(u) /\ Missing(bs, diff, u, q) # {}
  <2>. DEFINE r == sortBlocks(bs, bs[Head(q)].mainParent, blue, Missing(bs, diff, u, q), diff) \o q
  <2>1. Drained(bs, blue, diff, u, q) = <<u, r>>
    BY <1>2 DEF Drained
  <2>2. Less(n, diff, u, r, u, q)
    BY <1>2, DrainDefers
  <2>. HIDE DEF r
  <2>. QED BY <2>1, <2>2
<1>3. CASE Head(q) \notin Range(u) /\ Missing(bs, diff, u, q) = {}
  <2>1. Drained(bs, blue, diff, u, q) = <<Append(u, Head(q)), Tail(q)>>
    BY <1>3 DEF Drained
  <2>. QED BY <1>0, <1>3, <2>1, DrainPlaces
<1>. QED BY <1>1, <1>2, <1>3

(* s lists blocks of diff, each once and after its parents in diff. *)
Tidy(bs, diff, s) ==
  /\ s \in Seq(diff)
  /\ \A i, j \in 1..Len(s) : s[i] = s[j] => i = j
  /\ \A i \in 1..Len(s) : \A p \in bs[s[i]].parents \cap diff : \E j \in 1..(i - 1) : s[j] = p

(* Nothing of u and q is missing from v and r. *)
Carried(u, q, v, r) == Range(u) \cup Range(q) \subseteq Range(v) \cup Range(r)

(* One round keeps the list tidy, and loses nothing of either list. *)
LEMMA DrainTidy ==
  ASSUME NEW bs, NEW diff, Hashed(bs, diff), NEW blue,
         NEW u, Tidy(bs, diff, u), NEW q \in Seq(diff), q # <<>>,
         NEW v, NEW r, Drained(bs, blue, diff, u, q) = <<v, r>>, r \in Seq(diff)
  PROVE  Tidy(bs, diff, v) /\ Carried(u, q, v, r)
<1>. DEFINE c == Head(q)
            M == Missing(bs, diff, u, q)
            w == sortBlocks(bs, bs[c].mainParent, blue, M, diff)
<1>0. u \in Seq(diff)
  BY DEF Tidy
<1>1. /\ c \in diff /\ c = q[1] /\ Tail(q) \in Seq(diff)
      /\ \A i \in 1..Len(q) : i = 1 \/ \E j \in 1..Len(Tail(q)) : q[i] = Tail(q)[j]
  BY HeadAndTail
<1>2. \A x : x \in Range(q) <=> \E i \in 1..Len(q) : q[i] = x
  BY InRange
<1>3. \A x : x \in Range(Tail(q)) <=> \E i \in 1..Len(Tail(q)) : Tail(q)[i] = x
  BY <1>1, InRange
<1>4. \A x : x \in Range(q) => x = c \/ x \in Range(Tail(q))
  BY <1>1, <1>2, <1>3
<1>5. CASE c \in Range(u)
  <2>1. <<v, r>> = <<u, Tail(q)>>
    BY <1>5 DEF Drained
  <2>2. v = u /\ r = Tail(q)
    BY <2>1
  <2>. QED BY <1>4, <1>5, <2>2 DEF Carried
<1>6. CASE c \notin Range(u) /\ M # {}
  <2>1. <<v, r>> = <<u, w \o q>>
    BY <1>6 DEF Drained
  <2>. HIDE DEF w
  <2>2. v = u /\ r = w \o q
    BY <2>1
  <2>3. Holds(w, M \cap diff)
    BY SortBlocksHolds DEF w
  <2>4. w \in Seq(M \cap diff)
    BY <2>3 DEF Holds
  <2>5. Joined(w \o q, w, q)
    BY <2>4, ConcatAt
  <2>6. Len(w) \in Nat /\ Len(q) \in Nat /\ Len(r) = Len(w) + Len(q) /\ \A i \in 1..Len(q) : r[Len(w) + i] = q[i]
    BY <2>2, <2>5 DEF Joined
  <2>7. \A i \in 1..Len(q) : Len(w) + i \in 1..Len(r)
    BY <2>6, SMT
  <2>8. \A x : x \in Range(r) <=> \E i \in 1..Len(r) : r[i] = x
    BY InRange
  <2>9. \A x : x \in Range(q) => x \in Range(r)
    BY <1>2, <2>6, <2>7, <2>8
  <2>. QED BY <2>2, <2>9 DEF Carried
<1>7. CASE c \notin Range(u) /\ M = {}
  <2>1. <<v, r>> = <<Append(u, c), Tail(q)>>
    BY <1>7 DEF Drained
  <2>2. v = Append(u, c) /\ r = Tail(q)
    BY <2>1
  <2>. HIDE DEF c, M
  <2>3. /\ v \in Seq(diff) /\ Len(u) \in Nat /\ Len(v) = Len(u) + 1
        /\ \A i \in 1..Len(u) : v[i] = u[i] /\ i \in 1..Len(v)
        /\ v[Len(u) + 1] = c
        /\ \A i \in 1..Len(v) : i \in 1..Len(u) \/ i = Len(u) + 1
        /\ Range(v) = Range(u) \cup {c}
    <3>1. Append(u, c) \in Seq(diff) /\ Appended(Append(u, c), u, c)
      BY <1>0, <1>1, AppendAt
    <3>2. v \in Seq(diff) /\ Appended(v, u, c)
      BY <2>2, <3>1
    <3>. QED BY <3>2 DEF Appended
  <2>4. \A x : x \in Range(u) <=> \E i \in 1..Len(u) : u[i] = x
    BY <1>0, InRange
  <2>5. \A i, j \in 1..Len(u) : u[i] = u[j] => i = j
    BY DEF Tidy
  <2>6. ASSUME NEW i \in 1..Len(v), NEW j \in 1..Len(v), v[i] = v[j] PROVE i = j
    BY <1>7, <2>3, <2>4, <2>5, <2>6
  <2>7. ASSUME NEW i \in 1..Len(v), NEW p \in bs[v[i]].parents \cap diff
        PROVE  \E j \in 1..(i - 1) : v[j] = p
    <3>1. CASE i \in 1..Len(u)
      <4>1. PICK j \in 1..(i - 1) : u[j] = p
        BY <2>3, <2>7, <3>1 DEF Tidy
      <4>2. j \in 1..Len(u)
        BY <2>3, <3>1, SMT
      <4>. QED BY <2>3, <4>1, <4>2
    <3>2. CASE i = Len(u) + 1
      <4>1. p \in Range(u)
        BY <1>7, <2>3, <2>7, <3>2 DEF M, Missing, c
      <4>2. PICK j \in 1..Len(u) : u[j] = p
        BY <2>4, <4>1
      <4>3. j \in 1..(i - 1)
        BY <2>3, <3>2, SMT
      <4>. QED BY <2>3, <4>2, <4>3
    <3>. QED BY <2>3, <3>1, <3>2
  <2>8. Tidy(bs, diff, v)
    BY <2>3, <2>6, <2>7 DEF Tidy
  <2>9. \A x : x \in Range(u) \cup Range(q) => x \in Range(v) \cup Range(r)
    BY <1>4, <2>2, <2>3
  <2>. QED BY <2>8, <2>9 DEF Carried
<1>. QED BY <1>5, <1>6, <1>7

(* The result of getDiffAnticoneOrder is tidy and holds every parent of b  *)
(* that is in the diff anticone.                                           *)
LEMMA DiffOrderTidy ==
  ASSUME NEW bs, NEW n, Acyclic(bs, n), NEW b, NEW diff, diff = bs[b].blue \cup bs[b].red,
         diff \in SUBSET (0..n), Hashed(bs, diff)
  PROVE  /\ Tidy(bs, diff, getDiffAnticoneOrder(bs, b))
         /\ \A c \in bs[b].parents \cap diff : c \in Range(getDiffAnticoneOrder(bs, b))
<1>. DEFINE blue == bs[b].blue
            diff0 == blue \cup bs[b].red
            drain[st \in Seq(diff0) \X Seq(diff0)] ==
              LET ordered == st[1]
                  toOrder == st[2]
                  cur     == Head(toOrder)
                  missing == (bs[cur].parents \cap diff0) \ Range(ordered)
              IN  IF toOrder = <<>> THEN ordered
                  ELSE IF cur \in Range(ordered)
                  THEN drain[<<ordered, Tail(toOrder)>>]
                  ELSE IF missing # {}
                  THEN drain[<<ordered, sortBlocks(bs, bs[cur].mainParent, blue,
                                                   missing, diff0) \o toOrder>>]
                  ELSE drain[<<Append(ordered, cur), Tail(toOrder)>>]
            first == sortBlocks(bs, bs[b].mainParent, blue, bs[b].parents, diff0)
            D == Seq(diff0) \X Seq(diff0)
            V == Seq(diff0)
            nxt(x) == Drained(bs, blue, diff0, x[1], x[2])
            val(x, e) == IF x[2] = <<>> THEN x[1] ELSE e[nxt(x)]
            raw(x, e) == IF x[2] = <<>> THEN x[1]
                         ELSE IF Head(x[2]) \in Range(x[1]) THEN e[<<x[1], Tail(x[2])>>]
                         ELSE IF (bs[Head(x[2])].parents \cap diff0) \ Range(x[1]) # {}
                         THEN e[<<x[1], sortBlocks(bs, bs[Head(x[2])].mainParent, blue,
                                  (bs[Head(x[2])].parents \cap diff0) \ Range(x[1]), diff0) \o x[2]>>]
                         ELSE e[<<Append(x[1], Head(x[2])), Tail(x[2])>>]
            mu == [x \in D |-> Undone(diff0, x[1])]
            nu == [x \in D |-> Waiting(n, x[1], x[2])]
            R == Lex(D, mu, nu)
            G == [x \in D \X [D -> V] |-> val(x[1], x[2])]
<1>0. n \in Nat /\ diff0 = diff /\ diff0 \in SUBSET (0..n) /\ Hashed(bs, diff0)
  BY DEF Acyclic
<1>a. <<>> \in V /\ V # {}
  <2>1. <<>> \in V
    BY SMT
  <2>. QED BY <2>1
<1>1. getDiffAnticoneOrder(bs, b) = drain[<<<<>>, first>>]
  BY SMT DEF getDiffAnticoneOrder
<1>2. \A x, e : raw(x, e) = val(x, e)
  BY DEF Drained, Missing
<1>3. \A x \in D : x[1] \in V /\ x[2] \in V /\ x = <<x[1], x[2]>>
  <2>. HIDE DEF diff0
  <2>. QED BY PairParts
<1>4. \A y, z : y \in V /\ z \in V => <<y, z>> \in D
  OBVIOUS
<1>5. Founded(R, D)
  <2>1. \A x \in D : Undone(diff0, x[1]) \in Nat /\ Waiting(n, x[1], x[2]) \in Nat
    BY <1>0, <1>3, DrainMeasures
  <2>2. mu \in [D -> Nat] /\ nu \in [D -> Nat]
    BY <2>1
  <2>. HIDE DEF D, mu, nu
  <2>. QED BY <2>2, LexFounded
<1>6. ASSUME NEW x \in D, x[2] # <<>>
      PROVE  nxt(x) \in D /\ <<nxt(x), x>> \in R
  <2>1. PICK v, r : nxt(x) = <<v, r>> /\ Less(n, diff0, v, r, x[1], x[2])
    <3>1. x[1] \in Seq(diff0) /\ x[2] \in Seq(diff0)
      BY <1>3
    <3>. HIDE DEF diff0, blue
    <3>. QED BY <1>0, <1>6, <3>1, DrainStep
  <2>2. v \in V /\ r \in V /\ <<v, r>> \in D
    BY <2>1 DEF Less
  <2>3. mu[<<v, r>>] = Undone(diff0, v) /\ nu[<<v, r>>] = Waiting(n, v, r)
    <3>1. <<v, r>>[1] = v /\ <<v, r>>[2] = r
      OBVIOUS
    <3>. QED BY <2>2, <3>1
  <2>4. mu[x] = Undone(diff0, x[1]) /\ nu[x] = Waiting(n, x[1], x[2])
    OBVIOUS
  <2>5. mu[<<v, r>>] < mu[x] \/ (mu[<<v, r>>] = mu[x] /\ nu[<<v, r>>] < nu[x])
    BY <2>1, <2>3, <2>4 DEF Less
  <2>. HIDE DEF mu, nu, D
  <2>6. <<<<v, r>>, x>> \in R
    <3>. DEFINE y == <<v, r>>
    <3>1. <<y, x>> \in D \X D /\ <<y, x>>[1] = y /\ <<y, x>>[2] = x
      BY <2>2
    <3>. HIDE DEF y
    <3>2. mu[y] < mu[x] \/ (mu[y] = mu[x] /\ nu[y] < nu[x])
      BY <2>5 DEF y
    <3>3. <<y, x>> \in R
      BY <3>1, <3>2 DEF Lex
    <3>. QED BY <3>3 DEF y
  <2>. QED BY <2>1, <2>2, <2>6
<1>. HIDE DEF R, nxt
<1>7. ASSUME NEW x \in D, NEW e \in [D -> V], NEW g \in [D -> V]
      PROVE  /\ G[x, e] = val(x, e) /\ val(x, e) \in V
             /\ (\A d \in D : <<d, x>> \in R => e[d] = g[d]) => val(x, e) = val(x, g)
  <2>1. G[x, e] = val(x, e)
    <3>. HIDE DEF val, D, V
    <3>. QED OBVIOUS
  <2>2. val(x, e) \in V
    <3>. HIDE DEF D, V
    <3>. QED BY <1>3, <1>6
  <2>3. ASSUME \A d \in D : <<d, x>> \in R => e[d] = g[d] PROVE val(x, e) = val(x, g)
    <3>. HIDE DEF D, V
    <3>. QED BY <1>6, <2>3
  <2>. QED BY <2>1, <2>2, <2>3
<1>8. G \in [D \X [D -> V] -> V]
  <2>. HIDE DEF D, V
  <2>1. \A x \in D \X [D -> V] : x[1] \in D /\ x[2] \in [D -> V] /\ x = <<x[1], x[2]>>
    BY PairParts
  <2>. HIDE DEF val
  <2>2. \A x \in D \X [D -> V] : G[x] \in V
    BY <1>7, <2>1
  <2>. QED BY <2>2
<1>9. PICK f : Solves(f, D, V, G)
  <2>. HIDE DEF G, val, D, V
  <2>0. \A x \in D : \A e \in [D -> V] : G[x, e] = val(x, e)
    BY <1>7
  <2>1. \A x \in D : \A e, g \in [D -> V] :
          (\A d \in D : <<d, x>> \in R => e[d] = g[d]) => G[x, e] = G[x, g]
    <3>. SUFFICES ASSUME NEW x \in D, NEW e \in [D -> V], NEW g \in [D -> V],
                         \A d \in D : <<d, x>> \in R => e[d] = g[d]
                  PROVE  G[x, e] = G[x, g]
      OBVIOUS
    <3>1. val(x, e) = val(x, g)
      BY <1>7
    <3>. QED BY <2>0, <3>1
  <2>2. Recursive(D, V, R, G)
    BY <1>5, <1>8, <2>1, <1>a DEF Recursive
  <2>. QED BY <2>2, RecursionExists
<1>10. f = [x \in D |-> raw(x, f)]
  <2>. HIDE DEF val, G, raw, D, V
  <2>1. f = [x \in D |-> val(x, f)]
    BY <1>7, <1>9 DEF Solves
  <2>. QED BY <1>2, <2>1
<1>11. drain = [x \in D |-> raw(x, drain)]
  BY <1>10
<1>. HIDE DEF drain
<1>12. \A x \in D : drain[x] = IF x[2] = <<>> THEN x[1] ELSE drain[nxt(x)]
  <2>. HIDE DEF raw, D
  <2>1. \A x \in D : drain[x] = val(x, drain)
    BY <1>2, <1>11
  <2>. QED BY <2>1
<1>. DEFINE ok(x) == Tidy(bs, diff0, x[1]) =>
                       /\ Tidy(bs, diff0, drain[x])
                       /\ \A c : c \in Range(x[1]) \cup Range(x[2]) => c \in Range(drain[x])
            T == {x \in D : ~ok(x)}
<1>13. T = {}
  <2>1. SUFFICES ASSUME T # {} PROVE FALSE
    OBVIOUS
  <2>2. PICK x \in T : \A d \in T : <<d, x>> \notin R
    <3>1. T \in SUBSET D
      OBVIOUS
    <3>. HIDE DEF T, D
    <3>. QED BY <1>5, <2>1, <3>1 DEF Founded
  <2>3. x \in D /\ ~ok(x) /\ x[1] \in V /\ x[2] \in V
    <3>1. x \in D /\ ~ok(x)
      <4>. HIDE DEF D, ok
      <4>. QED BY <2>2
    <3>. QED BY <1>3, <3>1
  <2>4. Tidy(bs, diff0, x[1])
    BY <2>3
  <2>5. CASE x[2] = <<>>
    <3>1. drain[x] = x[1]
      BY <1>12, <2>3, <2>5
    <3>2. \A c : c \notin Range(x[2])
      <4>1. DOMAIN x[2] = {}
        BY <2>5, SMT
      <4>. QED BY <4>1 DEF Range
    <3>. QED BY <2>3, <3>1, <3>2
  <2>6. CASE x[2] # <<>>
    <3>. DEFINE y == nxt(x)
    <3>1. y \in D /\ <<y, x>> \in R /\ drain[x] = drain[y]
      BY <1>6, <1>12, <2>3, <2>6
    <3>. HIDE DEF D
    <3>2. ok(y)
      <4>. HIDE DEF ok, y
      <4>. QED BY <2>2, <3>1
    <3>3. y = <<y[1], y[2]>> /\ y[2] \in Seq(diff0)
      BY <1>3, <3>1
    <3>4. Drained(bs, blue, diff0, x[1], x[2]) = <<y[1], y[2]>>
      BY <3>3 DEF nxt
    <3>. HIDE DEF y, diff0, blue
    <3>5. Tidy(bs, diff0, y[1]) /\ Carried(x[1], x[2], y[1], y[2])
      <4>1. x[2] \in Seq(diff0) /\ Hashed(bs, diff0)
        BY <1>0, <2>3
      <4>. QED BY <2>4, <2>6, <3>3, <3>4, <4>1, DrainTidy
    <3>. QED BY <2>3, <3>1, <3>2, <3>5 DEF Carried
  <2>. QED BY <2>5, <2>6
<1>14. Holds(first, bs[b].parents \cap diff0)
  BY <1>0, SortBlocksHolds
<1>. HIDE DEF first
<1>. DEFINE x0 == <<<<>>, first>>
<1>15. x0 \in D /\ x0[1] = <<>> /\ x0[2] = first /\ first \in Seq(bs[b].parents \cap diff0)
  <2>1. first \in Seq(bs[b].parents \cap diff0)
    BY <1>14 DEF Holds
  <2>2. first \in Seq(diff0)
    BY <2>1, SMT
  <2>3. <<>> \in Seq(diff0)
    BY SMT
  <2>. HIDE DEF diff0
  <2>. QED BY <2>1, <2>2, <2>3
<1>16. Tidy(bs, diff0, x0[1])
  <2>1. <<>> \in Seq(diff0) /\ 1..Len(<<>>) = {}
    BY SMT
  <2>2. Tidy(bs, diff0, <<>>)
    <3>. HIDE DEF diff0
    <3>. QED BY <2>1 DEF Tidy
  <2>. QED BY <1>15, <2>2
<1>17. ok(x0)
  <2>. HIDE DEF D, ok, x0
  <2>. QED BY <1>13, <1>15
<1>18. \A c \in bs[b].parents \cap diff0 : c \in Range(first)
  <2>1. \A c : c \in Range(first) <=> \E i \in 1..Len(first) : first[i] = c
    <3>1. first \in Seq(bs[b].parents \cap diff0)
      BY <1>15
    <3>. QED BY <3>1, InRange
  <2>. QED BY <1>14, <2>1 DEF Holds
<1>. HIDE DEF diff0
<1>19. Tidy(bs, diff0, drain[x0]) /\ \A c \in bs[b].parents \cap diff0 : c \in Range(drain[x0])
  BY <1>15, <1>16, <1>17, <1>18
<1>. QED BY <1>0, <1>1, <1>19

(* When the colours of b split exactly what b adds to its main parent's    *)
(* past, getDiffAnticoneOrder lists just that, parents first.              *)
LEMMA DiffOrderLists ==
  ASSUME NEW bs, NEW n, Acyclic(bs, n), Hashed(bs, 0..n), NEW b \in 0..n,
         NEW m \in bs[b].parents, bs[b].blue \cup bs[b].red = Past(bs, b) \ Upto(bs, m)
  PROVE  Lists(bs, getDiffAnticoneOrder(bs, b), Upto(bs, m), Past(bs, b))
<1>. DEFINE A == Upto(bs, m)
            B == Past(bs, b)
            diff == B \ A
            s == getDiffAnticoneOrder(bs, b)
<1>0. n \in Nat /\ m \in 0..n /\ B \in SUBSET (0..n) /\ diff \in SUBSET (0..n) /\ diff = bs[b].blue \cup bs[b].red
  <2>1. n \in Nat /\ m \in 0..n
    BY ParentsOlder DEF Acyclic
  <2>2. B \in SUBSET (0..n)
    BY PastStep
  <2>. HIDE DEF A, B
  <2>. QED BY <2>1, <2>2 DEF A, B
<1>1. Hashed(bs, diff)
  <2>. HIDE DEF diff
  <2>. QED BY <1>0, FS_Subset DEF Hashed
<1>2. Tidy(bs, diff, s) /\ \A c \in bs[b].parents \cap diff : c \in Range(s)
  <2>. HIDE DEF diff
  <2>. QED BY <1>0, <1>1, DiffOrderTidy
<1>. HIDE DEF s
<1>3. s \in Seq(diff)
  BY <1>2 DEF Tidy
<1>4. \A c : c \in Range(s) <=> \E i \in 1..Len(s) : s[i] = c
  <2>. HIDE DEF diff
  <2>. QED BY <1>3, InRange
<1>5. A \subseteq B
  <2>1. m \in B /\ \A c \in Past(bs, m) : c \in B
    BY PastStep
  <2>. QED BY <2>1 DEF Upto
<1>6. \A c \in A : \A p \in bs[c].parents : p \in A
  <2>. SUFFICES ASSUME NEW c \in A, NEW p \in bs[c].parents PROVE p \in A
    OBVIOUS
  <2>1. CASE c = m
    <3>1. p \in Past(bs, m)
      BY <1>0, <2>1, PastStep
    <3>. QED BY <3>1 DEF Upto
  <2>2. CASE c \in Past(bs, m)
    <3>1. c \in 0..n
      BY <1>0, <2>2, PastStep
    <3>2. p \in Past(bs, c)
      BY <3>1, PastStep
    <3>3. p \in Past(bs, m)
      BY <1>0, <2>2, <3>2, PastTransitive
    <3>. QED BY <3>3 DEF Upto
  <2>. QED BY <2>1, <2>2 DEF Upto
<1>7. \A c \in B : \A p \in bs[c].parents : p \in B
  <2>. SUFFICES ASSUME NEW c \in B, NEW p \in bs[c].parents PROVE p \in B
    OBVIOUS
  <2>1. c \in 0..n
    BY <1>0
  <2>2. p \in Past(bs, c)
    BY <2>1, PastStep
  <2>. QED BY <2>2, PastTransitive
<1>. DEFINE T == {c \in diff : c \notin Range(s)}
<1>8. T = {}
  <2>1. SUFFICES ASSUME T # {} PROVE FALSE
    OBVIOUS
  <2>2. PICK c \in T : \A d \in T : ~(c < d)
    <3>1. T \in SUBSET (0..n)
      BY <1>0
    <3>. HIDE DEF T
    <3>. QED BY <1>0, <2>1, <3>1, NewerFounded
  <2>3. c \in B /\ c \notin A /\ c \notin Range(s)
    BY <2>2
  <2>4. PICK d \in Upto(bs, b) : c \in bs[d].parents
    BY <2>3, PastOlder
  <2>5. d # b
    BY <1>2, <2>3, <2>4
  <2>6. d \in B /\ d \in 0..n
    BY <1>0, <2>4, <2>5 DEF Upto
  <2>7. d \notin A
    BY <1>6, <2>3, <2>4
  <2>8. c < d
    BY <2>4, <2>6, ParentsOlder
  <2>9. d \in Range(s)
    BY <2>2, <2>6, <2>7, <2>8
  <2>10. PICK i \in 1..Len(s) : s[i] = d
    BY <1>4, <2>9
  <2>11. c \in bs[s[i]].parents \cap diff
    BY <2>3, <2>4, <2>10
  <2>12. PICK j \in 1..(i - 1) : s[j] = c
    <3>. HIDE DEF diff
    <3>. QED BY <1>2, <2>11 DEF Tidy
  <2>13. j \in 1..Len(s)
    <3>1. Len(s) \in Nat
      BY <1>3, SMT
    <3>. QED BY <3>1, SMT
  <2>. QED BY <1>4, <2>3, <2>12, <2>13
<1>9. s \in Seq(B)
  <2>1. diff \subseteq B
    OBVIOUS
  <2>. HIDE DEF B, diff
  <2>. QED BY <1>3, <2>1, SMT
<1>10. \A i \in 1..Len(s) : s[i] \in B /\ s[i] \notin A
  <2>1. \A i \in 1..Len(s) : s[i] \in diff
    <3>. HIDE DEF diff
    <3>. QED BY <1>3, SMT
  <2>. QED BY <2>1
<1>11. \A c \in B \ A : \E i \in 1..Len(s) : s[i] = c
  BY <1>4, <1>8
<1>12. \A i, j \in 1..Len(s) : s[i] = s[j] => i = j
  BY <1>2 DEF Tidy
<1>13. ASSUME NEW i \in 1..Len(s), NEW p \in bs[s[i]].parents
       PROVE  p \in A \/ \E j \in 1..(i - 1) : s[j] = p
  <2>1. p \in B
    BY <1>7, <1>10, <1>13
  <2>2. CASE p \notin A
    <3>1. p \in bs[s[i]].parents \cap diff
      BY <1>13, <2>1, <2>2
    <3>. HIDE DEF diff
    <3>. QED BY <1>2, <3>1 DEF Tidy
  <2>. QED BY <2>2
<1>. QED BY <1>5, <1>9, <1>10, <1>11, <1>12, <1>13 DEF Lists, s

-----------------------------------------------------------------------------
(* updateMainOrder: the blocks the new path of the main chain brings in. *)

(* u lists c and what of its past is not in A, with c at the end. *)
Linear(bs, u, A, c) == Lists(bs, u, A, Upto(bs, c)) /\ u # <<>> /\ u[Len(u)] = c

(* v begins with u. *)
Begins(u, v) ==
  /\ Len(u) \in Nat /\ Len(v) \in Nat /\ Len(u) <= Len(v)
  /\ \A i \in 1..Len(u) : u[i] = v[i]

(* A sequence begins with itself and goes on with what is added to it. *)
LEMMA BeginsConcat ==
  ASSUME NEW U, NEW W, NEW u \in Seq(U), NEW v \in Seq(W)
  PROVE  Begins(u, u) /\ Begins(u, u \o v)
<1>1. Joined(u \o v, u, v)
  BY ConcatAt
<1>2. Len(u) \in Nat /\ Len(v) \in Nat /\ Len(u \o v) = Len(u) + Len(v) /\ \A i \in 1..Len(u) : (u \o v)[i] = u[i]
  BY <1>1 DEF Joined
<1>3. Len(u) <= Len(u \o v) /\ Len(u \o v) \in Nat /\ Len(u) <= Len(u)
  BY <1>2, SMT
<1>. QED BY <1>2, <1>3 DEF Begins

(* A sequence is the beginning of what is appended to it. *)
LEMMA BeginsAppend ==
  ASSUME NEW U, NEW u \in Seq(U), NEW c \in U
  PROVE  Begins(u, Append(u, c))
<1>. DEFINE t == Append(u, c)
<1>1. Appended(t, u, c)
  BY AppendAt
<1>. HIDE DEF t
<1>2. Len(u) \in Nat /\ Len(t) = Len(u) + 1 /\ \A i \in 1..Len(u) : t[i] = u[i]
  BY <1>1 DEF Appended
<1>3. Len(t) \in Nat /\ Len(u) <= Len(t)
  BY <1>2, SMT
<1>. QED BY <1>2, <1>3 DEF Begins, t

(* A beginning of a beginning. *)
LEMMA BeginsTransitive ==
  ASSUME NEW u, NEW v, NEW w, Begins(u, v), Begins(v, w)
  PROVE  Begins(u, w)
<1>1. /\ Len(u) \in Nat /\ Len(v) \in Nat /\ Len(w) \in Nat /\ Len(u) <= Len(v) /\ Len(v) <= Len(w)
      /\ \A i \in 1..Len(u) : u[i] = v[i]
      /\ \A i \in 1..Len(v) : v[i] = w[i]
  BY DEF Begins
<1>2. Len(u) <= Len(w) /\ \A i \in 1..Len(u) : i \in 1..Len(v)
  BY <1>1, SMT
<1>. QED BY <1>1, <1>2 DEF Begins

(* A block alone completes its past. *)
LEMMA ListsOne ==
  ASSUME NEW bs, NEW n, Acyclic(bs, n), NEW b \in 0..n
  PROVE  Lists(bs, <<b>>, Past(bs, b), Upto(bs, b))
<1>. DEFINE s == <<b>>
            A == Past(bs, b)
            B == Upto(bs, b)
<1>1. Len(s) = 1 /\ s[1] = b /\ 1..1 = {1}
  BY SMT
<1>2. b \in B /\ A \subseteq B /\ \A c \in B \ A : c = b
  BY DEF Upto
<1>3. s \in Seq(B)
  <2>. HIDE DEF B
  <2>. QED BY <1>2, SMT
<1>4. b \notin A
  <2>1. b \in A => b < b
    BY PastOlder
  <2>2. ~(b < b)
    <3>1. n \in Nat
      BY DEF Acyclic
    <3>. QED BY <3>1, SMT
  <2>. QED BY <2>1, <2>2
<1>5. \A p \in bs[b].parents : p \in A
  BY PastStep
<1>. HIDE DEF s, A, B
<1>6. \A i \in 1..Len(s) : i = 1 /\ s[i] = b
  BY <1>1
<1>7. 1 \in 1..Len(s)
  BY <1>1
<1>. QED BY <1>1, <1>2, <1>3, <1>4, <1>5, <1>6, <1>7 DEF Lists, s, A, B

(* Two lists one after the other, the second up to c. *)
LEMMA LinearConcat ==
  ASSUME NEW bs, NEW A, NEW B, NEW u, NEW v, NEW c, Lists(bs, u, A, B), Linear(bs, v, B, c)
  PROVE  Linear(bs, u \o v, A, c)
<1>. DEFINE t == u \o v
            C == Upto(bs, c)
<1>1. Lists(bs, v, B, C) /\ v # <<>> /\ v[Len(v)] = c
  BY DEF Linear
<1>2. Lists(bs, t, A, C)
  BY <1>1, ListsConcat
<1>3. u \in Seq(B) /\ v \in Seq(C)
  BY <1>1 DEF Lists
<1>4. Len(v) \in 1..Len(v)
  <2>. HIDE DEF C
  <2>. QED BY <1>1, <1>3, SMT
<1>5. t \in Seq(B \cup C) /\ Joined(t, u, v)
  <2>. HIDE DEF C
  <2>. QED BY <1>3, ConcatAt
<1>6. Len(t) = Len(u) + Len(v) /\ t[Len(u) + Len(v)] = v[Len(v)] /\ Len(u) \in Nat
  BY <1>4, <1>5 DEF Joined
<1>7. t # <<>>
  <2>. HIDE DEF C, t
  <2>1. Len(t) # 0
    BY <1>4, <1>6, SMT
  <2>. QED BY <2>1, SMT
<1>. QED BY <1>1, <1>2, <1>6, <1>7 DEF Linear

(* The diff anticone of a block and then the block. *)
LEMMA LinearBlock ==
  ASSUME NEW bs, NEW n, Acyclic(bs, n), NEW b \in 0..n, NEW A, NEW s, Lists(bs, s, A, Past(bs, b))
  PROVE  Linear(bs, Append(s, b), A, b)
<1>1. Lists(bs, <<b>>, Past(bs, b), Upto(bs, b))
  BY ListsOne
<1>2. <<b>> # <<>> /\ <<b>>[Len(<<b>>)] = b
  OBVIOUS
<1>3. Linear(bs, <<b>>, Past(bs, b), b)
  BY <1>1, <1>2 DEF Linear
<1>4. Linear(bs, s \o <<b>>, A, b)
  BY <1>3, LinearConcat
<1>5. s \in Seq(Past(bs, b))
  BY DEF Lists
<1>6. Append(s, b) = s \o <<b>>
  BY <1>5, SMT
<1>. QED BY <1>4, <1>6

(* What getDiffAnticoneOrder listed for each block. *)
Ordered(bs, n) ==
  \A b \in (0..n) \ {GenesisId} :
    /\ bs[b].mainParent \in bs[b].parents
    /\ Lists(bs, bs[b].diffOrder, Upto(bs, bs[b].mainParent), Past(bs, b))

(* Along the path each block follows what it adds to the one before. *)
LEMMA NewlyOrderedLists ==
  ASSUME NEW bs, NEW n, Acyclic(bs, n), Ordered(bs, n),
         NEW M, GenesisId \in M, NEW path, NEW b, PathUp(bs, M, path, b)
  PROVE  LET A   == Upto(bs, bs[path[1]].mainParent)
             ids == newlyOrdered(bs, path)
         IN  /\ Linear(bs, ids, A, b)
             /\ \A i \in 1..Len(path) : \E u : Linear(bs, u, A, path[i]) /\ Begins(u, ids)
<1>. DEFINE A == Upto(bs, bs[path[1]].mainParent)
            k == Len(path)
            D == 0..k
            V == Seq(0..n)
            R == Older(k)
            dif(i) == bs[path[i]].diffOrder
            val(i, e) == IF i = 0 THEN <<>> ELSE Append(e[i - 1] \o dif(i), path[i])
            G == [x \in D \X [D -> V] |-> val(x[1], x[2])]
            upto[i \in D] == IF i = 0 THEN <<>> ELSE Append(upto[i - 1] \o dif(i), path[i])
<1>1. newlyOrdered(bs, path) = upto[k]
  BY SMT DEF newlyOrdered
<1>2. /\ n \in Nat /\ DOMAIN bs = 0..n /\ path \in Seq(0..n) /\ k \in Nat /\ k # 0 /\ path[k] = b
      /\ \A i \in 1..k : path[i] \in (0..n) \ {GenesisId}
      /\ \A i \in 1..k : i # 1 => bs[path[i]].mainParent = path[i - 1]
  <2>1. /\ n \in Nat /\ DOMAIN bs = 0..n /\ path \in Seq(0..n) /\ path # <<>> /\ path[k] = b
        /\ \A i \in 1..k : path[i] \in (0..n) \ {GenesisId}
        /\ \A i \in 1..k : i # 1 => bs[path[i]].mainParent = path[i - 1]
    BY DEF PathUp, Acyclic
  <2>2. k \in Nat /\ k # 0
    BY <2>1, SMT
  <2>. QED BY <2>1, <2>2
<1>3. Founded(R, D)
  BY <1>2, OlderFounded
<1>4. \A i \in D : i # 0 => i \in 1..k /\ i - 1 \in D /\ <<i - 1, i>> \in R
  <2>. SUFFICES ASSUME NEW i \in D, i # 0 PROVE i \in 1..k /\ i - 1 \in D /\ <<i - 1, i>> \in R
    OBVIOUS
  <2>1. i \in 1..k /\ i - 1 \in D /\ i - 1 < i
    BY <1>2, SMT
  <2>. QED BY <1>2, <2>1, OlderFounded
<1>5. \A i \in 1..k : /\ path[i] \in 0..n /\ dif(i) \in V
                      /\ Lists(bs, dif(i), Upto(bs, bs[path[i]].mainParent), Past(bs, path[i]))
  <2>. SUFFICES ASSUME NEW i \in 1..k
                PROVE  /\ path[i] \in 0..n /\ dif(i) \in V
                       /\ Lists(bs, dif(i), Upto(bs, bs[path[i]].mainParent), Past(bs, path[i]))
    OBVIOUS
  <2>1. path[i] \in (0..n) \ {GenesisId}
    BY <1>2
  <2>2. Lists(bs, dif(i), Upto(bs, bs[path[i]].mainParent), Past(bs, path[i]))
    BY <2>1 DEF Ordered
  <2>3. dif(i) \in Seq(Past(bs, path[i])) /\ Past(bs, path[i]) \subseteq 0..n
    BY <2>1, <2>2, PastStep DEF Lists
  <2>4. dif(i) \in V
    BY <2>3, SeqWider
  <2>. QED BY <2>1, <2>2, <2>4
<1>. HIDE DEF R, dif
<1>6. ASSUME NEW x \in D, NEW e \in [D -> V], NEW g \in [D -> V]
      PROVE  /\ G[x, e] = val(x, e) /\ val(x, e) \in V
             /\ (\A d \in D : <<d, x>> \in R => e[d] = g[d]) => val(x, e) = val(x, g)
  <2>1. G[x, e] = val(x, e)
    <3>. HIDE DEF val, D, V
    <3>. QED OBVIOUS
  <2>2. val(x, e) \in V
    <3>1. CASE x = 0
      <4>1. <<>> \in V
        BY SMT
      <4>. QED BY <3>1, <4>1
    <3>2. CASE x # 0
      <4>1. x - 1 \in D /\ x \in 1..k
        BY <1>4, <3>2
      <4>2. e[x - 1] \in V /\ dif(x) \in V /\ path[x] \in 0..n
        BY <1>5, <4>1
      <4>3. Append(e[x - 1] \o dif(x), path[x]) \in V
        BY <4>2, SMT
      <4>. QED BY <3>2, <4>3
    <3>. QED BY <3>1, <3>2
  <2>3. ASSUME \A d \in D : <<d, x>> \in R => e[d] = g[d] PROVE val(x, e) = val(x, g)
    <3>. HIDE DEF D, V
    <3>. QED BY <1>4, <2>3
  <2>. QED BY <2>1, <2>2, <2>3
<1>7. G \in [D \X [D -> V] -> V]
  <2>. HIDE DEF D, V
  <2>1. \A x \in D \X [D -> V] : x[1] \in D /\ x[2] \in [D -> V] /\ x = <<x[1], x[2]>>
    BY PairParts
  <2>. HIDE DEF val
  <2>2. \A x \in D \X [D -> V] : G[x] \in V
    BY <1>6, <2>1
  <2>. QED BY <2>2
<1>8. PICK f : Solves(f, D, V, G)
  <2>1. V # {}
    <3>1. <<>> \in V
      BY SMT
    <3>. QED BY <3>1
  <2>. HIDE DEF G, val, D, V
  <2>2. \A x \in D : \A e \in [D -> V] : G[x, e] = val(x, e)
    BY <1>6
  <2>3. \A x \in D : \A e, g \in [D -> V] :
          (\A d \in D : <<d, x>> \in R => e[d] = g[d]) => G[x, e] = G[x, g]
    <3>. SUFFICES ASSUME NEW x \in D, NEW e \in [D -> V], NEW g \in [D -> V],
                         \A d \in D : <<d, x>> \in R => e[d] = g[d]
                  PROVE  G[x, e] = G[x, g]
      OBVIOUS
    <3>1. val(x, e) = val(x, g)
      BY <1>6
    <3>. QED BY <2>2, <3>1
  <2>4. Recursive(D, V, R, G)
    BY <1>3, <1>7, <2>1, <2>3 DEF Recursive
  <2>. QED BY <2>4, RecursionExists
<1>9. f = [i \in D |-> val(i, f)]
  <2>. HIDE DEF val, G, D, V
  <2>. QED BY <1>6, <1>8 DEF Solves
<1>10. upto = [i \in D |-> val(i, upto)]
  BY <1>9
<1>. HIDE DEF upto
<1>11. /\ upto[0] = <<>>
       /\ \A i \in D : i # 0 => upto[i] = Append(upto[i - 1] \o dif(i), path[i])
  <2>1. 0 \in D
    BY <1>2, SMT
  <2>. HIDE DEF D
  <2>. QED BY <1>10, <2>1
<1>. DEFINE good(i) == Linear(bs, upto[i], A, path[i])
            T == {i \in D : i # 0 /\ ~good(i)}
<1>12. T = {}
  <2>1. SUFFICES ASSUME T # {} PROVE FALSE
    OBVIOUS
  <2>2. PICK i \in T : \A j \in T : <<j, i>> \notin R
    <3>1. T \in SUBSET D
      OBVIOUS
    <3>. HIDE DEF T, D
    <3>. QED BY <1>3, <2>1, <3>1 DEF Founded
  <2>. HIDE DEF A
  <2>3. i \in 1..k /\ i - 1 \in D /\ <<i - 1, i>> \in R /\ i \in D /\ i # 0
    BY <1>4, <2>2
  <2>4. upto[i] = Append(upto[i - 1] \o dif(i), path[i])
    BY <1>11, <2>3
  <2>5. Lists(bs, upto[i - 1] \o dif(i), A, Past(bs, path[i]))
    <3>1. CASE i = 1
      <4>1. i - 1 = 0
        BY <3>1, SMT
      <4>2. upto[i - 1] = <<>>
        BY <1>11, <4>1
      <4>3. Lists(bs, dif(i), A, Past(bs, path[i])) /\ dif(i) \in V
        BY <1>5, <2>3, <3>1 DEF A
      <4>4. upto[i - 1] \o dif(i) = dif(i)
        BY <4>2, <4>3, SMT
      <4>. QED BY <4>3, <4>4
    <3>2. CASE i # 1
      <4>1. i - 1 # 0
        BY <2>3, <3>2, SMT
      <4>2. good(i - 1)
        <5>. HIDE DEF good
        <5>. QED BY <2>2, <2>3, <4>1
      <4>3. Lists(bs, upto[i - 1], A, Upto(bs, path[i - 1]))
        BY <4>2 DEF Linear
      <4>4. Lists(bs, dif(i), Upto(bs, path[i - 1]), Past(bs, path[i]))
        BY <1>2, <1>5, <2>3, <3>2
      <4>. QED BY <4>3, <4>4, ListsConcat
    <3>. QED BY <3>1, <3>2
  <2>6. good(i)
    <3>1. path[i] \in 0..n
      BY <1>5, <2>3
    <3>. QED BY <2>4, <2>5, <3>1, LinearBlock
  <2>. HIDE DEF good
  <2>. QED BY <2>2, <2>6
<1>13. \A i \in 1..k : good(i) /\ upto[i] \in V
  <2>. SUFFICES ASSUME NEW i \in 1..k PROVE good(i) /\ upto[i] \in V
    OBVIOUS
  <2>1. i \in D /\ i # 0
    BY <1>2, SMT
  <2>2. good(i)
    <3>. HIDE DEF good
    <3>. QED BY <1>12, <2>1
  <2>3. upto[i] \in Seq(Upto(bs, path[i])) /\ Upto(bs, path[i]) \subseteq 0..n
    <3>1. path[i] \in 0..n
      BY <1>5
    <3>2. Past(bs, path[i]) \subseteq 0..n
      BY <3>1, PastStep
    <3>. QED BY <2>2, <3>1, <3>2 DEF Linear, Lists, Upto
  <2>4. upto[i] \in V
    BY <2>3, SeqWider
  <2>. QED BY <2>2, <2>4
<1>14. ASSUME NEW i \in 1..k PROVE Begins(upto[i], upto[k])
  <2>. DEFINE U == {j \in i..k : ~Begins(upto[i], upto[j])}
  <2>1. U = {}
    <3>1. SUFFICES ASSUME U # {} PROVE FALSE
      OBVIOUS
    <3>2. U \in SUBSET Nat
      BY <1>2, SMT
    <3>3. PICK j \in U : \A l \in U : j <= l
      <4>. HIDE DEF U
      <4>. QED BY <3>1, <3>2, LeastNat
    <3>4. j \in i..k /\ ~Begins(upto[i], upto[j])
      BY <3>3
    <3>5. j \in 1..k /\ j \in D /\ j # 0
      BY <1>2, <3>4, SMT
    <3>6. CASE j = i
      BY <1>13, <3>4, <3>6, BeginsConcat
    <3>7. CASE j # i
      <4>1. j - 1 \in i..k /\ ~(j <= j - 1) /\ j - 1 \in 1..k
        BY <1>2, <3>4, <3>7, SMT
      <4>2. Begins(upto[i], upto[j - 1])
        BY <3>3, <4>1
      <4>3. upto[j - 1] \in V /\ dif(j) \in V /\ path[j] \in 0..n
        BY <1>5, <1>13, <3>5, <4>1
      <4>4. upto[j] = Append(upto[j - 1] \o dif(j), path[j])
        BY <1>11, <3>5
      <4>5. Begins(upto[j - 1], upto[j])
        <5>. DEFINE y == upto[j - 1] \o dif(j)
        <5>1. Begins(upto[j - 1], y)
          BY <4>3, BeginsConcat
        <5>2. y \in V
          BY <4>3, SMT
        <5>3. Begins(y, upto[j])
          BY <4>3, <4>4, <5>2, BeginsAppend
        <5>. QED BY <5>1, <5>3, BeginsTransitive
      <4>. QED BY <3>4, <4>2, <4>5, BeginsTransitive
    <3>. QED BY <3>6, <3>7
  <2>2. k \in i..k
    BY <1>2, SMT
  <2>. QED BY <2>1, <2>2
<1>15. k \in 1..k
  BY <1>2, SMT
<1>16. Linear(bs, upto[k], A, b)
  BY <1>2, <1>13, <1>15
<1>17. \A i \in 1..k : \E u : Linear(bs, u, A, path[i]) /\ Begins(u, upto[k])
  BY <1>13, <1>14
<1>. QED BY <1>1, <1>16, <1>17

-----------------------------------------------------------------------------
(* The total order along the main chain. *)

(* A block of the main chain has the ones below it in its past. *)
LEMMA ChainBelow ==
  ASSUME NEW bs, NEW n, Acyclic(bs, n), Chained(bs, n), Ordered(bs, n), NEW M, NEW t, ChainOf(bs, M, t),
         NEW c \in M, NEW m \in M, bs[c].height <= bs[m].height
  PROVE  c \in Upto(bs, m)
<1>. DEFINE H(x) == bs[x].height
            T == {x \in 0..n : x \in M /\ H(c) <= H(x) /\ c \notin Upto(bs, x)}
<1>1. /\ n \in Nat /\ M \subseteq 0..n /\ GenesisId \in M /\ H(GenesisId) = 0
      /\ \A x \in 0..n : H(x) \in Nat
      /\ \A x \in M \ {GenesisId} : bs[x].mainParent \in M /\ H(x) = H(bs[x].mainParent) + 1
      /\ \A x, y \in M : x # y => H(x) # H(y)
  BY DEF Acyclic, Chained, ChainOf
<1>2. T = {}
  <2>1. SUFFICES ASSUME T # {} PROVE FALSE
    OBVIOUS
  <2>2. PICK x \in T : \A w \in T : <<w, x>> \notin Older(n)
    <3>1. T \in SUBSET (0..n) /\ Founded(Older(n), 0..n)
      BY <1>1, OlderFounded
    <3>. HIDE DEF T
    <3>. QED BY <2>1, <3>1 DEF Founded
  <2>3. x \in 0..n /\ x \in M /\ H(c) <= H(x) /\ c \notin Upto(bs, x)
    BY <2>2
  <2>4. c # x
    BY <2>3 DEF Upto
  <2>5. H(c) \in Nat /\ H(x) \in Nat /\ H(c) # H(x)
    BY <1>1, <2>3, <2>4
  <2>6. CASE x = GenesisId
    <3>1. H(x) = 0
      BY <1>1, <2>6
    <3>. HIDE DEF H
    <3>. QED BY <2>3, <2>5, <3>1, SMT
  <2>7. CASE x # GenesisId
    <3>. DEFINE p == bs[x].mainParent
    <3>1. p \in M /\ H(x) = H(p) + 1 /\ p \in bs[x].parents /\ p \in 0..n
      BY <1>1, <2>3, <2>7 DEF Ordered
    <3>2. H(c) <= H(p)
      <4>1. H(p) \in Nat
        BY <1>1, <3>1
      <4>. HIDE DEF H
      <4>. QED BY <2>3, <2>5, <3>1, <4>1, SMT
    <3>3. <<p, x>> \in Older(n)
      BY <2>3, <3>1, ParentsOlder
    <3>4. c \in Upto(bs, p)
      <4>1. p \notin T
        BY <2>2, <3>3
      <4>. HIDE DEF p
      <4>. QED BY <3>1, <3>2, <4>1
    <3>5. c \in Past(bs, x)
      BY <2>3, <3>1, <3>4, PastStep DEF Upto
    <3>. QED BY <2>3, <3>5 DEF Upto
  <2>. QED BY <2>6, <2>7
<1>. QED BY <1>1, <1>2

(* Facts about a list that ends in c. *)
LEMMA LinearEnds ==
  ASSUME NEW bs, NEW u, NEW A, NEW c, Linear(bs, u, A, c)
  PROVE  /\ u \in Seq(Upto(bs, c)) /\ Len(u) \in Nat /\ Len(u) \in 1..Len(u) /\ u[Len(u)] = c
         /\ \A i \in 1..Len(u) : u[i] \in Upto(bs, c) /\ u[i] \notin A
         /\ \A i, j \in 1..Len(u) : u[i] = u[j] => i = j
<1>1. u \in Seq(Upto(bs, c)) /\ u # <<>> /\ u[Len(u)] = c
  BY DEF Linear, Lists
<1>2. Len(u) \in Nat /\ Len(u) \in 1..Len(u) /\ \A i \in 1..Len(u) : u[i] \in Upto(bs, c)
  <2>. DEFINE U == Upto(bs, c)
  <2>1. u \in Seq(U)
    BY <1>1
  <2>. HIDE DEF U
  <2>2. Len(u) \in Nat /\ Len(u) \in 1..Len(u) /\ \A i \in 1..Len(u) : u[i] \in U
    BY <1>1, <2>1, SMT
  <2>. QED BY <2>2 DEF U
<1>. QED BY <1>1, <1>2 DEF Linear, Lists

(* Of two beginnings of the order, the one for a block of the other's past *)
(* is the beginning of the other.                                          *)
LEMMA BeginsInner ==
  ASSUME NEW bs, NEW s, NEW u, NEW v, NEW c, NEW m,
         \A i, j \in 1..Len(s) : s[i] = s[j] => i = j,
         Linear(bs, u, {}, c), Linear(bs, v, {}, m), Begins(u, s), Begins(v, s), c \in Upto(bs, m)
  PROVE  Begins(u, v)
<1>1. /\ Len(u) \in Nat /\ Len(v) \in Nat /\ Len(s) \in Nat /\ Len(u) <= Len(s) /\ Len(v) <= Len(s)
      /\ \A i \in 1..Len(u) : u[i] = s[i]
      /\ \A i \in 1..Len(v) : v[i] = s[i]
  BY DEF Begins
<1>2. Len(u) \in 1..Len(u) /\ u[Len(u)] = c
  BY LinearEnds
<1>3. PICK j \in 1..Len(v) : v[j] = c
  BY DEF Linear, Lists
<1>4. (\A i \in 1..Len(u) : i \in 1..Len(s)) /\ (\A i \in 1..Len(v) : i \in 1..Len(s))
  BY <1>1, SMT
<1>5. s[j] = s[Len(u)]
  BY <1>1, <1>2, <1>3
<1>6. j = Len(u)
  BY <1>2, <1>3, <1>4, <1>5
<1>7. Len(u) <= Len(v) /\ \A i \in 1..Len(u) : i \in 1..Len(v)
  BY <1>1, <1>3, <1>6, SMT
<1>. QED BY <1>1, <1>7 DEF Begins

(* s has every block of M at the end of the list of its past. *)
Stacked(bs, M, s) == \A c \in M : \E u : Linear(bs, u, {}, c) /\ Begins(u, s)

(* Moving the main tip keeps that so: below the intersection m the lists   *)
(* are the old ones, above it the path's.                                  *)
LEMMA MoveStacked ==
  ASSUME NEW bs, NEW M, NEW s, NEW t, Linear(bs, s, {}, t), Stacked(bs, M, s), NEW m,
         NEW v, Linear(bs, v, {}, m), Begins(v, s), NEW ids, NEW b, Linear(bs, ids, Upto(bs, m), b),
         NEW P, \A c \in P : \E u : Linear(bs, u, Upto(bs, m), c) /\ Begins(u, ids),
         NEW L \in SUBSET M, \A c \in L : c \in Upto(bs, m)
  PROVE  Linear(bs, v \o ids, {}, b) /\ Stacked(bs, L \cup P, v \o ids)
<1>. DEFINE A == Upto(bs, m)
            r == v \o ids
<1>1. Lists(bs, v, {}, A) /\ v \in Seq(A)
  BY DEF Linear, Lists
<1>2. ids \in Seq(Upto(bs, b))
  BY DEF Linear, Lists
<1>3. Linear(bs, r, {}, b)
  BY <1>1, LinearConcat
<1>4. Begins(v, r)
  BY <1>1, <1>2, BeginsConcat
<1>5. ASSUME NEW c \in L PROVE \E u : Linear(bs, u, {}, c) /\ Begins(u, r)
  <2>1. PICK u : Linear(bs, u, {}, c) /\ Begins(u, s)
    BY DEF Stacked
  <2>2. \A i, j \in 1..Len(s) : s[i] = s[j] => i = j
    BY LinearEnds
  <2>3. c \in Upto(bs, m)
    OBVIOUS
  <2>4. Begins(u, v)
    BY <2>1, <2>2, <2>3, BeginsInner
  <2>. QED BY <1>4, <2>1, <2>4, BeginsTransitive
<1>6. ASSUME NEW c \in P PROVE \E u : Linear(bs, u, {}, c) /\ Begins(u, r)
  <2>1. PICK u : Linear(bs, u, A, c) /\ Begins(u, ids)
    OBVIOUS
  <2>2. Linear(bs, v \o u, {}, c)
    BY <1>1, <2>1, LinearConcat
  <2>3. Begins(v \o u, r)
    <3>. DEFINE w == v \o u
    <3>1. u \in Seq(Upto(bs, c))
      BY <2>1 DEF Linear, Lists
    <3>2. Joined(w, v, u) /\ Joined(r, v, ids)
      BY <1>1, <1>2, <3>1, ConcatAt
    <3>. HIDE DEF w, r
    <3>3. /\ Len(v) \in Nat /\ Len(u) \in Nat /\ Len(ids) \in Nat /\ Len(u) <= Len(ids)
          /\ Len(w) = Len(v) + Len(u) /\ Len(r) = Len(v) + Len(ids)
          /\ \A i \in 1..Len(u) : u[i] = ids[i]
      BY <2>1, <3>2 DEF Joined, Begins
    <3>4. Len(w) \in Nat /\ Len(r) \in Nat /\ Len(w) <= Len(r) /\ \A i \in 1..Len(u) : i \in 1..Len(ids)
      BY <3>3, SMT
    <3>5. \A i \in 1..Len(v) : w[i] = r[i]
      BY <3>2 DEF Joined
    <3>6. \A i \in 1..Len(u) : w[Len(v) + i] = r[Len(v) + i]
      BY <3>2, <3>3, <3>4 DEF Joined
    <3>7. \A i \in 1..Len(w) : i \in 1..Len(v) \/ \E j \in 1..Len(u) : i = Len(v) + j
      BY <3>2 DEF Joined
    <3>8. \A i \in 1..Len(w) : w[i] = r[i]
      BY <3>5, <3>6, <3>7
    <3>9. Begins(w, r)
      BY <3>4, <3>8 DEF Begins
    <3>. QED BY <3>9 DEF w
  <2>. QED BY <2>2, <2>3
<1>. QED BY <1>3, <1>5, <1>6 DEF Stacked

-----------------------------------------------------------------------------
(* The orders the blocks and the database hold. *)

BodyFields == {"blue", "red", "diffOrder", "order"}

HasBodies(bs) == \A b \in DOMAIN bs : BodyFields \subseteq DOMAIN bs[b]

(* cs is bs but for the orders (and the fields SameLinks, SameColours keep *)
(* account of).                                                            *)
SameBodies(bs, cs) ==
  /\ DOMAIN cs = DOMAIN bs
  /\ \A b \in DOMAIN bs :
       /\ BodyFields \subseteq DOMAIN cs[b]
       /\ cs[b].blue = bs[b].blue /\ cs[b].red = bs[b].red
       /\ cs[b].diffOrder = bs[b].diffOrder

(* rs gives ids the orders that follow k and leaves the other blocks. *)
Renumbered(bs, rs, ids, k) ==
  /\ SameBodies(bs, rs)
  /\ \A i \in 1..Len(ids) : rs[ids[i]].order = k + i
  /\ \A c \in DOMAIN bs : c \notin Range(ids) => rs[c] = bs[c]

(* updateMainOrder numbers the listed blocks on from k and changes nothing *)
(* else of them.                                                           *)
LEMMA UpdateMainOrderFacts ==
  ASSUME NEW bs, HasBodies(bs), NEW ids \in Seq(DOMAIN bs), NEW k,
         \A i, j \in 1..Len(ids) : ids[i] = ids[j] => i = j
  PROVE  Renumbered(bs, updateMainOrder(bs, ids, k), ids, k)
<1>. DEFINE pos(b) == CHOOSE i \in DOMAIN ids :
                        ids[i] = b /\ \A j \in DOMAIN ids : ids[j] = b => j <= i
            ord(b) == k + pos(b)
            in(b) == b \in Range(ids)
            rs == [b \in DOMAIN bs |-> IF in(b) THEN [bs[b] EXCEPT !.order = ord(b)] ELSE bs[b]]
<1>1. updateMainOrder(bs, ids, k) = rs
  BY SMT DEF updateMainOrder
<1>2. DOMAIN ids = 1..Len(ids) /\ Len(ids) \in Nat /\ \A i \in 1..Len(ids) : ids[i] \in DOMAIN bs
  <2>. DEFINE D == DOMAIN bs
  <2>1. ids \in Seq(D)
    OBVIOUS
  <2>. HIDE DEF D
  <2>2. DOMAIN ids = 1..Len(ids) /\ Len(ids) \in Nat /\ \A i \in 1..Len(ids) : ids[i] \in D
    BY <2>1, SMT
  <2>. QED BY <2>2 DEF D
<1>3. \A i \in 1..Len(ids) : in(ids[i]) /\ pos(ids[i]) = i
  <2>. SUFFICES ASSUME NEW i \in 1..Len(ids) PROVE in(ids[i]) /\ pos(ids[i]) = i
    OBVIOUS
  <2>1. in(ids[i])
    BY <1>2 DEF Range
  <2>2. i <= i
    BY <1>2, SMT
  <2>3. \A j \in DOMAIN ids : ids[j] = ids[i] => j <= i
    BY <1>2, <2>2
  <2>4. \E j \in DOMAIN ids : ids[j] = ids[i] /\ \A l \in DOMAIN ids : ids[l] = ids[i] => l <= j
    BY <1>2, <2>3
  <2>5. pos(ids[i]) \in DOMAIN ids /\ ids[pos(ids[i])] = ids[i]
    BY <2>4
  <2>. HIDE DEF pos
  <2>. QED BY <1>2, <2>1, <2>5
<1>. HIDE DEF in, ord
<1>4. SameBodies(bs, rs)
  BY SMT DEF HasBodies, SameBodies, BodyFields
<1>5. \A i \in 1..Len(ids) : rs[ids[i]].order = ord(ids[i])
  <2>. SUFFICES ASSUME NEW i \in 1..Len(ids) PROVE rs[ids[i]].order = ord(ids[i])
    OBVIOUS
  <2>1. ids[i] \in DOMAIN bs /\ in(ids[i]) /\ "order" \in DOMAIN bs[ids[i]]
    BY <1>2, <1>3 DEF HasBodies, BodyFields
  <2>. QED BY <2>1
<1>6. \A i \in 1..Len(ids) : ord(ids[i]) = k + i
  BY <1>3 DEF ord
<1>7. \A c \in DOMAIN bs : c \notin Range(ids) => rs[c] = bs[c]
  BY DEF in
<1>. HIDE DEF rs
<1>. QED BY <1>1, <1>4, <1>5, <1>6, <1>7 DEF Renumbered

(* cs takes the orders of U away and leaves the other blocks. *)
Unnumbered(bs, cs, U) ==
  /\ SameBodies(bs, cs)
  /\ \A c \in DOMAIN bs : cs[c].order = IF c \in U THEN MaxBlockOrder ELSE bs[c].order

(* preUpdateVirtualBlock takes the order from the blocks of U alone. *)
LEMMA PreUpdateVirtualBlockFacts ==
  ASSUME NEW bs, HasBodies(bs), NEW U
  PROVE  Unnumbered(bs, preUpdateVirtualBlock(bs, U), U)
BY SMT DEF preUpdateVirtualBlock, HasBodies, SameBodies, BodyFields, Unnumbered

(* Both the blocks and the database number s from 0. *)
Numbered(bs, s, os) ==
  \A i \in 1..Len(s) : bs[s[i]].order = i - 1 /\ i - 1 \in DOMAIN os /\ os[i - 1] = s[i]

(* s is numbered, starts with v up to m, and ids goes on from m to b. *)
Renewal(bs, n, s, v, m, ids, b) ==
  /\ Acyclic(bs, n) /\ HasBodies(bs) /\ Numbered(bs, s, orderIds)
  /\ Linear(bs, v, {}, m) /\ Begins(v, s)
  /\ b \in 0..n /\ Linear(bs, ids, Upto(bs, m), b)

(* updateMainOrder and preUpdateVirtualBlock number v and ids, and nothing *)
(* outside the past of b.                                                  *)
Renewed(bs, n, v, m, ids, b) ==
  LET k  == bs[m].order
      rs == updateMainOrder(bs, ids, k)
      U  == (0..n) \ Upto(bs, b)
      cs == preUpdateVirtualBlock(rs, U)
  IN  /\ k = Len(v) - 1
      /\ Renumbered(bs, rs, ids, k)
      /\ SameBodies(bs, cs)
      /\ Numbered(cs, v \o ids, commitOrder(ids, k))
      /\ \A c \in U : cs[c].order = MaxBlockOrder

(* Moving the main tip numbers the new order. *)
LEMMA MoveNumbered ==
  ASSUME NEW bs, NEW n, NEW s, NEW v, NEW m, NEW ids, NEW b, Renewal(bs, n, s, v, m, ids, b)
  PROVE  Renewed(bs, n, v, m, ids, b)
<1>. DEFINE A == Upto(bs, m)
            B == Upto(bs, b)
            k == bs[m].order
            rs == updateMainOrder(bs, ids, k)
            U == (0..n) \ B
            cs == preUpdateVirtualBlock(rs, U)
            r == v \o ids
            os == commitOrder(ids, k)
<1>. /\ Acyclic(bs, n) /\ HasBodies(bs) /\ Numbered(bs, s, orderIds)
     /\ Linear(bs, v, {}, m) /\ Begins(v, s)
     /\ b \in 0..n /\ Linear(bs, ids, Upto(bs, m), b)
  BY DEF Renewal
<1>1. /\ v \in Seq(A) /\ Len(v) \in Nat /\ Len(v) \in 1..Len(v) /\ v[Len(v)] = m
      /\ \A i \in 1..Len(v) : v[i] \in A
  BY LinearEnds
<1>2. /\ ids \in Seq(B) /\ Len(ids) \in Nat
      /\ \A i \in 1..Len(ids) : ids[i] \in B /\ ids[i] \notin A
      /\ \A i, j \in 1..Len(ids) : ids[i] = ids[j] => i = j
  BY LinearEnds
<1>3. A \subseteq B /\ B \subseteq 0..n /\ DOMAIN bs = 0..n
  <2>1. A \subseteq B
    BY DEF Linear, Lists
  <2>2. B \subseteq 0..n
    BY PastStep DEF Upto
  <2>. QED BY <2>1, <2>2 DEF Acyclic
<1>4. Len(s) \in Nat /\ Len(v) <= Len(s) /\ \A i \in 1..Len(v) : v[i] = s[i]
  BY DEF Begins
<1>5. \A i \in 1..Len(v) : i \in 1..Len(s)
  BY <1>1, <1>4, SMT
<1>6. k = Len(v) - 1
  BY <1>1, <1>4, <1>5 DEF Numbered
<1>. HIDE DEF A, B, k
<1>7. Renumbered(bs, rs, ids, k)
  <2>1. ids \in Seq(DOMAIN bs)
    BY <1>2, <1>3, SeqWider
  <2>. QED BY <1>2, <2>1, UpdateMainOrderFacts
<1>. HIDE DEF rs
<1>8. Unnumbered(rs, cs, U) /\ DOMAIN rs = 0..n
  <2>1. HasBodies(rs) /\ DOMAIN rs = 0..n
    BY <1>3, <1>7 DEF Renumbered, SameBodies, HasBodies
  <2>. QED BY <2>1, PreUpdateVirtualBlockFacts
<1>. HIDE DEF cs
<1>9. SameBodies(bs, cs)
  <2>1. SameBodies(bs, rs) /\ SameBodies(rs, cs)
    BY <1>7, <1>8 DEF Renumbered, Unnumbered
  <2>. QED BY <2>1, ZenonT(60) DEF SameBodies
<1>10. \A c \in U : cs[c].order = MaxBlockOrder
  BY <1>8 DEF Unnumbered
<1>11. \A c \in B : cs[c].order = rs[c].order
  BY <1>3, <1>8 DEF Unnumbered
<1>12. Joined(r, v, ids)
  BY <1>1, <1>2, ConcatAt
<1>. HIDE DEF r
<1>13. /\ Len(r) = Len(v) + Len(ids)
       /\ \A i \in 1..Len(v) : r[i] = v[i]
       /\ \A i \in 1..Len(ids) : r[Len(v) + i] = ids[i]
       /\ \A i \in 1..Len(r) : i \in 1..Len(v) \/ \E j \in 1..Len(ids) : i = Len(v) + j
  BY <1>12 DEF Joined
<1>14. DOMAIN ids = 1..Len(ids) /\ \A c : c \in Range(ids) <=> \E i \in 1..Len(ids) : ids[i] = c
  <2>1. DOMAIN ids = 1..Len(ids)
    BY <1>2, SMT
  <2>. QED BY <1>2, <2>1, InRange
<1>15. /\ \A o \in DOMAIN orderIds : o \in DOMAIN os
       /\ \A o \in DOMAIN orderIds : o - k \notin 1..Len(ids) => os[o] = orderIds[o]
       /\ \A i \in 1..Len(ids) : k + i \in DOMAIN os
       /\ \A o \in DOMAIN os : o - k \in 1..Len(ids) => os[o] = ids[o - k]
  BY <1>14 DEF commitOrder
<1>. HIDE DEF os
<1>16. ASSUME NEW i \in 1..Len(v)
       PROVE  cs[r[i]].order = i - 1 /\ i - 1 \in DOMAIN os /\ os[i - 1] = r[i]
  <2>1. r[i] = s[i] /\ i \in 1..Len(s) /\ s[i] \in A
    BY <1>1, <1>4, <1>5, <1>13
  <2>2. bs[s[i]].order = i - 1 /\ i - 1 \in DOMAIN orderIds /\ orderIds[i - 1] = s[i]
    BY <2>1 DEF Numbered
  <2>3. s[i] \notin Range(ids)
    BY <1>2, <1>14, <2>1
  <2>4. rs[s[i]] = bs[s[i]]
    BY <1>3, <1>7, <2>1, <2>3 DEF Renumbered
  <2>5. cs[s[i]].order = i - 1
    BY <1>3, <1>11, <2>1, <2>2, <2>4
  <2>6. (i - 1) - k \notin 1..Len(ids)
    BY <1>1, <1>2, <1>6, SMT
  <2>. QED BY <1>15, <2>1, <2>2, <2>5, <2>6
<1>17. ASSUME NEW j \in 1..Len(ids), NEW i, i = Len(v) + j
       PROVE  cs[r[i]].order = i - 1 /\ i - 1 \in DOMAIN os /\ os[i - 1] = r[i]
  <2>1. r[i] = ids[j] /\ ids[j] \in B
    BY <1>2, <1>13, <1>17
  <2>2. cs[ids[j]].order = k + j
    BY <1>7, <1>11, <2>1 DEF Renumbered
  <2>3. k + j = i - 1 /\ (i - 1) - k = j
    BY <1>1, <1>2, <1>6, <1>17, SMT
  <2>4. i - 1 \in DOMAIN os
    BY <1>15, <2>3
  <2>5. os[i - 1] = ids[j]
    BY <1>15, <2>3, <2>4
  <2>. QED BY <2>1, <2>2, <2>3, <2>4, <2>5
<1>18. Numbered(cs, r, os)
  <2>. SUFFICES ASSUME NEW i \in 1..Len(r)
                PROVE  cs[r[i]].order = i - 1 /\ i - 1 \in DOMAIN os /\ os[i - 1] = r[i]
    BY DEF Numbered
  <2>. QED BY <1>13, <1>16, <1>17
<1>. QED BY <1>6, <1>7, <1>9, <1>10, <1>18 DEF Renewed, r, os, cs, rs, k, B

-----------------------------------------------------------------------------
(* What the chain is told of a new main tip. *)

(* Sequences with the same elements in the same places. *)
LEMMA SeqSame ==
  ASSUME NEW S, NEW s \in Seq(S), NEW t \in Seq(S), Len(s) = Len(t), \A i \in 1..Len(s) : s[i] = t[i]
  PROVE  s = t
BY SMT

(* s from place a + 1 to place z. *)
Part(u, s, a, z) ==
  Len(u) = z - a /\ \A i \in 1..(z - a) : u[i] = s[a + i]

(* A subsequence is the part of s between two positions. *)
LEMMA SubSeqPart ==
  ASSUME NEW S, NEW s \in Seq(S), NEW z \in 0..Len(s), NEW a \in 0..z
  PROVE  SubSeq(s, a + 1, z) \in Seq(S) /\ Part(SubSeq(s, a + 1, z), s, a, z)
<1>. DEFINE u == SubSeq(s, a + 1, z)
<1>1. u \in Seq(S) /\ Len(u) = z - a
  BY SMT
<1>2. \A i \in 1..(z - a) : u[i] = s[a + i]
  BY SMT
<1>. HIDE DEF u
<1>. QED BY <1>1, <1>2 DEF Part, u

(* byOrder reads the same part off the database. *)
LEMMA ByOrderPart ==
  ASSUME NEW S, NEW s \in Seq(S), NEW os, \A i \in 1..Len(s) : os[i - 1] = s[i], NEW a \in 0..Len(s)
  PROVE  byOrder(os, a, Len(s) - 1) \in Seq(S) /\ Part(byOrder(os, a, Len(s) - 1), s, a, Len(s))
<1>. DEFINE k == Len(s) - a
            u == byOrder(os, a, Len(s) - 1)
<1>1. Len(s) \in Nat /\ k \in Nat /\ (Len(s) - 1) - a + 1 = k
  BY SMT
<1>2. u = [i \in 1..k |-> os[a + i - 1]]
  BY <1>1, SMT DEF byOrder
<1>3. \A i \in 1..k : os[a + i - 1] = s[a + i] /\ s[a + i] \in S
  <2>. SUFFICES ASSUME NEW i \in 1..k PROVE os[a + i - 1] = s[a + i] /\ s[a + i] \in S
    OBVIOUS
  <2>1. a + i \in 1..Len(s)
    BY <1>1, SMT
  <2>2. os[(a + i) - 1] = s[a + i]
    BY <2>1
  <2>3. s[a + i] \in S
    BY <2>1, SMT
  <2>4. (a + i) - 1 = a + i - 1
    BY <1>1, SMT
  <2>. QED BY <2>2, <2>3, <2>4
<1>. HIDE DEF k, u
<1>4. u \in [1..k -> S] /\ \A i \in 1..k : u[i] = s[a + i]
  BY <1>2, <1>3
<1>5. u \in Seq(S) /\ Len(u) = k
  <2>1. k \in Nat /\ u \in [1..k -> S]
    BY <1>1, <1>4
  <2>. QED BY <2>1, FunctionIsSeq
<1>. QED BY <1>4, <1>5 DEF Part, k, u

(* n blocks are the common start of the two lists. *)
Common(news, olds, n) ==
  /\ n \in 0..Len(olds) /\ n <= Len(news)
  /\ \A i \in 1..n : news[i] = olds[i]
  /\ (n < Len(news) /\ n < Len(olds)) => news[n + 1] # olds[n + 1]

(* connectDagChain finds the longest common start of two lists. *)
LEMMA CommonStartExists ==
  ASSUME NEW S, NEW news \in Seq(S), NEW olds \in Seq(S)
  PROVE  Common(news, olds, commonStart(news, olds))
<1>. DEFINE T == {n \in 0..Len(olds) : n <= Len(news) /\ \A i \in 1..n : news[i] = olds[i]}
<1>1. Len(news) \in Nat /\ Len(olds) \in Nat
  BY SMT
<1>2. T # {}
  <2>1. 0 \in 0..Len(olds) /\ 0 <= Len(news) /\ 1..0 = {}
    BY <1>1, SMT
  <2>. QED BY <2>1
<1>3. PICK n \in T : \A d \in T : ~(n < d)
  <2>1. T \in SUBSET (0..Len(olds))
    OBVIOUS
  <2>. HIDE DEF T
  <2>. QED BY <1>1, <1>2, <2>1, NewerFounded
<1>4. n \in 0..Len(olds) /\ n <= Len(news) /\ \A i \in 1..n : news[i] = olds[i]
  BY <1>3
<1>5. ASSUME n < Len(news), n < Len(olds), news[n + 1] = olds[n + 1] PROVE FALSE
  <2>1. n + 1 \in 0..Len(olds) /\ n + 1 <= Len(news) /\ n < n + 1 /\ \A i \in 1..(n + 1) : i \in 1..n \/ i = n + 1
    BY <1>1, <1>4, <1>5, SMT
  <2>2. \A i \in 1..(n + 1) : news[i] = olds[i]
    BY <1>4, <1>5, <2>1
  <2>. QED BY <1>3, <2>1, <2>2
<1>6. \E x \in 0..Len(olds) :
        /\ x <= Len(news)
        /\ \A i \in 1..x : news[i] = olds[i]
        /\ (x < Len(news) /\ x < Len(olds)) => news[x + 1] # olds[x + 1]
  BY <1>4, <1>5
<1>. DEFINE x == commonStart(news, olds)
<1>7. /\ x \in 0..Len(olds) /\ x <= Len(news)
      /\ \A i \in 1..x : news[i] = olds[i]
      /\ (x < Len(news) /\ x < Len(olds)) => news[x + 1] # olds[x + 1]
  BY <1>6 DEF commonStart
<1>. QED BY <1>7 DEF Common

(* The chain keeps v, gives up olds and takes ids, which ends in the new   *)
(* block b; U is left without an order.                                    *)
Exchange(S, v, olds, ids, b, U) ==
  /\ chain \in Seq(S) /\ v \in Seq(S) /\ Begins(v, chain)
  /\ \A i, j \in 1..Len(chain) : chain[i] = chain[j] => i = j
  /\ olds \in Seq(S) /\ Part(olds, chain, Len(v), Len(chain))
  /\ ids \in Seq(S) /\ ids # <<>> /\ ids[Len(ids)] = b
  /\ \A i \in 1..Len(chain) : chain[i] # b
  /\ IsFiniteSet(U)
  /\ U = {} => \A i \in 1..Len(olds) : \E j \in 1..Len(ids) : ids[j] = olds[i]

Exchanged(v, olds, ids, b, U) == connectDagChain(b, optimizeReorganizeResult(ids, olds), U) = v \o ids

(* Whichever way connectDagChain goes, the chain it leaves begins with v,  *)
(* the blocks up to the intersection, and goes on with the new ones.       *)
LEMMA ConnectedChain ==
  ASSUME NEW S, NEW v, NEW olds, NEW ids, NEW b, NEW U, Exchange(S, v, olds, ids, b, U)
  PROVE  Exchanged(v, olds, ids, b, U)
<1>. SUFFICES connectDagChain(b, optimizeReorganizeResult(ids, olds), U) = v \o ids
  BY DEF Exchanged
<1>. DEFINE n == commonStart(ids, olds)
            news1 == SubSeq(ids, n + 1, Len(ids))
            olds1 == SubSeq(olds, n + 1, Len(olds))
            r == v \o ids
            change == optimizeReorganizeResult(ids, olds)
<1>. /\ chain \in Seq(S) /\ v \in Seq(S) /\ Begins(v, chain)
     /\ \A i, j \in 1..Len(chain) : chain[i] = chain[j] => i = j
     /\ olds \in Seq(S) /\ Part(olds, chain, Len(v), Len(chain))
     /\ ids \in Seq(S) /\ ids # <<>> /\ ids[Len(ids)] = b
     /\ \A i \in 1..Len(chain) : chain[i] # b
     /\ IsFiniteSet(U)
     /\ U = {} => \A i \in 1..Len(olds) : \E j \in 1..Len(ids) : ids[j] = olds[i]
  BY DEF Exchange
<1>0. change = [news |-> news1, olds |-> olds1]
  BY SMT DEF optimizeReorganizeResult
<1>1. change.news = news1 /\ change.olds = olds1
  <2>. HIDE DEF news1, olds1, change
  <2>. QED BY <1>0, SMT
<1>2. Common(ids, olds, n)
  BY CommonStartExists
<1>. HIDE DEF n
<1>3. /\ Len(ids) \in Nat /\ Len(ids) # 0 /\ Len(chain) \in Nat /\ Len(v) \in Nat /\ Len(olds) \in Nat
      /\ Len(v) <= Len(chain) /\ Len(olds) = Len(chain) - Len(v)
      /\ \A i \in 1..Len(v) : v[i] = chain[i]
      /\ \A i \in 1..Len(olds) : olds[i] = chain[Len(v) + i]
  <2>1. Len(ids) \in Nat /\ Len(ids) # 0 /\ Len(chain) \in Nat /\ Len(v) \in Nat /\ Len(olds) \in Nat
    BY SMT
  <2>. QED BY <2>1 DEF Begins, Part
<1>4. /\ n \in 0..Len(olds) /\ n <= Len(ids)
      /\ \A i \in 1..n : ids[i] = olds[i]
  BY <1>2 DEF Common
<1>5. /\ Len(ids) \in 1..Len(ids) /\ n \in 0..Len(ids)
      /\ \A i \in 1..n : i \in 1..Len(olds)
      /\ \A i \in 1..Len(olds) : Len(v) + i \in 1..Len(chain)
      /\ \A i \in 1..Len(v) : i \in 1..Len(chain)
  <2>1. Len(ids) \in 1..Len(ids) /\ n \in 0..Len(ids)
    BY <1>3, <1>4, SMT
  <2>2. \A i \in 1..n : i \in 1..Len(olds)
    BY <1>3, <1>4, SMT
  <2>3. \A i \in 1..Len(olds) : Len(v) + i \in 1..Len(chain)
    BY <1>3, SMT
  <2>4. \A i \in 1..Len(v) : i \in 1..Len(chain)
    BY <1>3, SMT
  <2>. QED BY <2>1, <2>2, <2>3, <2>4
<1>6. \A i \in 1..Len(olds) : olds[i] # b
  BY <1>3, <1>5
<1>7. n < Len(ids)
  <2>1. SUFFICES ASSUME n = Len(ids) PROVE FALSE
    BY <1>3, <1>4, SMT
  <2>2. Len(ids) \in 1..n
    BY <1>5, <2>1
  <2>3. ids[Len(ids)] = olds[Len(ids)] /\ Len(ids) \in 1..Len(olds)
    BY <1>4, <1>5, <2>2
  <2>. QED BY <1>6, <2>3
<1>8. /\ news1 \in Seq(S) /\ Part(news1, ids, n, Len(ids))
      /\ olds1 \in Seq(S) /\ Part(olds1, olds, n, Len(olds))
  <2>1. Len(ids) \in 0..Len(ids) /\ Len(olds) \in 0..Len(olds)
    BY <1>3, SMT
  <2>. QED BY <1>4, <1>5, <2>1, SubSeqPart
<1>. HIDE DEF news1, olds1, change
<1>9. Len(news1) = Len(ids) - n /\ Len(olds1) = Len(olds) - n
  BY <1>8 DEF Part
<1>10. Cardinality(U) \in Nat /\ (Cardinality(U) = 0 => U = {})
  BY FS_CardinalityType, FS_EmptySet
<1>11. r \in Seq(S) /\ Joined(r, v, ids)
  <2>1. S \cup S = S
    OBVIOUS
  <2>. QED BY <2>1, ConcatAt
<1>. HIDE DEF r
<1>12. /\ Len(r) = Len(v) + Len(ids)
       /\ \A i \in 1..Len(v) : r[i] = v[i]
       /\ \A i \in 1..Len(ids) : r[Len(v) + i] = ids[i]
  BY <1>11 DEF Joined
<1>13. \A i \in 1..(Len(v) + n) : i \in 1..Len(chain) /\ r[i] = chain[i]
  <2>. SUFFICES ASSUME NEW i \in 1..(Len(v) + n) PROVE i \in 1..Len(chain) /\ r[i] = chain[i]
    OBVIOUS
  <2>1. CASE i \in 1..Len(v)
    BY <1>3, <1>5, <1>12, <2>1
  <2>2. CASE i \notin 1..Len(v)
    <3>1. i - Len(v) \in 1..n /\ i - Len(v) \in 1..Len(ids) /\ Len(v) + (i - Len(v)) = i
      BY <1>3, <1>4, <2>2, SMT
    <3>2. PICK j \in 1..n : j \in 1..Len(ids) /\ Len(v) + j = i
      BY <3>1
    <3>3. r[i] = ids[j] /\ ids[j] = olds[j] /\ olds[j] = chain[i] /\ i \in 1..Len(chain)
      BY <1>3, <1>4, <1>5, <1>12, <3>2
    <3>. QED BY <3>3
  <2>. QED BY <2>1, <2>2
<1>14. CASE Len(news1) + Cardinality(U) = 1
  <2>1. Len(ids) = n + 1 /\ Cardinality(U) = 0
    BY <1>3, <1>4, <1>7, <1>9, <1>10, <1>14, SMT
  <2>2. \A i \in 1..Len(olds) : \E j \in 1..Len(ids) : ids[j] = olds[i]
    BY <1>10, <2>1
  <2>3. Len(olds) = n
    <3>0. Len(olds) \in Nat /\ n \in 0..Len(olds)
      BY <1>3, <1>4
    <3>1. SUFFICES ASSUME n < Len(olds) PROVE FALSE
      BY <3>0, SMT
    <3>2. n + 1 \in 1..Len(olds)
      BY <1>3, <1>4, <3>1, SMT
    <3>3. PICK j \in 1..Len(ids) : ids[j] = olds[n + 1]
      BY <2>2, <3>2
    <3>4. j # n + 1
      BY <1>6, <2>1, <3>2, <3>3
    <3>5. j \in 1..n
      BY <1>4, <2>1, <3>4, SMT
    <3>6. chain[Len(v) + j] = chain[Len(v) + (n + 1)] /\ Len(v) + j \in 1..Len(chain) /\ Len(v) + (n + 1) \in 1..Len(chain)
      BY <1>3, <1>4, <1>5, <3>2, <3>3, <3>5
    <3>7. Len(v) + j = Len(v) + (n + 1)
      BY <3>6
    <3>. QED BY <1>3, <1>4, <3>4, <3>7, SMT
  <2>4. Len(chain) = Len(v) + n /\ Len(r) = Len(chain) + 1
    BY <1>3, <1>4, <1>12, <2>1, <2>3, SMT
  <2>5. r[Len(chain) + 1] = b
    <3>1. Len(v) + Len(ids) = Len(chain) + 1
      BY <1>12, <2>4
    <3>. QED BY <1>5, <1>12, <3>1
  <2>. DEFINE q == Append(chain, b)
  <2>6. b \in S
    BY <1>5, SMT
  <2>7. q \in Seq(S) /\ Appended(q, chain, b)
    BY <2>6, AppendAt
  <2>. HIDE DEF q
  <2>8. Len(q) = Len(chain) + 1 /\ q[Len(chain) + 1] = b /\ (\A i \in 1..Len(chain) : q[i] = chain[i])
        /\ \A i \in 1..Len(q) : i \in 1..Len(chain) \/ i = Len(chain) + 1
    BY <2>7 DEF Appended
  <2>9. \A i \in 1..Len(q) : q[i] = r[i]
    BY <1>13, <2>4, <2>5, <2>8
  <2>10. q = r
    <3>1. q \in Seq(S) /\ r \in Seq(S) /\ Len(q) = Len(r)
      BY <1>11, <2>4, <2>7, <2>8
    <3>. QED BY <2>9, <3>1, SeqSame
  <2>. QED BY <1>1, <1>14, <2>10 DEF connectDagChain, q, r, change
<1>15. CASE Len(news1) + Cardinality(U) # 1
  <2>. DEFINE z == Len(chain) - Len(olds1)
              p == SubSeq(chain, 1, z)
              q == p \o news1
  <2>1. z = Len(v) + n /\ z \in 0..Len(chain) /\ 0 \in 0..z /\ 0 + 1 = 1
    BY <1>3, <1>4, <1>9, SMT
  <2>. HIDE DEF z
  <2>2. p \in Seq(S) /\ Part(p, chain, 0, z)
    <3>1. SubSeq(chain, 0 + 1, z) \in Seq(S) /\ Part(SubSeq(chain, 0 + 1, z), chain, 0, z)
      BY <2>1, SubSeqPart
    <3>. QED BY <2>1, <3>1
  <2>. HIDE DEF p
  <2>3. Len(p) = z /\ \A i \in 1..z : p[i] = chain[i]
    <3>1. z - 0 = z /\ \A i \in 1..z : 0 + i = i
      BY <1>3, <2>1, SMT
    <3>. QED BY <2>2, <3>1 DEF Part
  <2>4. q \in Seq(S) /\ Joined(q, p, news1)
    <3>1. S \cup S = S
      OBVIOUS
    <3>. QED BY <1>8, <2>2, <3>1, ConcatAt
  <2>. HIDE DEF q
  <2>5. /\ Len(q) = z + (Len(ids) - n)
        /\ \A i \in 1..z : q[i] = chain[i]
        /\ \A i \in 1..(Len(ids) - n) : q[z + i] = news1[i]
        /\ \A i \in 1..Len(q) : i \in 1..z \/ \E j \in 1..(Len(ids) - n) : i = z + j
    BY <1>9, <2>3, <2>4 DEF Joined
  <2>6. Len(q) = Len(r)
    BY <1>3, <1>4, <1>12, <2>1, <2>5, SMT
  <2>7. ASSUME NEW j \in 1..(Len(ids) - n) PROVE q[z + j] = r[z + j]
    <3>1. news1[j] = ids[n + j]
      BY <1>8 DEF Part
    <3>2. n + j \in 1..Len(ids) /\ Len(v) + (n + j) = z + j
      BY <1>3, <1>4, <2>1, SMT
    <3>3. r[z + j] = ids[n + j]
      BY <1>12, <3>2
    <3>. QED BY <2>5, <3>1, <3>3
  <2>8. \A i \in 1..z : q[i] = r[i]
    BY <1>13, <2>1, <2>5
  <2>9. \A i \in 1..Len(q) : q[i] = r[i]
    <3>. SUFFICES ASSUME NEW i \in 1..Len(q) PROVE q[i] = r[i]
      OBVIOUS
    <3>1. i \in 1..z \/ \E j \in 1..(Len(ids) - n) : i = z + j
      BY <2>5
    <3>. QED BY <2>7, <2>8, <3>1
  <2>10. q = r
    BY <1>11, <2>4, <2>6, <2>9, SeqSame
  <2>. QED BY <1>1, <1>15, <2>10 DEF connectDagChain, q, p, z, r, change
<1>. QED BY <1>14, <1>15

=============================================================================
