----------------------------- MODULE TrunksProofs -----------------------------
(***************************************************************************)
(* What the operators of Trunks return, for any number of trunks and       *)
(* users: the lemmas that the proofs about TrunkPool and MatrixNetwork     *)
(* share.                                                                  *)
(***************************************************************************)
EXTENDS Trunks, WellFoundedInduction, TLAPS

-----------------------------------------------------------------------------
(***************************************************************************)
(* Least and greatest elements.                                            *)
(***************************************************************************)

\* A nonempty set of naturals has a least element.
LEMMA LeastNat ==
    ASSUME NEW S \in SUBSET Nat, S # {}
    PROVE  \E x \in S : \A y \in S : x <= y
<1> DEFINE R == {ss \in Nat \X Nat : ss[1] < ss[2]}
<1>1. R = OpToRel(<, Nat)
  BY Zenon DEF OpToRel
<1>2. IsWellFoundedOn(R, Nat)
  BY <1>1, NatLessThanWellFounded, Zenon
<1>3. \E x \in S : \A y \in S : ~(<<y, x>> \in R)
  <2> HIDE DEF R
  <2> QED BY <1>2, WFMin
<1>4. \A a, b \in Nat : a < b => <<a, b>> \in R
  OBVIOUS
<1>5. PICK x \in S : \A y \in S : ~(<<y, x>> \in R)
  BY <1>3
<1> HIDE DEF R
<1>6. \A y \in S : ~(y < x)
  BY <1>4, <1>5
<1>7. ASSUME NEW y \in S PROVE x <= y
  <2>1. x \in Nat /\ y \in Nat
    OBVIOUS
  <2> QED BY <1>6, <2>1
<1> QED
  BY <1>7

\* A nonempty set of ids over the naturals has a least one.
LEMMA LeastId ==
    ASSUME NEW S \in SUBSET (Nat \X Nat), S # {}
    PROVE  \E x \in S : \A y \in S : Le(x, y)
<1> DEFINE M == {x[1] : x \in S}
<1>1. M \in SUBSET Nat /\ M # {}
  OBVIOUS
<1>2. PICK m \in M : \A n \in M : m <= n
  BY <1>1, LeastNat
<1> DEFINE L == {x[2] : x \in {y \in S : y[1] = m}}
<1>3. L \in SUBSET Nat /\ L # {}
  OBVIOUS
<1>4. PICK l \in L : \A n \in L : l <= n
  BY <1>3, LeastNat
<1>5. PICK x \in S : x[1] = m /\ x[2] = l
  OBVIOUS
<1>6. ASSUME NEW y \in S PROVE Le(x, y)
  <2>1. y[1] \in M /\ (y[1] = m => y[2] \in L)
    OBVIOUS
  <2>2. m <= y[1] /\ (y[1] = m => l <= y[2])
    BY <2>1, <1>2, <1>4
  <2> QED
    BY <2>2, <1>5, <1>1 DEF Le, Gt
<1> QED
  BY <1>6

\* The order of ids is total and transitive.
LEMMA IdOrder ==
    /\ \A a, b \in GlobalIds : Le(a, b) \/ Le(b, a)
    /\ \A a, b, c \in GlobalIds : Le(a, b) /\ Le(b, c) => Le(a, c)
    /\ \A a, b, c \in GlobalIds : Le(a, b) /\ Gt(a, c) => Lt(c, b)
BY DEF GlobalIds, Le, Gt, Lt

\* mUsers.top() is a user of the trunk and no user of the trunk precedes it.
LEMMA TopIsLeast ==
    ASSUME NEW tr \in TrunkStates, tr.users # {}
    PROVE  Top(tr) \in tr.users /\ \A v \in tr.users : Le(Top(tr), v)
<1>1. tr.users \in SUBSET (Nat \X Nat)
  BY TrunkAssumption DEF TrunkStates
<1> QED
  BY <1>1, LeastId DEF Top

\* First picks a member.
LEMMA FirstIn ==
    ASSUME NEW S \in SUBSET TrunkIndex, S # {}
    PROVE  First(S) \in S
<1>1. S \in SUBSET Nat
  BY TrunkAssumption DEF TrunkIndex
<1> QED
  BY <1>1, LeastNat DEF First

\* Among finitely many ids there is a greatest one: the smallest n for which
\* the first n have none would contradict the totality of the order.
LEMMA GreatestTop ==
    ASSUME NEW f \in [TrunkIndex -> GlobalIds]
    PROVE  \E i \in TrunkIndex : \A j \in TrunkIndex : Le(f[j], f[i])
<1> USE TrunkAssumption DEF TrunkIndex
<1> DEFINE Has(n) == \E i \in 1..n : \A j \in 1..n : Le(f[j], f[i])
           Bad == {n \in 1..NTrunks : ~Has(n)}
<1>1. SUFFICES ASSUME Bad # {} PROVE FALSE
  <2>1. NTrunks \notin Bad => Has(NTrunks)
    OBVIOUS
  <2> QED
    BY <1>1, <2>1
<1>2. PICK n \in Bad : \A k \in Bad : n <= k
  <2>1. Bad \in SUBSET Nat
    OBVIOUS
  <2> HIDE DEF Bad
  <2> QED
    BY <1>1, <2>1, LeastNat
<1>3. Le(f[1], f[1])
  BY IdOrder
<1>4. n # 1
  BY <1>2, <1>3
<1>5. n - 1 \in 1..NTrunks /\ n - 1 \notin Bad
  <2>1. n \in 1..NTrunks /\ n - 1 \in 1..NTrunks
    BY <1>4
  <2>2. ~(n <= n - 1)
    BY <2>1
  <2> HIDE DEF Bad
  <2> QED
    BY <1>2, <2>1, <2>2
<1>6. PICK i \in 1..(n-1) : \A j \in 1..(n-1) : Le(f[j], f[i])
  BY <1>5
<1>7. CASE Le(f[n], f[i])
  <2>1. \A j \in 1..n : Le(f[j], f[i])
    BY <1>6, <1>7
  <2> QED
    BY <1>2, <2>1
<1>8. CASE Le(f[i], f[n])
  <2>1. \A j \in 1..n : Le(f[j], f[n])
    BY <1>6, <1>8, IdOrder
  <2> QED
    BY <1>2, <2>1
<1> QED
  BY <1>7, <1>8, IdOrder
-----------------------------------------------------------------------------
(***************************************************************************)
(* checkTrunk.                                                             *)
(***************************************************************************)

\* checkTrunk returns a trunk that carries the camera already or, when no
\* trunk does, one without users or one all of whose users have greater ids
\* than the requester.
LEMMA CheckTrunkSound ==
    ASSUME NEW ts \in [TrunkIndex -> TrunkStates], NEW u \in TrunkUser,
           NEW c \in GlobalIds, CheckTrunk(ts, u, c) # NoTrunk
    PROVE  LET i == CheckTrunk(ts, u, c)
           IN  /\ i \in TrunkIndex
               /\ \/ ts[i].cid = c
                  \/ /\ \A j \in TrunkIndex : ts[j].cid # c
                     /\ \A v \in ts[i].users : Lt(u, v)
<1> DEFINE i == CheckTrunk(ts, u, c)
<1>1. CASE Reusable(ts, c) # {}
  <2>1. i \in Reusable(ts, c)
    BY <1>1, FirstIn DEF CheckTrunk, Reusable
  <2> QED
    BY <2>1 DEF Reusable
<1>2. CASE Reusable(ts, c) = {} /\ Free(ts) # {}
  <2>1. i \in Free(ts)
    BY <1>2, FirstIn DEF CheckTrunk, Free
  <2> QED
    BY <1>2, <2>1 DEF Free, Reusable
<1>3. CASE Reusable(ts, c) = {} /\ Free(ts) = {}
  <2>1. i = MinTrunk(ts) /\ Gt(Top(ts[i]), u)
    BY <1>3 DEF CheckTrunk
  <2>2. \A j \in TrunkIndex : ts[j].users # {}
    BY <1>3 DEF Free
  <2>3. \A j \in TrunkIndex :
          Top(ts[j]) \in ts[j].users /\ \A v \in ts[j].users : Le(Top(ts[j]), v)
    BY <2>2, TopIsLeast
  <2>4. \A j \in TrunkIndex : ts[j].users \subseteq GlobalIds
    BY TrunkAssumption DEF TrunkStates, GlobalIds
  <2> DEFINE f == [j \in TrunkIndex |-> Top(ts[j])]
             M == {k \in TrunkIndex : \A j \in TrunkIndex : Le(Top(ts[j]), Top(ts[k]))}
  <2>5. f \in [TrunkIndex -> GlobalIds]
    BY <2>3, <2>4
  <2>6. \E k \in TrunkIndex : \A j \in TrunkIndex : Le(f[j], f[k])
    <3> HIDE DEF f
    <3> QED BY <2>5, GreatestTop
  <2>7. M # {} /\ M \in SUBSET TrunkIndex
    BY <2>6
  <2>8. i \in M
    <3> HIDE DEF M
    <3>1. First(M) \in M
      BY <2>7, FirstIn
    <3>2. MinTrunk(ts) = First(M)
      BY DEF MinTrunk, M
    <3> QED BY <2>1, <3>1, <3>2
  <2>9. u \in GlobalIds
    BY TrunkAssumption DEF GlobalIds
  <2>10. \A v \in ts[i].users : Lt(u, v)
    <3>1. i \in TrunkIndex
      BY <2>8
    <3> HIDE DEF i, M, f
    <3> QED BY <2>1, <2>3, <2>4, <2>9, <3>1, IdOrder
  <2> QED
    BY <1>3, <2>8, <2>10 DEF Reusable
<1> QED
  BY <1>1, <1>2, <1>3
-----------------------------------------------------------------------------
(***************************************************************************)
(* The queue of a trunk.                                                   *)
(***************************************************************************)

\* updateUsers only shortens the queue: leases and type are untouched, a user
\* within its lease stays, and the camera goes exactly when nobody is left.
LEMMA UpdateUsersFacts ==
    ASSUME NEW tr \in TrunkStates
    PROVE  LET up == UpdateUsers(tr)
           IN  /\ up \in TrunkStates
               /\ up.users \subseteq tr.users
               /\ up.ttl = tr.ttl
               /\ \A u \in tr.users : ~IsExpired(tr.ttl[u]) => u \in up.users
               /\ up.users = {} => up.cid = NullID
               /\ up.users # {} => up.cid = tr.cid
<1>1. NullID \in GlobalIds
  BY DEF NullID, GlobalIds
<1>2. \A u \in tr.users : Le(u, u)
  BY TrunkAssumption DEF TrunkStates, Le, Gt
<1> DEFINE left == {u \in tr.users : \E v \in tr.users : Le(v, u) /\ ~IsExpired(tr.ttl[v])}
<1>3. UpdateUsers(tr) = [tr EXCEPT !.users = left,
                                   !.cid = IF left = {} THEN NullID ELSE tr.cid]
  BY DEF UpdateUsers
<1>4. left \subseteq tr.users /\ \A u \in tr.users : ~IsExpired(tr.ttl[u]) => u \in left
  BY <1>2
<1> HIDE DEF left
<1> QED
  BY <1>1, <1>3, <1>4 DEF TrunkStates

\* Pushing a user changes its own lease only.
LEMMA PushFacts ==
    ASSUME NEW tr \in TrunkStates, NEW u \in TrunkUser, NEW c \in GlobalIds
    PROVE  /\ Push(tr, u, c) \in TrunkStates
           /\ Push(tr, u, c).users = tr.users \cup {u}
           /\ Push(tr, u, c).cid = c
           /\ \A v \in TrunkUser : v # u => Push(tr, u, c).ttl[v] = tr.ttl[v]
<1> DEFINE t == [tr.ttl EXCEPT ![u] = UpdatedExpire]
<1>1. Push(tr, u, c) = [tr EXCEPT !.users = tr.users \cup {u}, !.ttl = t, !.cid = c]
  BY DEF Push
<1>2. tr.ttl \in [TrunkUser -> Int] /\ tr.users \in SUBSET TrunkUser
  BY DEF TrunkStates
<1>3. /\ t \in [TrunkUser -> Int]
      /\ \A v \in TrunkUser : v # u => t[v] = tr.ttl[v]
  BY <1>2, ExpireAssumption DEF UpdatedExpire
<1> HIDE DEF t
<1> QED
  BY <1>1, <1>2, <1>3 DEF TrunkStates

\* The clock only shortens leases.
LEMMA AgedTrunkFacts ==
    ASSUME NEW tr \in TrunkStates
    PROVE  /\ AgedTrunk(tr) \in TrunkStates
           /\ AgedTrunk(tr).users = tr.users /\ AgedTrunk(tr).cid = tr.cid
<1> DEFINE t == [u \in TrunkUser |-> Aged(tr.ttl[u])]
<1>1. t \in [TrunkUser -> Int]
  BY DEF TrunkStates, Aged, IsExpired
<1>2. AgedTrunk(tr) = [tr EXCEPT !.ttl = t]
  BY DEF AgedTrunk
<1> HIDE DEF t
<1> QED
  BY <1>1, <1>2 DEF TrunkStates
=============================================================================
