--------------------------- MODULE TrunkPoolProofs ---------------------------
(***************************************************************************)
(* What TrunkPool guarantees for any number of trunks, users and cameras   *)
(* and any lease: the trunks agree with the switches sent to the matrix,   *)
(* no camera occupies two trunks, and leases are honoured.                 *)
(***************************************************************************)
EXTENDS TrunkPool, TrunksProofs

-----------------------------------------------------------------------------
(***************************************************************************)
(* The invariant.  The three safety invariants of TrunkPool are inductive  *)
(* together: which trunk checkTrunk returns depends on the cids being      *)
(* unique and on an idle trunk having none, and that a preemption changes  *)
(* what the trunk shows depends on the trunk showing its cid.              *)
(***************************************************************************)
PoolInv ==
    /\ TypeOK
    /\ TrunkCarriesItsCamera
    /\ OneTrunkPerCamera
    /\ LeaseHonoured

\* No camera has the null id.
LEMMA CamerasAreIds ==
    ASSUME NEW c \in LocalCamera \cup OtherCamera
    PROVE  c \in GlobalIds /\ c # NullID
BY CameraAssumption DEF GlobalIds, NullID

\* Updating the users of all trunks preserves the invariant's parts.
LEMMA UpdatedFacts ==
    ASSUME PoolInv
    PROVE  /\ Updated \in [TrunkIndex -> TrunkStates]
           /\ \A i \in TrunkIndex :
                 /\ Updated[i].users \subseteq trunks[i].users
                 /\ Updated[i].ttl = trunks[i].ttl
                 /\ \A u \in trunks[i].users :
                       ~IsExpired(trunks[i].ttl[u]) => u \in Updated[i].users
                 /\ Updated[i].users = {} <=> Updated[i].cid = NullID
                 /\ Updated[i].cid # NullID => Updated[i].cid = trunks[i].cid
<1>1. \A i \in TrunkIndex : trunks[i] \in TrunkStates
  BY DEF PoolInv, TypeOK
<1>2. \A i \in TrunkIndex : Updated[i] = UpdateUsers(trunks[i])
  BY DEF Updated
<1>3. ASSUME NEW i \in TrunkIndex
      PROVE  /\ Updated[i] \in TrunkStates
             /\ Updated[i].users \subseteq trunks[i].users
             /\ Updated[i].ttl = trunks[i].ttl
             /\ \A u \in trunks[i].users :
                   ~IsExpired(trunks[i].ttl[u]) => u \in Updated[i].users
             /\ Updated[i].users = {} <=> Updated[i].cid = NullID
             /\ Updated[i].cid # NullID => Updated[i].cid = trunks[i].cid
  <2>1. trunks[i].users = {} <=> trunks[i].cid = NullID
    BY DEF PoolInv, TrunkCarriesItsCamera
  <2> QED
    BY <1>1, <1>2, <2>1, UpdateUsersFacts
<1> QED
  BY <1>3 DEF Updated

\* A request that is not granted only updates the users.
LEMMA UpdateStep ==
    ASSUME PoolInv, trunks' = Updated, UNCHANGED <<shown, want, taker>>
    PROVE  PoolInv'
<1>1. TypeOK'
  BY UpdatedFacts DEF PoolInv, TypeOK
<1>2. TrunkCarriesItsCamera' /\ OneTrunkPerCamera'
  BY UpdatedFacts DEF PoolInv, TrunkCarriesItsCamera, OneTrunkPerCamera
<1>3. LeaseHonoured'
  BY UpdatedFacts DEF PoolInv, LeaseHonoured
<1> QED
  BY <1>1, <1>2, <1>3 DEF PoolInv

\* A granted request: the trunk either shows the camera already, or nobody
\* with an id up to the requester's is among its users.
LEMMA GrantStep ==
    ASSUME PoolInv, NEW u \in TrunkUser, NEW c \in LocalCamera, Grant(u, c)
    PROVE  PoolInv'
<1> DEFINE i == CheckTrunk(Updated, u, c)
           ts == Updated
<1>1. /\ ts \in [TrunkIndex -> TrunkStates]
      /\ \A k \in TrunkIndex :
            /\ ts[k].users \subseteq trunks[k].users
            /\ ts[k].ttl = trunks[k].ttl
            /\ ts[k].users = {} <=> ts[k].cid = NullID
            /\ ts[k].cid # NullID => ts[k].cid = trunks[k].cid
  BY UpdatedFacts
<1>2. c \in GlobalIds /\ c # NullID /\ u \in GlobalIds
  BY CamerasAreIds, TrunkAssumption DEF GlobalIds
<1>3. /\ i \in TrunkIndex
      /\ \/ ts[i].cid = c
         \/ /\ \A j \in TrunkIndex : ts[j].cid # c
            /\ \A v \in ts[i].users : Lt(u, v)
  BY <1>1, <1>2, CheckTrunkSound DEF Grant
<1>4. /\ trunks' = [ts EXCEPT ![i] = Push(ts[i], u, c)]
      /\ shown' = [shown EXCEPT ![i] = c]
      /\ want' = [want EXCEPT ![i][u] = c]
      /\ taker' = [taker EXCEPT ![i] = IF shown[i] = c THEN taker[i] ELSE u]
  BY DEF Grant
<1> HIDE DEF i, ts
<1>5. /\ Push(ts[i], u, c) \in TrunkStates
      /\ Push(ts[i], u, c).users = ts[i].users \cup {u}
      /\ Push(ts[i], u, c).cid = c
      /\ \A v \in TrunkUser : v # u => Push(ts[i], u, c).ttl[v] = ts[i].ttl[v]
  <2>1. ts[i] \in TrunkStates
    BY <1>1, <1>3
  <2> QED
    BY <2>1, <1>2, PushFacts
<1>6. /\ trunks'[i] = Push(ts[i], u, c)
      /\ \A k \in TrunkIndex : k # i => trunks'[k] = ts[k]
      /\ trunks' \in [TrunkIndex -> TrunkStates]
  BY <1>1, <1>3, <1>4, <1>5
<1>7. TypeOK'
  BY <1>2, <1>3, <1>4, <1>6 DEF PoolInv, TypeOK
<1>8. /\ shown'[i] = c
      /\ \A k \in TrunkIndex : k # i => /\ shown'[k] = shown[k]
                                        /\ want'[k] = want[k]
                                        /\ taker'[k] = taker[k]
      /\ want'[i][u] = c
      /\ \A v \in TrunkUser : v # u => want'[i][v] = want[i][v]
      /\ taker'[i] = IF shown[i] = c THEN taker[i] ELSE u
  BY <1>3, <1>4 DEF PoolInv, TypeOK
<1>9. TrunkCarriesItsCamera'
  <2>1. ASSUME NEW k \in TrunkIndex
        PROVE  /\ trunks'[k].users = {} <=> trunks'[k].cid = NullID
               /\ trunks'[k].cid # NullID => shown'[k] = trunks'[k].cid
    <3>1. CASE k = i
      BY <3>1, <1>2, <1>5, <1>6, <1>8
    <3>2. CASE k # i
      BY <3>2, <1>1, <1>6, <1>8 DEF PoolInv, TrunkCarriesItsCamera
    <3> QED BY <3>1, <3>2
  <2> QED BY <2>1 DEF TrunkCarriesItsCamera
<1>10. OneTrunkPerCamera'
  <2>1. \A k \in TrunkIndex : ts[k].cid = c => k = i
    BY <1>1, <1>2, <1>3 DEF PoolInv, OneTrunkPerCamera
  <2>2. ASSUME NEW k \in TrunkIndex, NEW j \in TrunkIndex,
               trunks'[k].cid = trunks'[j].cid, k # j
        PROVE  trunks'[k].cid = NullID
    <3>1. CASE k = i \/ j = i
      BY <3>1, <2>1, <2>2, <1>5, <1>6
    <3>2. CASE k # i /\ j # i
      BY <3>2, <2>2, <1>1, <1>6 DEF PoolInv, OneTrunkPerCamera
    <3> QED BY <3>1, <3>2
  <2> QED BY <2>2 DEF OneTrunkPerCamera
<1>11. LeaseHonoured'
  <2>1. ASSUME NEW k \in TrunkIndex, NEW v \in trunks'[k].users,
               ~IsExpired(trunks'[k].ttl[v])
        PROVE  want'[k][v] = shown'[k] \/ Lt(taker'[k], v)
    <3>1. CASE k # i
      BY <3>1, <2>1, <1>1, <1>6, <1>8 DEF PoolInv, LeaseHonoured
    <3>2. CASE k = i /\ v = u
      BY <3>2, <1>8
    <3>3. CASE k = i /\ v # u
      <4>1. /\ v \in ts[i].users /\ v \in trunks[i].users /\ v \in TrunkUser
            /\ ~IsExpired(trunks[i].ttl[v])
        BY <3>3, <2>1, <1>1, <1>3, <1>5, <1>6 DEF TrunkStates
      <4>2. want[i][v] = shown[i] \/ Lt(taker[i], v)
        BY <4>1, <1>3 DEF PoolInv, LeaseHonoured
      <4>3. ts[i].cid = c => shown[i] = c
        BY <1>1, <1>2, <1>3 DEF PoolInv, TrunkCarriesItsCamera
      <4>4. shown[i] # c => Lt(u, v)
        BY <4>1, <4>3, <1>3
      <4> QED BY <3>3, <4>1, <4>2, <4>4, <1>8
    <3> QED BY <3>1, <3>2, <3>3
  <2> QED BY <2>1 DEF LeaseHonoured
<1> QED
  BY <1>7, <1>9, <1>10, <1>11 DEF PoolInv

\* The clock only shortens leases.
LEMMA TickStep ==
    ASSUME PoolInv, Tick
    PROVE  PoolInv'
<1>1. ASSUME NEW i \in TrunkIndex
      PROVE  /\ trunks'[i] \in TrunkStates
             /\ trunks'[i].users = trunks[i].users
             /\ trunks'[i].cid = trunks[i].cid
             /\ \A u \in trunks[i].users :
                   ~IsExpired(trunks'[i].ttl[u]) => ~IsExpired(trunks[i].ttl[u])
  <2>1. trunks[i] \in TrunkStates /\ trunks'[i] = AgedTrunk(trunks[i])
    BY DEF PoolInv, TypeOK, Tick
  <2> QED
    BY <2>1 DEF AgedTrunk, TrunkStates, Aged, IsExpired
<1>2. TypeOK'
  BY <1>1 DEF PoolInv, TypeOK, Tick
<1>3. TrunkCarriesItsCamera' /\ OneTrunkPerCamera'
  BY <1>1 DEF PoolInv, TrunkCarriesItsCamera, OneTrunkPerCamera, Tick
<1>4. LeaseHonoured'
  BY <1>1 DEF PoolInv, LeaseHonoured, Tick
<1> QED
  BY <1>2, <1>3, <1>4 DEF PoolInv
-----------------------------------------------------------------------------
\* The trunks' safety: at every moment the trunk table is well formed, a
\* trunk in use carries its camera, no camera occupies two trunks, and a user
\* within its lease sees its camera unless a smaller id took the trunk.
THEOREM PoolInvariant == Spec => []PoolInv
<1>1. Init => PoolInv
  <2> SUFFICES ASSUME Init PROVE PoolInv
    OBVIOUS
  <2>1. NullID \in GlobalIds /\ IdleTrunk \in TrunkStates
    BY DEF NullID, GlobalIds, IdleTrunk, TrunkStates
  <2>2. \A i \in TrunkIndex : trunks[i].users = {} /\ trunks[i].cid = NullID
    BY DEF Init, IdleTrunk
  <2>3. TypeOK
    BY <2>1 DEF Init, TypeOK
  <2> QED
    BY <2>2, <2>3
       DEF PoolInv, TrunkCarriesItsCamera, OneTrunkPerCamera, LeaseHonoured
<1>2. PoolInv /\ [Next]_vars => PoolInv'
  <2> SUFFICES ASSUME PoolInv, [Next]_vars PROVE PoolInv'
    OBVIOUS
  <2>1. CASE Tick
    BY <2>1, TickStep
  <2>2. ASSUME NEW u \in TrunkUser, NEW c \in LocalCamera \cup OtherCamera, Request(u, c)
        PROVE  PoolInv'
    <3>1. CASE Grant(u, c)
      <4>1. c \in LocalCamera
        BY <3>1 DEF Grant
      <4> QED BY <3>1, <4>1, GrantStep
    <3>2. CASE Pass(u, c) \/ Busy(u, c)
      BY <3>2, UpdateStep DEF Pass, Busy
    <3> QED BY <2>2, <3>1, <3>2 DEF Request
  <2>3. CASE UNCHANGED vars
    BY <2>3 DEF vars, PoolInv, TypeOK, TrunkCarriesItsCamera, OneTrunkPerCamera,
                LeaseHonoured
  <2> QED
    BY <2>1, <2>2, <2>3 DEF Next
<1> QED
  BY <1>1, <1>2, PTL DEF Spec

\* The trunk table is always well formed: whatever is requested, whatever
\* expires, mTrunks holds ids and users of the right kind.
THEOREM PoolTypeCorrect == Spec => []TypeOK
BY PoolInvariant, PTL DEF PoolInv

\* A trunk in use shows the camera its cid names, and is free exactly when it
\* has no cid.
THEOREM TrunkCarriesItsCameraHolds == Spec => []TrunkCarriesItsCamera
BY PoolInvariant, PTL DEF PoolInv

\* checkTrunk never spends two trunks on one camera.
THEOREM OneTrunkPerCameraHolds == Spec => []OneTrunkPerCamera
BY PoolInvariant, PTL DEF PoolInv

\* Within its lease a user loses its picture to a smaller id only.
THEOREM LeaseHonouredHolds == Spec => []LeaseHonoured
BY PoolInvariant, PTL DEF PoolInv

\* No step of a request or of the clock drops a user within its lease from a
\* trunk's queue.
THEOREM LeaseKeptHolds == Spec => LeaseKept
<1> DEFINE Kept == \A i \in TrunkIndex : \A u \in trunks[i].users :
                      ~IsExpired(trunks[i].ttl[u]) => u \in trunks'[i].users
<1>1. PoolInv /\ [Next]_vars => [Kept]_vars
  <2> SUFFICES ASSUME PoolInv, [Next]_vars PROVE Kept \/ UNCHANGED vars
    OBVIOUS
  <2>1. CASE Tick
    BY <2>1 DEF Tick, AgedTrunk, PoolInv, TypeOK, TrunkStates
  <2>2. ASSUME NEW u \in TrunkUser, NEW c \in LocalCamera \cup OtherCamera, Request(u, c)
        PROVE  Kept
    <3>1. CASE Grant(u, c)
      <4> DEFINE k == CheckTrunk(Updated, u, c)
      <4>1. trunks' = [Updated EXCEPT ![k] = Push(Updated[k], u, c)]
        BY <3>1 DEF Grant
      <4>2. \A i \in TrunkIndex : Updated[i].users \subseteq trunks'[i].users
        <5> HIDE DEF k
        <5> QED BY <4>1, UpdatedFacts DEF Push, TrunkStates
      <4> QED BY <4>2, UpdatedFacts
    <3>2. CASE Pass(u, c) \/ Busy(u, c)
      BY <3>2, UpdatedFacts DEF Pass, Busy
    <3> QED BY <2>2, <3>1, <3>2 DEF Request
  <2> QED
    BY <2>1, <2>2 DEF Next
<1> QED
  BY <1>1, PoolInvariant, PTL DEF Spec, LeaseKept
=============================================================================
