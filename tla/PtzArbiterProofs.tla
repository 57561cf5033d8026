-------------------------- MODULE PtzArbiterProofs --------------------------
(***************************************************************************)
(* What PtzArbiter guarantees for every set of operators, every lease and  *)
(* every number of calls: type correctness always, and the ownership       *)
(* properties when one thread only calls processLocalPtz.                  *)
(***************************************************************************)
EXTENDS PtzArbiter, TLAPS

\* The id a thread works for is always a pair of integers.
LEMMA RequestUser ==
    ASSUME TypeOK, NEW t \in Thread
    PROVE  req[t].user \in GlobalIds /\ req[t].code \in LockCode
<1>1. AllUsers \subseteq Nat \X Nat
  BY ThreadAssumption DEF AllUsers
<1>2. CASE req[t] \in Requests
  BY <1>1, <1>2 DEF Requests, GlobalIds
<1>3. CASE req[t] = NoRequest
  BY <1>3 DEF NoRequest, NullID, GlobalIds, LockCode
<1> QED
  BY <1>2, <1>3 DEF TypeOK

\* The decision is one of four writes, whatever the camera and the request.
LEMMA DecisionWrites ==
    ASSUME NEW c, NEW u, NEW code
    PROVE  Decision(c, u, code).write \in {"none", "acquire", "lock", "unlock"}
BY DEF Decision, WhenLocked, WhenFree, Accept, Reject

\* Type correctness of the arbiter: every step of processLocalPtz, of every
\* thread and in any interleaving, leaves the camera and the threads well
\* formed (the two-step copy of the id included).
THEOREM TypeCorrect == Spec => []TypeOK
<1>1. Init => TypeOK
  <2> SUFFICES ASSUME Init PROVE TypeOK
    OBVIOUS
  <2>1. NullID \in GlobalIds
    BY DEF NullID, GlobalIds
  <2>2. cam \in Cameras
    BY <2>1, ThreadAssumption DEF Init, Cameras
  <2> QED
    BY <2>1, <2>2 DEF Init, TypeOK, PcValues
<1>2. TypeOK /\ [Next]_vars => TypeOK'
  <2> SUFFICES ASSUME TypeOK, [Next]_vars PROVE TypeOK'
    OBVIOUS
  <2> USE DEF TypeOK
  <2>1. ASSUME Tick PROVE TypeOK'
    BY <2>1 DEF Tick, Cameras, Aged, IsExpired
  <2>2. ASSUME NEW t \in Thread, UnlockExpired(t) PROVE TypeOK'
    BY <2>2 DEF UnlockExpired, Goto, UnlockPtz, ReleasePtz, Cameras, PcValues
  <2>3. ASSUME NEW t \in Thread, Decide(t) PROVE TypeOK'
    BY <2>3, DecisionWrites DEF Decide, Goto, PcValues
  <2>4. ASSUME NEW t \in Thread, WriteMid(t) PROVE TypeOK'
    BY <2>4, RequestUser DEF WriteMid, Goto, Cameras, GlobalIds, PcValues
  <2>5. ASSUME NEW t \in Thread, WriteLid(t) PROVE TypeOK'
    BY <2>5, RequestUser DEF WriteLid, Goto, Cameras, GlobalIds, PcValues
  <2>6. ASSUME NEW t \in Thread, WriteExpire(t) PROVE TypeOK'
    BY <2>6, RequestUser, ExpireAssumption
       DEF WriteExpire, Goto, Cameras, UpdatedExpire, PcValues
  <2>7. ASSUME NEW t \in Thread, WriteFlag(t) PROVE TypeOK'
    BY <2>7 DEF WriteFlag, Goto, Cameras, PcValues
  <2>8. ASSUME NEW t \in Thread, NEW u \in AllUsers, NEW code \in LockCode,
               Call(t, u, code)
        PROVE TypeOK'
    BY <2>8 DEF Call, Goto, Requests, PcValues
  <2>9. CASE UNCHANGED vars
    BY <2>9 DEF vars
  <2> QED
    BY <2>1, <2>2, <2>3, <2>4, <2>5, <2>6, <2>7, <2>8, <2>9 DEF Next, Step
<1> QED
  BY <1>1, <1>2, PTL DEF Spec
-----------------------------------------------------------------------------
(***************************************************************************)
(* One thread.                                                             *)
(*                                                                         *)
(* OwnerIntact speaks of the moments between calls; to carry it through a  *)
(* call the invariant says, for each point of processLocalPtz, how much of *)
(* the new id the camera already holds (OwnerParts), that the right to     *)
(* take the head found by the decision still stands (RightStands) and what *)
(* the pending write of the lock flag is entitled to (FlagStands).         *)
(***************************************************************************)
SingleThread == \E k : Thread = {k}

OwnerParts(t) ==
    /\ pc[t] \in {"idle", "unlock", "decide", "mid", "flag"} => cam.user = served
    /\ pc[t] = "lid" => cam.user = <<req[t].user[1], served[2]>>
    /\ pc[t] = "expire" => cam.user = req[t].user

RightStands(t) ==
    pc[t] \in {"mid", "lid", "expire"} =>
        Le(served, req[t].user) \/ IsExpired(cam.ttl)

FlagStands(t) ==
    /\ pc[t] = "unlock" => IsExpired(cam.ttl)
    /\ pc[t] = "flag" /\ write[t] # "lock" =>
          /\ req[t].code = 2
          /\ Le(cam.user, req[t].user) \/ IsExpired(cam.ttl)

ArbiterInv == \A t \in Thread : OwnerParts(t) /\ RightStands(t) /\ FlagStands(t)

\* A decision that writes found the requester entitled to it.
LEMMA DecisionRight ==
    ASSUME NEW c, NEW u, NEW code
    PROVE  LET w == Decision(c, u, code).write
           IN  /\ w # "none" => MayOperate(c, u)
               /\ w = "unlock" => code = 2
BY DEF Decision, WhenLocked, WhenFree, Accept, Reject, MayOperate

\* ArbiterInv is inductive when one thread only calls processLocalPtz.
LEMMA ArbiterInvStep ==
    ASSUME SingleThread, TypeOK, ArbiterInv, [Next]_vars
    PROVE  ArbiterInv'
<1>0. PICK k : Thread = {k}
  BY DEF SingleThread
<1> USE <1>0 DEF ArbiterInv, OwnerParts, RightStands, FlagStands
<1>1. ASSUME Tick PROVE ArbiterInv'
  BY <1>1 DEF Tick, Aged, IsExpired, TypeOK, Cameras, Le, Gt
<1>2. ASSUME UnlockExpired(k) PROVE ArbiterInv'
  BY <1>2 DEF UnlockExpired, Goto, UnlockPtz, ReleasePtz, TypeOK, Cameras
<1>3. ASSUME Decide(k) PROVE ArbiterInv'
  BY <1>3, DecisionRight, DecisionWrites DEF Decide, Goto, TypeOK, MayOperate
<1>4. ASSUME WriteMid(k) PROVE ArbiterInv'
  BY <1>4 DEF WriteMid, Goto, TypeOK, Cameras, GlobalIds
<1>5. ASSUME WriteLid(k) PROVE ArbiterInv'
  BY <1>5, RequestUser DEF WriteLid, Goto, TypeOK, Cameras, GlobalIds
<1>6. ASSUME WriteExpire(k) PROVE ArbiterInv'
  BY <1>6 DEF WriteExpire, Goto, TypeOK, Cameras
<1>7. ASSUME WriteFlag(k) PROVE ArbiterInv'
  BY <1>7 DEF WriteFlag, Goto, TypeOK, Cameras
<1>8. ASSUME NEW u \in AllUsers, NEW code \in LockCode, Call(k, u, code)
      PROVE ArbiterInv'
  BY <1>8 DEF Call, Goto, TypeOK, LockRanOut
<1>9. CASE UNCHANGED vars
  BY <1>9 DEF vars, Le, Gt, IsExpired
<1> QED
  BY <1>1, <1>2, <1>3, <1>4, <1>5, <1>6, <1>7, <1>8, <1>9 DEF Next, Step

\* With one calling thread the reachable states of processLocalPtz satisfy
\* ArbiterInv.
LEMMA ArbiterInvariant == ASSUME SingleThread PROVE Spec => [](TypeOK /\ ArbiterInv)
<1>1. Init => ArbiterInv
  BY DEF Init, ArbiterInv, OwnerParts, RightStands, FlagStands
<1>2. TypeOK /\ ArbiterInv /\ [Next]_vars => ArbiterInv'
  BY ArbiterInvStep
<1> QED
  BY <1>1, <1>2, TypeCorrect, PTL DEF Spec

\* With one calling thread the camera always names the user served last once
\* the call is over (OwnerIntact).
THEOREM OwnerIntactHolds == ASSUME SingleThread PROVE Spec => []OwnerIntact
<1>1. ArbiterInv => OwnerIntact
  BY DEF ArbiterInv, OwnerParts, OwnerIntact, SingleThread
<1> QED
  BY <1>1, ArbiterInvariant, PTL

\* With one calling thread an operator is displaced by one of lower rank only
\* after its lease (NoDowngrade).
THEOREM NoDowngradeHolds == ASSUME SingleThread PROVE Spec => NoDowngrade
<1>1. ASSUME TypeOK, ArbiterInv, [Next]_vars, served' # served
      PROVE  Le(served, served') \/ IsExpired(cam.ttl)
  <2>1. PICK t \in Thread : WriteExpire(t)
    BY <1>1 DEF Next, Step, Tick, UnlockExpired, Decide, WriteMid, WriteLid,
                WriteFlag, Call, vars
  <2> QED
    BY <1>1, <2>1 DEF WriteExpire, ArbiterInv, RightStands
<1>2. TypeOK /\ ArbiterInv /\ [Next]_vars =>
        [served' # served => Le(served, served') \/ IsExpired(cam.ttl)]_vars
  BY <1>1
<1> QED
  BY <1>2, ArbiterInvariant, PTL DEF Spec, NoDowngrade

\* With one calling thread a lock ends by the expiry of its lease or by the
\* unlock command of an operator its holder does not outrank
\* (LockEndsByRight).
THEOREM LockEndsByRightHolds == ASSUME SingleThread PROVE Spec => LockEndsByRight
<1> DEFINE Right == \/ IsExpired(cam.ttl)
                    \/ \E t \in Thread : /\ pc[t] = "flag"
                                         /\ req[t].code = 2
                                         /\ Le(cam.user, req[t].user)
<1>1. ASSUME TypeOK, ArbiterInv, [Next]_vars, cam.locked, ~cam.locked'
      PROVE  Right
  <2>1. PICK t \in Thread : UnlockExpired(t) \/ WriteFlag(t)
    BY <1>1 DEF Next, Step, Tick, Decide, WriteMid, WriteLid, WriteExpire,
                Call, vars, TypeOK, Cameras
  <2>2. CASE UnlockExpired(t)
    BY <1>1, <2>2 DEF UnlockExpired, ArbiterInv, FlagStands
  <2>3. CASE WriteFlag(t)
    BY <1>1, <2>3 DEF WriteFlag, ArbiterInv, FlagStands, TypeOK, Cameras
  <2> QED
    BY <2>1, <2>2, <2>3
<1>2. TypeOK /\ ArbiterInv /\ [Next]_vars =>
        [cam.locked /\ ~cam.locked' => Right]_vars
  BY <1>1
<1> QED
  BY <1>2, ArbiterInvariant, PTL DEF Spec, LockEndsByRight
=============================================================================
