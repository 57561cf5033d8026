------------------------------ MODULE TrunkPool ------------------------------
(***************************************************************************)
(* The SWITCH requests a matrix receives from its parent, as far as its    *)
(* trunks are concerned: the first half of onClientRxRequest.  Only the    *)
(* agent client's thread touches the trunks, so a request is one step.     *)
(*                                                                         *)
(* The history variables "want" and "taker" record who was promised what:  *)
(* the properties compare them with what the trunks really carry.          *)
(***************************************************************************)
EXTENDS Trunks

CONSTANTS
    LocalCamera,     \* ids of this matrix's cameras (keys of mCameras)
    OtherCamera      \* local ids that are no key, and cameras of other matrices

ASSUME CameraAssumption ==
    /\ LocalCamera \cup OtherCamera \subseteq Nat \X Nat
    /\ LocalCamera \cap OtherCamera = {}

VARIABLES
    trunks,          \* mTrunks
    shown,           \* shown[i]: the camera last switched to trunk i's port
    want,            \* history: want[i][u], the camera user u got trunk i for
    taker            \* history: taker[i], the user that last changed shown[i]

vars == <<trunks, shown, want, taker>>

TypeOK ==
    /\ trunks \in [TrunkIndex -> TrunkStates]
    /\ shown \in [TrunkIndex -> GlobalIds]
    /\ want \in [TrunkIndex -> [TrunkUser -> GlobalIds]]
    /\ taker \in [TrunkIndex -> GlobalIds]
-----------------------------------------------------------------------------
Init ==
    /\ trunks = [i \in TrunkIndex |-> IdleTrunk]
    /\ shown = [i \in TrunkIndex |-> NullID]
    /\ want = [i \in TrunkIndex |-> [u \in TrunkUser |-> NullID]]
    /\ taker = [i \in TrunkIndex |-> NullID]

\* checkTrunk first updates the users of every trunk.
Updated == [i \in TrunkIndex |-> UpdateUsers(trunks[i])]

\* Mutant: the trunk is reserved without its cid being set.
GrantWithoutCid(u, c) ==
    LET i == CheckTrunk(Updated, u, c)
    IN  /\ c \in LocalCamera
        /\ i # NoTrunk
        /\ trunks' = [Updated EXCEPT ![i] = Push(Updated[i], u, Updated[i].cid)]
        /\ shown' = [shown EXCEPT ![i] = c]
        /\ want' = [want EXCEPT ![i][u] = c]
        /\ taker' = [taker EXCEPT ![i] = IF shown[i] = c THEN taker[i] ELSE u]

\* A trunk is found and the camera is here: the user is pushed, the camera is
\* switched to the trunk's port and the answer is 200.
Grant(u, c) ==
    LET i == CheckTrunk(Updated, u, c)
    IN  /\ c \in LocalCamera
        /\ i # NoTrunk
        /\ trunks' = [Updated EXCEPT ![i] = Push(Updated[i], u, c)]
        /\ shown' = [shown EXCEPT ![i] = c]
        /\ want' = [want EXCEPT ![i][u] = c]
        /\ taker' = [taker EXCEPT ![i] = IF shown[i] = c THEN taker[i] ELSE u]

\* A trunk is found but the camera is not here: the request is answered 404 or
\* forwarded to a child, and the trunk is not reserved.
Pass(u, c) ==
    /\ c \in OtherCamera
    /\ CheckTrunk(Updated, u, c) # NoTrunk
    /\ trunks' = Updated
    /\ UNCHANGED <<shown, want, taker>>

\* "Trunk Busy".
Busy(u, c) ==
    /\ c \in LocalCamera \cup OtherCamera
    /\ CheckTrunk(Updated, u, c) = NoTrunk
    /\ trunks' = Updated
    /\ UNCHANGED <<shown, want, taker>>

Request(u, c) == Grant(u, c) \/ Pass(u, c) \/ Busy(u, c)

Tick ==
    /\ trunks' = [i \in TrunkIndex |-> AgedTrunk(trunks[i])]
    /\ UNCHANGED <<shown, want, taker>>

Next ==
    \/ Tick
    \/ \E u \in TrunkUser, c \in LocalCamera \cup OtherCamera : Request(u, c)

Spec == Init /\ [][Next]_vars

\* Time passes; requests are never promised.
FairSpec == Spec /\ WF_vars(Tick)
-----------------------------------------------------------------------------
(***************************************************************************)
(* Properties.                                                             *)
(***************************************************************************)

\* A trunk that is in use for a camera really carries it, and a trunk without
\* users is free for any camera: mCameraId, mUsers and the switch that was
\* sent to the matrix agree at every moment, expiry included.
TrunkCarriesItsCamera ==
    \A i \in TrunkIndex :
        /\ trunks[i].users = {} <=> trunks[i].cid = NullID
        /\ trunks[i].cid # NullID => shown[i] = trunks[i].cid

\* No camera occupies two trunks: checkTrunk finds the trunk to share before
\* it hands out another one, even when trunks are freed and preempted in
\* between.
OneTrunkPerCamera ==
    \A i, j \in TrunkIndex :
        trunks[i].cid = trunks[j].cid => i = j \/ trunks[i].cid = NullID

\* A user within its lease still sees the camera it asked for, unless an
\* operator with a smaller id took the trunk away: sharing, expiry of others
\* and later requests never take it.
LeaseHonoured ==
    \A i \in TrunkIndex : \A u \in trunks[i].users :
        ~IsExpired(trunks[i].ttl[u]) =>
            want[i][u] = shown[i] \/ Lt(taker[i], u)

\* The queue of a trunk never drops a user within its lease.
LeaseKept ==
    [][\A i \in TrunkIndex : \A u \in trunks[i].users :
         ~IsExpired(trunks[i].ttl[u]) => u \in trunks'[i].users]_vars

\* "Trunk Busy" does not last: once only one operator is still asking for
\* one camera, its request gets a trunk, and keeps getting one, even though
\* leases that ran out are only noticed by requests and its own leases for
\* other cameras stand in its way too (updateUsers, checkTrunk).
ServedWhenQuiet ==
    \A u \in TrunkUser, c \in LocalCamera :
        <>[][~\E v \in TrunkUser, d \in LocalCamera :
                 <<v, d>> # <<u, c>> /\ Request(v, d)]_vars
        => <>[](CheckTrunk(Updated, u, c) # NoTrunk)
=============================================================================
