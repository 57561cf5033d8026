-------------------------------- MODULE Camera --------------------------------
(***************************************************************************)
(* The pan/tilt/zoom state of one camera (MCCResourceManager::Camera) and  *)
(* the decision MCCResourceManager::processLocalPtz takes on it.  These    *)
(* are the operators; PtzArbiter runs them on the threads that call them.  *)
(***************************************************************************)
EXTENDS GlobalId

\* mPtzUser (its id and its ttl) and mIsPtzLocked.
Cameras == [user : GlobalIds, ttl : Int, locked : BOOLEAN]

\* lock_resource of a keyboard message: 0 ignore, 1 lock, 2 unlock.
LockCode == 0..2

\* The body of releasePtz is the comparison "mPtzUser == MCCUser::min": it
\* assigns nothing, so the camera keeps its last user.
ReleasePtz(cam) == cam
UnlockPtz(cam)  == [ReleasePtz(cam) EXCEPT !.locked = FALSE]

\* The first statement of processLocalPtz applies to a lock that ran out.
LockRanOut(cam) == cam.locked /\ IsExpired(cam.ttl)

\* Mutant: the expiry of the current user is forgotten.
MayOperateWithoutExpiry(cam, u) == Le(cam.user, u)

\* The user may operate a camera whose user does not outrank it, or is gone.
MayOperate(cam, u) == Le(cam.user, u) \/ IsExpired(cam.ttl)

Accept(w) == [result |-> "ACCEPT", write |-> w]
Reject    == [result |-> "REJECT", write |-> "none"]

\* Mutant: anybody may unlock.
WhenLockedAnyoneUnlocks(cam, u, code) ==
    CASE code = 2 -> Accept("unlock")
      [] code # 2 /\ MayOperate(cam, u) -> Accept(IF code = 1 THEN "lock" ELSE "none")
      [] OTHER -> Reject

\* processLocalPtz on a locked head: a command without a lock code is
\* carried out and leaves the lock alone.
WhenLocked(cam, u, code) ==
    CASE ~MayOperate(cam, u) -> Reject
      [] MayOperate(cam, u) /\ code = 1 -> Accept("lock")
      [] MayOperate(cam, u) /\ code = 2 -> Accept("unlock")
      [] OTHER -> Accept("none")

\* Mutant: a lock is granted whatever the rank of the current user.
WhenFreeLockAnyRank(cam, u, code) ==
    CASE code = 1 -> Accept("lock")
      [] code = 0 /\ MayOperate(cam, u) -> Accept("acquire")
      [] OTHER -> Reject

\* Mutant: an unlock without a lock releases the head instead of being
\* ignored.
WhenFreeRelease(cam, u, code) ==
    CASE code = 1 /\ Le(cam.user, u) -> Accept("lock")
      [] code = 2 -> Accept("release")
      [] code = 0 /\ MayOperate(cam, u) -> Accept("acquire")
      [] OTHER -> Reject

\* processLocalPtz on a head that is not locked: a lock command looks at the
\* rank only (not at the expiry), an unlock command is refused, and any
\* other command acquires the head.
WhenFree(cam, u, code) ==
    CASE code = 1 /\ Le(cam.user, u) -> Accept("lock")
      [] code = 0 /\ MayOperate(cam, u) -> Accept("acquire")
      [] OTHER -> Reject

\* The rest of processLocalPtz: what it returns and what it does to the
\* camera.
Decision(cam, u, code) ==
    IF cam.locked THEN WhenLocked(cam, u, code) ELSE WhenFree(cam, u, code)
=============================================================================
