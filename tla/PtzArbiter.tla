------------------------------ MODULE PtzArbiter ------------------------------
(***************************************************************************)
(* Who controls a camera's pan/tilt/zoom head.                             *)
(*                                                                         *)
(* processLocalPtz is called from two threads of the process: the keyboard *)
(* manager's (requests of this matrix's own keyboards and clients) and the *)
(* agent client's (requests that arrive from the parent matrix).  Neither  *)
(* takes Camera::mMutex, so the reads and the writes of one call may       *)
(* interleave with those of the other; each assignment of the call is a    *)
(* step of its own here.  A matrix without a parent has the first thread   *)
(* only.                                                                   *)
(***************************************************************************)
EXTENDS Camera

CONSTANTS
    Thread,        \* the threads that call processLocalPtz
    UsersOf,       \* UsersOf[t]: the operators whose requests thread t handles
    CodesOf,       \* CodesOf[t]: the lock codes its requests carry
    InitTtl        \* what MCCUser's constructor leaves in mExpireTime (garbage)

ASSUME ThreadAssumption ==
    /\ UsersOf \in [Thread -> SUBSET (Nat \X Nat)]
    /\ CodesOf \in [Thread -> SUBSET LockCode]
    /\ InitTtl \subseteq Int

VARIABLES
    cam,           \* the camera
    pc,            \* pc[t]: where thread t is in processLocalPtz
    req,           \* req[t]: the request it is working on
    write,         \* write[t]: the assignments its decision still has to make
    served         \* history: the last user whose acquisition was completed

vars == <<cam, pc, req, write, served>>

AllUsers == UNION {UsersOf[t] : t \in Thread}

Requests == [user : AllUsers, code : LockCode]
NoRequest == [user |-> NullID, code |-> 0]

PcValues == {"idle", "unlock", "decide", "mid", "lid", "expire", "flag"}

TypeOK ==
    /\ cam \in Cameras
    /\ pc \in [Thread -> PcValues]
    /\ req \in [Thread -> Requests \cup {NoRequest}]
    /\ write \in [Thread -> {"none", "acquire", "lock", "unlock"}]
    /\ served \in GlobalIds
-----------------------------------------------------------------------------
Init ==
    /\ cam \in [user : {NullID}, ttl : InitTtl, locked : {FALSE}]
    /\ pc = [t \in Thread |-> "idle"]
    /\ req = [t \in Thread |-> NoRequest]
    /\ write = [t \in Thread |-> "none"]
    /\ served = NullID

Goto(t, l) == pc' = [pc EXCEPT ![t] = l]

\* A request of user u reaches processLocalPtz; it finds out whether a lock
\* on the camera has run out.
Call(t, u, code) ==
    /\ pc[t] = "idle"
    /\ u \in UsersOf[t] /\ code \in CodesOf[t]
    /\ req' = [req EXCEPT ![t] = [user |-> u, code |-> code]]
    /\ Goto(t, IF LockRanOut(cam) THEN "unlock" ELSE "decide")
    /\ UNCHANGED <<cam, write, served>>

\* A lock that ran out is taken off before anything is decided.
UnlockExpired(t) ==
    /\ pc[t] = "unlock"
    /\ cam' = UnlockPtz(cam)
    /\ Goto(t, "decide")
    /\ UNCHANGED <<req, write, served>>

\* Accept or refuse, and pick the assignments to make.
Decide(t) ==
    /\ pc[t] = "decide"
    /\ LET d == Decision(cam, req[t].user, req[t].code)
       IN  /\ write' = [write EXCEPT ![t] = d.write]
           /\ Goto(t, CASE d.write = "none"   -> "idle"
                        [] d.write = "unlock" -> "flag"
                        [] OTHER              -> "mid")
    /\ UNCHANGED <<cam, req, served>>

\* Mutant: the copy of the id stops after its first member.
WriteMidOnly(t) ==
    /\ pc[t] = "mid"
    /\ cam' = [cam EXCEPT !.user = <<req[t].user[1], cam.user[2]>>]
    /\ Goto(t, "expire")
    /\ UNCHANGED <<req, write, served>>

\* mPtzUser.Id() = userid copies the two members of the id one by one.
WriteMid(t) ==
    /\ pc[t] = "mid"
    /\ cam' = [cam EXCEPT !.user = <<req[t].user[1], cam.user[2]>>]
    /\ Goto(t, "lid")
    /\ UNCHANGED <<req, write, served>>

WriteLid(t) ==
    /\ pc[t] = "lid"
    /\ cam' = [cam EXCEPT !.user = <<cam.user[1], req[t].user[2]>>]
    /\ Goto(t, "expire")
    /\ UNCHANGED <<req, write, served>>

\* mPtzUser.updateExpire() ends the acquisition.
WriteExpire(t) ==
    /\ pc[t] = "expire"
    /\ cam' = [cam EXCEPT !.ttl = UpdatedExpire]
    /\ served' = req[t].user
    /\ Goto(t, IF write[t] = "lock" THEN "flag" ELSE "idle")
    /\ UNCHANGED <<req, write>>

\* The assignment to mIsPtzLocked that ends lockPtz and unlockPtz.
WriteFlag(t) ==
    /\ pc[t] = "flag"
    /\ cam' = [cam EXCEPT !.locked = (write[t] = "lock")]
    /\ Goto(t, "idle")
    /\ UNCHANGED <<req, write, served>>

\* The wall clock, independent of the threads.
Tick ==
    /\ cam' = [cam EXCEPT !.ttl = Aged(cam.ttl)]
    /\ UNCHANGED <<pc, req, write, served>>

Step(t) ==
    \/ UnlockExpired(t) \/ Decide(t)
    \/ WriteMid(t) \/ WriteLid(t) \/ WriteExpire(t) \/ WriteFlag(t)

Next ==
    \/ Tick
    \/ \E t \in Thread : Step(t)
    \/ \E t \in Thread : \E u \in AllUsers, code \in LockCode : Call(t, u, code)

Spec == Init /\ [][Next]_vars

\* A thread inside processLocalPtz is not suspended for ever (the function
\* neither blocks nor loops) and time passes.  Requests are never promised.
FairSpec ==
    /\ Spec
    /\ WF_vars(Tick)
    /\ \A t \in Thread : WF_vars(Step(t))
-----------------------------------------------------------------------------
(***************************************************************************)
(* Properties.                                                             *)
(***************************************************************************)

\* The head passes to an operator of lower rank only once the lease of the
\* one before it has run out.  processLocalPtz compares the ranks, but it
\* decides several assignments before the new owner is in place: this is
\* about the moment the acquisition completes (acquirePtz, lockPtz).
NoDowngrade ==
    [][served' # served => Le(served, served') \/ IsExpired(cam.ttl)]_vars

\* Between calls the camera names the user that was served last: never a
\* mixture of two ids and never a user whose call was refused
\* (mPtzUser.Id() = userid is two assignments).
OwnerIntact ==
    (\A t \in Thread : pc[t] = "idle") => cam.user = served

\* A lock ends only when its lease is over or when an operator that the
\* holder does not outrank sends an unlock command.  In particular a stop
\* or move command never ends it, whatever comes in between.
LockEndsByRight ==
    [][cam.locked /\ ~cam.locked' =>
         \/ IsExpired(cam.ttl)
         \/ \E t \in Thread : /\ pc[t] = "flag"
                              /\ req[t].code = 2
                              /\ Le(cam.user, req[t].user)]_vars

\* A head is never lost to an owner that went silent, locked or not: an
\* operator of any rank that keeps asking, once nobody else asks, is served
\* again and again.
TakeoverWhenQuiet ==
    \A t \in Thread : \A u \in UsersOf[t] :
        (/\ []<><<Call(t, u, 0)>>_vars
         /\ <>[][~\E s \in Thread, v \in AllUsers \ {u}, code \in LockCode :
                     Call(s, v, code)]_vars)
        => []<>(served = u)
=============================================================================
