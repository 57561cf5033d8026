-------------------------------- MODULE Trunks --------------------------------
(***************************************************************************)
(* The trunk lines from a matrix to its parent (MCCResourceManager::Trunk) *)
(* and MCCResourceManager::checkTrunk, which picks the line a request from *)
(* the parent may use.                                                     *)
(*                                                                         *)
(* mUsers is a priority queue with the smallest id on top.  Of several     *)
(* entries of one user only the latest lease can be told apart from the    *)
(* outside (the older ones leave the queue no later), so a trunk keeps the *)
(* set of its users and one ttl for each.                                  *)
(***************************************************************************)
EXTENDS GlobalId

CONSTANTS
    NTrunks,         \* size of mTrunks
    TrunkUser        \* the ids that may ask for a trunk

ASSUME TrunkAssumption ==
    /\ NTrunks \in Nat \ {0}     \* checkTrunk dereferences mTrunks.begin()
    /\ TrunkUser \subseteq Nat \X Nat

TrunkIndex == 1..NTrunks

\* mCameraId and mUsers.
TrunkStates == [cid : GlobalIds, users : SUBSET TrunkUser, ttl : [TrunkUser -> Int]]

IdleTrunk == [cid |-> NullID, users |-> {}, ttl |-> [u \in TrunkUser |-> -1]]

\* mUsers.top(): the smallest id.
Top(tr) == CHOOSE u \in tr.users : \A v \in tr.users : Le(u, v)

\* Mutant: an expired top takes the whole queue with it.
UpdateUsersAll(tr) ==
    IF tr.users # {} /\ IsExpired(tr.ttl[Top(tr)])
    THEN [tr EXCEPT !.users = {}, !.cid = NullID]
    ELSE tr

\* Mutant: users never leave.
UpdateUsersNever(tr) == tr

\* Trunk::updateUsers pops the top while it is expired: whoever has no live
\* user at or before it leaves, an expired user behind a live one stays.
UpdateUsers(tr) ==
    LET left == {u \in tr.users : \E v \in tr.users : Le(v, u) /\ ~IsExpired(tr.ttl[v])}
    IN  [tr EXCEPT !.users = left,
                   !.cid = IF left = {} THEN NullID ELSE tr.cid]

\* Mutant: the two members of the user's id are swapped.
PushSwapped(tr, u, cid) ==
    [tr EXCEPT !.users = tr.users \cup {<<u[2], u[1]>>}, !.cid = cid]

\* Trunk::push of a user whose lease was just renewed, and setting cid().
Push(tr, u, cid) ==
    [tr EXCEPT !.users = tr.users \cup {u},
               !.ttl = [tr.ttl EXCEPT ![u] = UpdatedExpire],
               !.cid = cid]

AgedTrunk(tr) == [tr EXCEPT !.ttl = [u \in TrunkUser |-> Aged(tr.ttl[u])]]

First(S) == CHOOSE i \in S : \A j \in S : i <= j

\* The trunks that carry the camera, and the ones nobody uses.
Reusable(ts, cid) == {i \in TrunkIndex : ts[i].cid = cid}
Free(ts) == {i \in TrunkIndex : ts[i].users = {}}

\* minTrunk: the first of the trunks whose top is the greatest.
MinTrunk(ts) ==
    First({i \in TrunkIndex : \A j \in TrunkIndex : Le(Top(ts[j]), Top(ts[i]))})

\* Index 0 stands for "return false".
NoTrunk == 0

\* Mutant: an idle trunk is taken before one that carries the camera.
CheckTrunkFreeFirst(ts, u, cid) ==
    CASE Free(ts) # {} -> First(Free(ts))
      [] Free(ts) = {} /\ Reusable(ts, cid) # {} -> First(Reusable(ts, cid))
      [] OTHER -> NoTrunk

\* Mutant: the comparison of the preemption is the other way round.
CheckTrunkSwapped(ts, u, cid) ==
    CASE Reusable(ts, cid) # {} -> First(Reusable(ts, cid))
      [] Reusable(ts, cid) = {} /\ Free(ts) # {} -> First(Free(ts))
      [] OTHER -> IF Lt(Top(ts[MinTrunk(ts)]), u) THEN MinTrunk(ts) ELSE NoTrunk

\* checkTrunk on trunks whose users have been updated: a trunk that already
\* carries the camera, else an idle one, else the one to be preempted.
CheckTrunk(ts, u, cid) ==
    CASE Reusable(ts, cid) # {} -> First(Reusable(ts, cid))
      [] Reusable(ts, cid) = {} /\ Free(ts) # {} -> First(Free(ts))
      [] OTHER -> IF Gt(Top(ts[MinTrunk(ts)]), u) THEN MinTrunk(ts) ELSE NoTrunk
=============================================================================
