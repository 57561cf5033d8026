------------------------------- MODULE GlobalId -------------------------------
(***************************************************************************)
(* MCCGlobalID and MCCUser: a resource or a user is named by the pair of   *)
(* the matrix it belongs to and its number there, ordered matrix first.    *)
(* Everything that decides who may use a camera, a monitor or a trunk      *)
(* compares such pairs.                                                    *)
(*                                                                         *)
(* A user also has an expiry time.  The code stores an absolute time       *)
(* (mExpireTime) and compares it with gettimeofday; only the sign of their *)
(* difference is ever used, so the models store                            *)
(*         ttl = mExpireTime - now,                                        *)
(* let the clock's tick decrement it and stop at -1, the first value at    *)
(* which the user counts as expired.                                       *)
(***************************************************************************)
EXTENDS Integers

CONSTANT Expire          \* DEFAULT_EXPIRE, in ticks of the model's clock

ASSUME ExpireAssumption == Expire \in Nat

\* A global id: <<matrix id, local id>>.
GlobalIds == Int \X Int

\* MCCGlobalID::NullID, also what the default constructor builds.
NullID == <<-1, -1>>

Gt(a, b) == a[1] > b[1] \/ (a[1] = b[1] /\ a[2] > b[2])
Lt(a, b) == a[1] < b[1] \/ (a[1] = b[1] /\ a[2] < b[2])
Ge(a, b) == ~Lt(a, b)
Le(a, b) == ~Gt(a, b)

\* MCCUser::isExpired: strictly later than mExpireTime.
IsExpired(ttl) == ttl < 0

\* One tick of the wall clock, seen by a stored expiry time.
Aged(ttl) == IF IsExpired(ttl) THEN ttl ELSE ttl - 1

\* MCCUser::updateExpire.
UpdatedExpire == Expire
=============================================================================
