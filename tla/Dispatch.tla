-------------------------------- MODULE Dispatch --------------------------------
(***************************************************************************)
(* What the keyboard manager promises to everyone who posts an event: the  *)
(* events are handled one by one, each once, in the order of their posts.  *)
(***************************************************************************)
EXTENDS Integers, Sequences

CONSTANT Event

VARIABLES
    waiting,     \* the events posted and not handled yet
    done         \* the events handled

Init == waiting = <<>> /\ done = <<>>

\* Some event is appended.
Post ==
    /\ waiting' \in Seq(Event) /\ waiting' # <<>>
    /\ waiting = SubSeq(waiting', 1, Len(waiting') - 1)
    /\ UNCHANGED done

Handle ==
    /\ waiting # <<>>
    /\ waiting' = Tail(waiting)
    /\ done' = Append(done, Head(waiting))

Next == Handle \/ Post

Spec == Init /\ [][Next]_<<waiting, done>>
=============================================================================
