------------------------------- MODULE MCConsole -------------------------------
(***************************************************************************)
(* An instance of Console: a matrix that is not the root, with one serial  *)
(* keyboard, an empty slot, and GUI clients bound to either.               *)
(***************************************************************************)
EXTENDS Console

\* STOP and LEFT for camera 1.
MCKeyPacket ==
    {[FirstPacket EXCEPT ![2] = PtzCmd, ![5] = step, ![6] = 0, ![7] = PtzCmd + 1 + step] :
        step \in {0, 5}}

\* A camera of this matrix, for a keyboard that is not there, a camera of a
\* matrix below, and a motion.
MCGuiPacket ==
    LET p == [type |-> "SWITCH", kb |-> 1, cam |-> <<1, 2>>, mon |-> 1, opt |-> {},
              lumid |-> 1, rdmid |-> 1]
    IN  {p, [p EXCEPT !.kb = 0, !.cam = <<2, 1>>, !.type = "Pin"],
         [p EXCEPT !.kb = 0, !.type = "PTZ", !.opt = {"UP"}]}

MCPtzRequest == {{"LEFT"}}
=============================================================================
