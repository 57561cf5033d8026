----------------------------- MODULE MCAlgorithms -----------------------------
(***************************************************************************)
(* The parts that compute rather than communicate, each from its own       *)
(* initial states: the configuration, the framing on a serial line, and    *)
(* the commands for video walls.                                           *)
(***************************************************************************)
EXTENDS ConfFile, SerialLine, Wall

\* The names of the sections are "ab" and "a", the keys "a", "aa", "ab", "b".
MCSection == {<<1, 2>>, <<1>>}
MCDefault == <<1, 2>>
MCKey == {<<1>>, <<1, 1>>, <<1, 2>>, <<2>>}

\* The case that goes on, with the configuration or with the line.
Begun == leftUp = 1 /\ rightDown = 1 /\ camera = 8

Init == ConfInit /\ LineInit /\ WallInit

Next ==
    \/ Begun /\ inner = <<>> /\ ConfNext /\ UNCHANGED <<lineVars, wallVars>>
    \/ Begun /\ log = <<>> /\ parsing /\ LineNext /\ UNCHANGED <<confVars, wallVars>>

Spec == Init /\ [][Next]_<<confVars, lineVars, wallVars>>
=============================================================================
