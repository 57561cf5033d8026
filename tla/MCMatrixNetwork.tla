--------------------------- MODULE MCMatrixNetwork ---------------------------
(***************************************************************************)
(* Instances of MatrixNetwork: a chain of three matrices.                  *)
(***************************************************************************)
EXTENDS MatrixNetwork, TLC

MCChain == 0..2
MCChainParent == (0 :> NoNode) @@ (1 :> 0) @@ (2 :> 1)
MCChainBelow == (0 :> {1, 2}) @@ (1 :> {2}) @@ (2 :> {})

MCPort == 1..2
MCKeyboardOf == (0 :> {1}) @@ (1 :> {1}) @@ (2 :> {})
MCUser == {<<0, 1>>, <<1, 1>>}

\* Each has camera 2; nobody has camera 1, the number of a trunk's input.
MCCameraOf == [n \in MCChain |-> {2}]
MCMonitorOf == [n \in MCChain |-> IF n = 2 THEN {} ELSE {2}]

\* One trunk each, wired to the input with the number of its output.
MCTrunkOut == [n \in MCChain |-> <<1>>]
MCOutport == [n \in MCChain |-> <<1>>]

\* As in bin/mcc.ini, where the numbers of the two ends differ ("2-9").
MCPorts == 1..3
MCFarOutport == [n \in MCChain |-> <<3>>]

\* Two keyboards at the top, none below.
MCTopKeyboards == (0 :> {1, 2}) @@ (1 :> {}) @@ (2 :> {})
MCTopUser == {<<0, 1>>, <<0, 2>>}

MCInitTtl == {-1}
=============================================================================
