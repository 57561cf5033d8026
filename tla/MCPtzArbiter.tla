---------------------------- MODULE MCPtzArbiter ----------------------------
(***************************************************************************)
(* Instances of PtzArbiter: matrix 1, whose parent is matrix 0.            *)
(***************************************************************************)
EXTENDS PtzArbiter

\* A matrix without a parent: the keyboard manager's thread only, with three
\* operators and every lock code.
MCOneThread == {"keyboard"}
MCOneUsersOf == [t \in MCOneThread |-> {<<1, 1>>, <<1, 2>>, <<1, 3>>}]
MCOneCodesOf == [t \in MCOneThread |-> {0, 1, 2}]

\* A matrix with a parent.  No driver sends a lock code, and the agent
\* client passes 0 explicitly.
MCTwoThreads == {"keyboard", "agent"}
MCTwoUsersOf == [t \in MCTwoThreads |-> IF t = "agent" THEN {<<0, 1>>, <<0, 2>>}
                                                      ELSE {<<1, 1>>}]
MCTwoCodesOf == [t \in MCTwoThreads |-> {0}]

MCInitTtl == {-1, 3}
=============================================================================
