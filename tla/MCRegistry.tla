----------------------------- MODULE MCRegistry -----------------------------
(***************************************************************************)
(* Instances of Registry: a chain of three matrices, and a matrix with two *)
(* children.                                                               *)
(***************************************************************************)
EXTENDS Registry, TLC

MCTree == 0..3
MCTreeParent == (0 :> NoNode) @@ (1 :> 0) @@ (2 :> 1) @@ (3 :> 0)
MCTreeBelow == (0 :> {1, 2, 3}) @@ (1 :> {2}) @@ (2 :> {}) @@ (3 :> {})

MCChain == 0..2
MCChainParent == (0 :> NoNode) @@ (1 :> 0) @@ (2 :> 1)
MCChainBelow == (0 :> {1, 2}) @@ (1 :> {2}) @@ (2 :> {})

MCPair == 0..2
MCPairParent == (0 :> NoNode) @@ (1 :> 0) @@ (2 :> 0)
MCPairBelow == (0 :> {1, 2}) @@ (1 :> {}) @@ (2 :> {})

MCFd == 11..14
=============================================================================
