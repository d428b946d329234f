----------------------------- MODULE MCAgentTree ------------------------------
\* Instances of AgentTree for TLC: one agent below the root and one below it.
EXTENDS AgentTree

CONSTANTS root, a, b

MCPaths == {a, b}
MCParent == (a :> root) @@ (b :> a)
MCDepth == (root :> 0) @@ (a :> 1) @@ (b :> 2)
=============================================================================
