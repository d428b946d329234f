------------------------------ MODULE AgentPaths ------------------------------
(***************************************************************************)
(* The paths of an agent tree (AgentPath, src/src/loushang/harness/        *)
(* multiagent/types.py): the names below the session's own agent that can  *)
(* be spawned. A path is a tuple of names; the path above it drops the     *)
(* last one, and its depth is the number of names.                         *)
(***************************************************************************)
EXTENDS Integers, FiniteSets

CONSTANTS
    Paths,      \* the paths below the root that can be spawned
    Root,       \* the path of the session's own agent
    Parent,     \* the path above each path
    Depth       \* AgentPath.depth

ASSUME RootAssumption == Root \notin Paths
ASSUME ParentAssumption == Parent \in [Paths -> Paths \cup {Root}]
ASSUME DepthAssumption ==
    /\ Depth \in [Paths \cup {Root} -> Nat]
    /\ Depth[Root] = 0
    /\ \A p \in Paths : Depth[p] = Depth[Parent[p]] + 1

Closed(S) == \A p \in S \ {Root} : Parent[p] \in S

\* A path and all the paths above it: what every set that has the path and,
\* with each path, the one above it, has.
Above ==
    [p \in Paths \cup {Root} |->
        {q \in Paths \cup {Root} :
            \A S \in SUBSET (Paths \cup {Root}) : p \in S /\ Closed(S) => q \in S}]

Below(p) == {q \in Paths : p \in Above[q]}
=============================================================================
