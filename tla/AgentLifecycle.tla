---------------------------- MODULE AgentLifecycle ----------------------------
(***************************************************************************)
(* What the control plane of an agent tree promises, with nothing of how   *)
(* it is kept: an agent opens below an open agent, runs numbered rounds,   *)
(* tells its parent of the end of every round exactly once, and closes     *)
(* only when it runs nothing and no child of it is open.                   *)
(*                                                                         *)
(* A path that was closed can open again as a new incarnation; an agent is *)
(* a path with an incarnation (AgentRef, src/src/loushang/harness/         *)
(* multiagent/types.py). The root agent is always open, incarnation 1.     *)
(***************************************************************************)
EXTENDS AgentPaths

VARIABLES
    life,       \* what is known of the latest incarnation of each path
    told        \* the completion notices published so far

lifeVars == <<life, told>>

Phases == {"absent", "idle", "running", "over", "closed"}
OpenPhases == {"idle", "running", "over"}

Open(p) == life[p].phase \in OpenPhases

\* The incarnation a path has now: the root keeps its first one.
Incarnation(p) == IF p = Root THEN 1 ELSE life[p].inc

\* A child is under the incarnation of the parent it was spawned by.
Notices == [from : Paths, inc : Nat, round : Nat, to : Nat]

LifeInit ==
    /\ life = [p \in Paths |-> [inc |-> 0, phase |-> "absent", round |-> 0, up |-> 0]]
    /\ told = {}

\* A new incarnation of a path that is not open, below an open parent.
Opens(p) ==
    /\ ~Open(p)
    /\ Parent[p] = Root \/ Open(Parent[p])
    /\ life' = [life EXCEPT ![p] = [inc |-> @.inc + 1, phase |-> "idle", round |-> 0,
                                    up |-> Incarnation(Parent[p])]]
    /\ UNCHANGED told

Begins(p) ==
    /\ life[p].phase \in {"idle", "over"}
    /\ life' = [life EXCEPT ![p].phase = "running", ![p].round = @ + 1]
    /\ UNCHANGED told

\* The end of a round and the notice to the parent are one step.
Ends(p) ==
    /\ life[p].phase = "running"
    /\ life' = [life EXCEPT ![p].phase = "over"]
    /\ told' = told \cup {[from |-> p, inc |-> life[p].inc, round |-> life[p].round,
                           to |-> life[p].up]}

Closes(p) ==
    /\ life[p].phase \in {"idle", "over"}
    /\ \A c \in Paths : Parent[c] = p => ~Open(c)
    /\ life' = [life EXCEPT ![p].phase = "closed"]
    /\ UNCHANGED told

LifeNext == \E p \in Paths : Opens(p) \/ Begins(p) \/ Ends(p) \/ Closes(p)

LifeSpec == LifeInit /\ [][LifeNext]_lifeVars

-----------------------------------------------------------------------------

LifeTypeOK ==
    /\ life \in [Paths -> [inc : Nat, phase : Phases, round : Nat, up : Nat]]
    /\ told \subseteq Notices

\* An open agent is below the open incarnation that spawned it: closing goes
\* from the leaves up, and no child is spawned below a closed agent.
OpenBelowOpen ==
    \A p \in Paths : Open(p) =>
        /\ Parent[p] # Root => Open(Parent[p])
        /\ life[p].up = Incarnation(Parent[p])

\* Every round that ended was told to the parent, none that did not end was,
\* and no round was told twice.
RoundsTold ==
    /\ \A n \in told :
        /\ n.round \in 1..(IF n.inc = life[n.from].inc THEN life[n.from].round ELSE n.round)
        /\ n.inc <= life[n.from].inc
        /\ n.inc = life[n.from].inc /\ n.round = life[n.from].round
            => life[n.from].phase # "running"
    /\ \A n, m \in told :
        n.from = m.from /\ n.inc = m.inc /\ n.round = m.round => n = m
    /\ \A p \in Paths : \A r \in 1..life[p].round :
        \/ r = life[p].round /\ life[p].phase = "running"
        \/ \E n \in told : n.from = p /\ n.inc = life[p].inc /\ n.round = r

\* A notice is addressed to an open incarnation of the parent.
ToldWhileOpen ==
    \A n \in told' \ told :
        Parent[n.from] # Root => Open(Parent[n.from]) /\ n.to = life[Parent[n.from]].inc
ToldToOpenParent == [][ToldWhileOpen]_lifeVars
=============================================================================
