------------------------- MODULE AgentLifecycleProofs -------------------------
(***************************************************************************)
(* What every implementation of AgentLifecycle may be relied on for, for   *)
(* every set of paths and every shape of the tree.                         *)
(***************************************************************************)
EXTENDS AgentLifecycle, TLAPS

\* The types, with the rounds and the parent's incarnation of every path.
THEOREM LifeTypeCorrect == LifeSpec => []LifeTypeOK
<1>1. LifeInit => LifeTypeOK
  BY DEF LifeInit, LifeTypeOK, Phases, Notices
<1>2. LifeTypeOK /\ [LifeNext]_lifeVars => LifeTypeOK'
  <2>. SUFFICES ASSUME LifeTypeOK, [LifeNext]_lifeVars PROVE LifeTypeOK'
    OBVIOUS
  <2>. USE DEF LifeTypeOK
  <2>1. \A p \in Paths : Incarnation(Parent[p]) \in Nat
    BY ParentAssumption DEF Incarnation
  <2>2. ASSUME NEW p \in Paths, Opens(p) PROVE LifeTypeOK'
    BY <2>1, <2>2 DEF Opens, Phases
  <2>3. ASSUME NEW p \in Paths, Begins(p) PROVE LifeTypeOK'
    BY <2>3 DEF Begins, Phases
  <2>4. ASSUME NEW p \in Paths, Ends(p) PROVE LifeTypeOK'
    BY <2>4 DEF Ends, Phases, Notices
  <2>5. ASSUME NEW p \in Paths, Closes(p) PROVE LifeTypeOK'
    BY <2>5 DEF Closes, Phases
  <2>6. CASE UNCHANGED lifeVars
    BY <2>6 DEF lifeVars
  <2>. QED
    BY <2>2, <2>3, <2>4, <2>5, <2>6 DEF LifeNext
<1>. QED
  BY <1>1, <1>2, PTL DEF LifeSpec

-----------------------------------------------------------------------------

\* An open agent is below the open incarnation that spawned it, however the
\* openings and closings of the tree interleave.
THEOREM OpenAgentsBelowOpen == LifeSpec => []OpenBelowOpen
<1>1. LifeInit => OpenBelowOpen
  BY DEF LifeInit, OpenBelowOpen, Open, OpenPhases
<1>2. LifeTypeOK /\ OpenBelowOpen /\ [LifeNext]_lifeVars => OpenBelowOpen'
  <2>. SUFFICES ASSUME LifeTypeOK, OpenBelowOpen, [LifeNext]_lifeVars,
                       NEW c \in Paths, Open(c)'
                PROVE  (Parent[c] # Root => Open(Parent[c])') /\
                       (life[c].up)' = Incarnation(Parent[c])'
    BY DEF OpenBelowOpen
  <2>1. Parent[c] \in Paths \cup {Root} /\ Root \notin Paths
    BY ParentAssumption, RootAssumption
  <2>2. ASSUME NEW p \in Paths, Opens(p)
        PROVE  (Parent[c] # Root => Open(Parent[c])') /\
               (life[c].up)' = Incarnation(Parent[c])'
    <3>1. CASE c = p
      <4>1. Parent[p] # p
        BY <2>1, <2>2 DEF Opens
      <4>. QED
        BY <2>1, <2>2, <3>1, <4>1 DEF Opens, Open, OpenPhases, Incarnation, LifeTypeOK
    <3>2. CASE c # p
      <4>1. Open(c)
        BY <2>2, <3>2 DEF Opens, Open, LifeTypeOK
      <4>2. Parent[c] # p
        BY <2>1, <2>2, <4>1 DEF OpenBelowOpen, Opens
      <4>. QED
        BY <2>1, <2>2, <3>2, <4>1, <4>2 DEF OpenBelowOpen, Opens, Open, Incarnation, LifeTypeOK
    <3>. QED
      BY <3>1, <3>2
  <2>3. ASSUME NEW p \in Paths, Begins(p)
        PROVE  (Parent[c] # Root => Open(Parent[c])') /\
               (life[c].up)' = Incarnation(Parent[c])'
    <3>1. \A q \in Paths : /\ Open(q)' <=> Open(q)
                           /\ (life[q].up)' = life[q].up
                           /\ (life[q].inc)' = life[q].inc
      BY <2>3 DEF Begins, Open, OpenPhases, LifeTypeOK
    <3>. QED
      BY <2>1, <3>1 DEF OpenBelowOpen, Incarnation
  <2>4. ASSUME NEW p \in Paths, Ends(p)
        PROVE  (Parent[c] # Root => Open(Parent[c])') /\
               (life[c].up)' = Incarnation(Parent[c])'
    <3>1. \A q \in Paths : /\ Open(q)' <=> Open(q)
                           /\ (life[q].up)' = life[q].up
                           /\ (life[q].inc)' = life[q].inc
      BY <2>4 DEF Ends, Open, OpenPhases, LifeTypeOK
    <3>. QED
      BY <2>1, <3>1 DEF OpenBelowOpen, Incarnation
  <2>5. ASSUME NEW p \in Paths, Closes(p)
        PROVE  (Parent[c] # Root => Open(Parent[c])') /\
               (life[c].up)' = Incarnation(Parent[c])'
    <3>1. \A q \in Paths : /\ Open(q)' <=> Open(q) /\ q # p
                           /\ (life[q].up)' = life[q].up
                           /\ (life[q].inc)' = life[q].inc
      BY <2>5 DEF Closes, Open, OpenPhases, LifeTypeOK
    <3>2. Parent[c] # p
      BY <2>5, <3>1 DEF Closes
    <3>. QED
      BY <2>1, <3>1, <3>2 DEF OpenBelowOpen, Incarnation
  <2>6. CASE UNCHANGED lifeVars
    BY <2>6 DEF lifeVars, OpenBelowOpen, Open, Incarnation
  <2>. QED
    BY <2>2, <2>3, <2>4, <2>5, <2>6 DEF LifeNext
<1>. QED
  BY <1>1, <1>2, LifeTypeCorrect, PTL DEF LifeSpec

-----------------------------------------------------------------------------

\* The notice of a round's end is addressed to the incarnation of the parent
\* that is open at that moment.
THEOREM NoticeFindsParent == LifeSpec => ToldToOpenParent
<1>1. LifeTypeOK /\ OpenBelowOpen /\ [LifeNext]_lifeVars => [ToldWhileOpen]_lifeVars
  <2>. SUFFICES ASSUME LifeTypeOK, OpenBelowOpen, LifeNext,
                       NEW n \in told' \ told, Parent[n.from] # Root
                PROVE  Open(Parent[n.from]) /\ n.to = life[Parent[n.from]].inc
    BY DEF ToldWhileOpen
  <2>1. PICK p \in Paths : Ends(p)
    BY DEF LifeNext, Opens, Begins, Closes
  <2>2. n.from = p /\ n.to = life[p].up
    BY <2>1 DEF Ends
  <2>3. Open(p)
    BY <2>1 DEF Ends, Open, OpenPhases
  <2>. QED
    BY <2>2, <2>3 DEF OpenBelowOpen, Incarnation
<1>. QED
  BY <1>1, LifeTypeCorrect, OpenAgentsBelowOpen, PTL DEF LifeSpec, ToldToOpenParent

-----------------------------------------------------------------------------

\* A notice is about a round that some incarnation of its sender has ended.
NoticesOfEndedRounds ==
    \A n \in told :
        /\ n.inc <= life[n.from].inc
        /\ n.round >= 1
        /\ n.inc = life[n.from].inc => n.round <= life[n.from].round
        /\ n.inc = life[n.from].inc /\ n.round = life[n.from].round
            => life[n.from].phase # "running"

NoticesUnique ==
    \A n, m \in told :
        n.from = m.from /\ n.inc = m.inc /\ n.round = m.round => n = m

EndedRoundsTold ==
    \A p \in Paths : \A r \in 1..life[p].round :
        \/ r = life[p].round /\ life[p].phase = "running"
        \/ \E n \in told : n.from = p /\ n.inc = life[p].inc /\ n.round = r

RunningNumbered == \A p \in Paths : life[p].phase = "running" => life[p].round >= 1

RoundsInv == NoticesOfEndedRounds /\ NoticesUnique /\ EndedRoundsTold /\ RunningNumbered

\* Every round that ended is told exactly once, and none that did not end:
\* no later incarnation of the path and no repeated end disturbs that.
THEOREM EveryRoundTold == LifeSpec => []RoundsTold
<1>1. LifeInit => RoundsInv
  BY DEF LifeInit, RoundsInv, NoticesOfEndedRounds, NoticesUnique, EndedRoundsTold,
         RunningNumbered
<1>2. LifeTypeOK /\ RoundsInv /\ [LifeNext]_lifeVars => RoundsInv'
  <2>. SUFFICES ASSUME LifeTypeOK, RoundsInv, [LifeNext]_lifeVars PROVE RoundsInv'
    OBVIOUS
  <2>. USE DEF RoundsInv
  <2>1. \A n \in told : n.from \in Paths /\ n.inc \in Nat /\ n.round \in Nat
    BY DEF LifeTypeOK, Notices
  <2>2. \A p \in Paths : life[p].inc \in Nat /\ life[p].round \in Nat
    BY DEF LifeTypeOK
  <2>3. ASSUME NEW p \in Paths, Opens(p) PROVE RoundsInv'
    <3>1. NoticesOfEndedRounds'
      BY <2>1, <2>2, <2>3 DEF Opens, NoticesOfEndedRounds, LifeTypeOK
    <3>2. NoticesUnique'
      BY <2>3 DEF Opens, NoticesUnique
    <3>3. EndedRoundsTold'
      BY <2>3 DEF Opens, EndedRoundsTold, LifeTypeOK
    <3>4. RunningNumbered'
      BY <2>3 DEF Opens, RunningNumbered, LifeTypeOK
    <3>. QED
      BY <3>1, <3>2, <3>3, <3>4
  <2>4. ASSUME NEW p \in Paths, Begins(p) PROVE RoundsInv'
    <3>1. NoticesOfEndedRounds'
      BY <2>1, <2>2, <2>4 DEF Begins, NoticesOfEndedRounds, LifeTypeOK
    <3>2. NoticesUnique'
      BY <2>4 DEF Begins, NoticesUnique
    <3>3. EndedRoundsTold'
      BY <2>2, <2>4 DEF Begins, EndedRoundsTold, LifeTypeOK
    <3>4. RunningNumbered'
      BY <2>2, <2>4 DEF Begins, RunningNumbered, LifeTypeOK
    <3>. QED
      BY <3>1, <3>2, <3>3, <3>4
  <2>5. ASSUME NEW p \in Paths, Ends(p) PROVE RoundsInv'
    <3>. DEFINE new == [from |-> p, inc |-> life[p].inc, round |-> life[p].round,
                        to |-> life[p].up]
    <3>1. told' = told \cup {new} /\ life' = [life EXCEPT ![p].phase = "over"]
      BY <2>5 DEF Ends
    <3>2. \A q \in Paths : /\ (life[q].inc)' = life[q].inc
                           /\ (life[q].round)' = life[q].round
                           /\ (life[q].phase)' = IF q = p THEN "over" ELSE life[q].phase
      BY <3>1 DEF LifeTypeOK
    <3>3. NoticesOfEndedRounds'
      <4>1. life[p].round >= 1
        BY <2>5 DEF Ends, RunningNumbered
      <4>2. ASSUME NEW n \in told
            PROVE  /\ n.inc <= (life[n.from].inc)'
                   /\ n.round >= 1
                   /\ n.inc = (life[n.from].inc)' => n.round <= (life[n.from].round)'
                   /\ n.inc = (life[n.from].inc)' /\ n.round = (life[n.from].round)'
                      => (life[n.from].phase)' # "running"
        BY <2>1, <3>2 DEF NoticesOfEndedRounds
      <4>. QED
        BY <2>2, <3>1, <3>2, <4>1, <4>2 DEF NoticesOfEndedRounds
    <3>4. NoticesUnique'
      BY <2>1, <2>5, <3>1 DEF NoticesUnique, NoticesOfEndedRounds, Ends
    <3>5. EndedRoundsTold'
      <4>. SUFFICES ASSUME NEW q \in Paths, NEW r \in 1..life[q].round
                    PROVE  \/ r = life[q].round /\ (life[q].phase)' = "running"
                           \/ \E n \in told' : n.from = q /\ n.inc = life[q].inc /\ n.round = r
        BY <3>2 DEF EndedRoundsTold
      <4>1. CASE q = p /\ r = life[p].round
        <5>1. new \in told' /\ new.from = q /\ new.inc = life[q].inc /\ new.round = r
          BY <3>1, <4>1
        <5>. QED
          BY <5>1
      <4>2. CASE ~(q = p /\ r = life[p].round)
        BY <3>1, <3>2, <4>2 DEF EndedRoundsTold
      <4>. QED
        BY <4>1, <4>2
    <3>6. RunningNumbered'
      BY <3>2 DEF RunningNumbered
    <3>. QED
      BY <3>3, <3>4, <3>5, <3>6
  <2>6. ASSUME NEW p \in Paths, Closes(p) PROVE RoundsInv'
    <3>1. \A q \in Paths : /\ (life[q].inc)' = life[q].inc
                           /\ (life[q].round)' = life[q].round
                           /\ (life[q].phase)' = IF q = p THEN "closed" ELSE life[q].phase
      BY <2>6 DEF Closes, LifeTypeOK
    <3>2. told' = told /\ life[p].phase # "running"
      BY <2>6 DEF Closes
    <3>3. NoticesOfEndedRounds'
      BY <2>1, <3>1, <3>2 DEF NoticesOfEndedRounds
    <3>4. NoticesUnique'
      BY <3>2 DEF NoticesUnique
    <3>5. EndedRoundsTold'
      BY <3>1, <3>2 DEF EndedRoundsTold
    <3>6. RunningNumbered'
      BY <3>1 DEF RunningNumbered
    <3>. QED
      BY <3>3, <3>4, <3>5, <3>6
  <2>7. CASE UNCHANGED lifeVars
    BY <2>7 DEF lifeVars, NoticesOfEndedRounds, NoticesUnique, EndedRoundsTold,
                RunningNumbered
  <2>. QED
    BY <2>3, <2>4, <2>5, <2>6, <2>7 DEF LifeNext
<1>3. LifeTypeOK /\ RoundsInv => RoundsTold
  BY DEF RoundsInv, NoticesOfEndedRounds, NoticesUnique, EndedRoundsTold, RoundsTold,
         LifeTypeOK, Notices
<1>. QED
  BY <1>1, <1>2, <1>3, LifeTypeCorrect, PTL DEF LifeSpec
=============================================================================
