--------------------------- MODULE AgentTreeProofs ----------------------------
(***************************************************************************)
(* The agent tree keeps the promises of AgentLifecycle, for every tree of  *)
(* paths and every number of operations, messages, interrupts and failures.*)
(***************************************************************************)
EXTENDS AgentTree, SequenceTheorems, WellFoundedInduction, TLAPS

NoOpenChild(p) == \A c \in Paths : Parent[c] = p => ~Open(c)

\* Only the head of the lane has begun, and a spawn is of a path below the root.
LaneInv ==
    \A i \in DOMAIN lane :
        /\ i # 1 => lane[i].phase = "queued"
        /\ lane[i].kind = "spawn" => lane[i].path \in Paths

\* An open agent is below an open one.
BelowOpen == \A p \in Paths : Open(p) => Open(Parent[p])

\* A handle is registered for an open agent only, and forgotten as a whole.
HandleInv ==
    \A p \in Paths : IF handle[p].live THEN Open(p) ELSE handle[p] = NoHandle

\* While its factory is awaited an agent is idle, has no handle and no child.
CreatingInv ==
    \A p \in Paths : Creating(p) =>
        rec[p].status = "idle" /\ ~handle[p].live /\ NoOpenChild(p)

\* An agent that is being closed takes no message and has no open child.
ClosingInv ==
    \A p \in Paths : handle[p].close # "none" => handle[p].closing /\ NoOpenChild(p)

TreeInv ==
    /\ LaneInv /\ BelowOpen /\ HandleInv /\ CreatingInv /\ ClosingInv
    /\ OpenHasHandle /\ RunningIsOwned /\ DisposedAlone

-----------------------------------------------------------------------------
(***************************************************************************)
(* The lane: what joining it, leaving it and a step of its head change.    *)
(***************************************************************************)

LEMMA OpTyped ==
    ASSUME TypeOK, NEW kind \in {"spawn", "close"}, NEW p \in Paths \cup {Root},
           NEW by \in Paths \cup {Root}, NEW held \in BOOLEAN
    PROVE  Op(kind, p, by, held) \in Ops
  BY DEF TypeOK, Op, Ops, Incarnation, Records

LEMMA LaneJoined ==
    ASSUME TypeOK, LaneInv, NEW op \in Ops, op.phase = "queued",
           op.kind = "spawn" => op.path \in Paths,
           lane' = Append(lane, op)
    PROVE  /\ lane' \in Seq(Ops) /\ LaneInv'
           /\ \A p \in Paths : Creating(p)' <=> Creating(p)
<1>1. lane \in Seq(Ops)
  BY DEF TypeOK
<1>2. /\ lane' \in Seq(Ops) /\ Len(lane') = Len(lane) + 1
      /\ \A i \in 1..Len(lane) : lane'[i] = lane[i]
      /\ lane'[Len(lane) + 1] = op
  BY <1>1
<1>3. LaneInv'
  BY <1>1, <1>2 DEF LaneInv
<1>4. \A p \in Paths : Creating(p)' <=> Creating(p)
  <2>1. CASE lane = <<>>
    BY <1>2, <2>1 DEF Creating, Holds, Holder
  <2>2. CASE lane # <<>>
    BY <1>1, <1>2, <2>2 DEF Creating, Holds, Holder
  <2>. QED
    BY <2>1, <2>2
<1>. QED
  BY <1>2, <1>3, <1>4

LEMMA LaneLeft ==
    ASSUME TypeOK, LaneInv, lane # <<>>, lane' = Released
    PROVE  /\ lane' \in Seq(Ops) /\ LaneInv'
           /\ \A p \in Paths : ~Creating(p)'
<1>1. lane \in Seq(Ops)
  BY DEF TypeOK
<1>2. /\ lane' \in Seq(Ops) /\ Len(lane') = Len(lane) - 1
      /\ \A i \in 1..Len(lane') : lane'[i] = lane[i + 1]
  BY <1>1 DEF Released
<1>3. \A i \in 1..Len(lane') :
        lane'[i].phase = "queued" /\ (lane'[i].kind = "spawn" => lane'[i].path \in Paths)
  BY <1>1, <1>2 DEF LaneInv
<1>4. LaneInv'
  BY <1>2, <1>3 DEF LaneInv
<1>5. \A p \in Paths : ~Creating(p)'
  BY <1>2, <1>3 DEF Creating, Holds, Holder
<1>. QED
  BY <1>2, <1>4, <1>5

LEMMA LaneChanged ==
    ASSUME TypeOK, LaneInv, NEW i \in DOMAIN lane, NEW op \in Ops,
           op.kind = "spawn" => op.path \in Paths, i # 1 => op.phase = "queued",
           lane' = [lane EXCEPT ![i] = op]
    PROVE  /\ lane' \in Seq(Ops) /\ LaneInv'
           /\ lane' # <<>> <=> lane # <<>>
           /\ Holder' = IF i = 1 THEN op ELSE Holder
<1>1. lane \in Seq(Ops)
  BY DEF TypeOK
<1>2. /\ lane' \in Seq(Ops) /\ Len(lane') = Len(lane) /\ lane'[i] = op
      /\ \A j \in 1..Len(lane) : j # i => lane'[j] = lane[j]
  BY <1>1
<1>3. LaneInv'
  BY <1>1, <1>2 DEF LaneInv
<1>4. lane # <<>> /\ lane' # <<>> /\ 1 \in 1..Len(lane)
  BY <1>1, <1>2
<1>. QED
  BY <1>2, <1>3, <1>4 DEF Holder

\* The phase of the head changes, and nothing else of it.
LEMMA LaneStepped ==
    ASSUME TypeOK, LaneInv, lane # <<>>,
           NEW phase \in {"creating", "failing", "cleanup", "closing"}, lane' = Step(phase)
    PROVE  /\ lane' \in Seq(Ops) /\ LaneInv' /\ lane' # <<>>
           /\ Holder'.kind = Holder.kind /\ Holder'.path = Holder.path
           /\ Holder'.phase = phase
<1>. DEFINE op == [lane[1] EXCEPT !.phase = phase]
<1>1. lane \in Seq(Ops) /\ 1 \in DOMAIN lane /\ lane[1] \in Ops
  BY DEF TypeOK
<1>2. op \in Ops /\ op.kind = lane[1].kind /\ op.path = lane[1].path /\ op.phase = phase
  BY <1>1 DEF Ops
<1>3. lane' = [lane EXCEPT ![1] = op]
  BY DEF Step
<1>4. op.kind = "spawn" => op.path \in Paths
  BY <1>1, <1>2 DEF LaneInv
<1>. HIDE DEF op
<1>. QED
  BY <1>1, <1>2, <1>3, <1>4, LaneChanged DEF Holder

\* A waiting operation, or one whose cleanup goes on without it, is taken out.
LEMMA LaneAbandoned ==
    ASSUME TypeOK, LaneInv, NEW i \in DOMAIN lane,
           lane[i].phase \in {"queued", "cleanup"}, lane' = RemoveAt(lane, i)
    PROVE  /\ lane' \in Seq(Ops) /\ LaneInv'
           /\ \A p \in Paths : Creating(p)' <=> Creating(p)
<1>1. lane \in Seq(Ops) /\ i \in 1..Len(lane)
  BY DEF TypeOK
<1>2. /\ lane' \in Seq(Ops) /\ Len(lane') = Len(lane) - 1
      /\ \A j \in 1..Len(lane') : lane'[j] = IF j < i THEN lane[j] ELSE lane[j + 1]
  <2>. DEFINE before == SubSeq(lane, 1, i - 1)
              after == SubSeq(lane, i + 1, Len(lane))
  <2>1. /\ before \in Seq(Ops) /\ Len(before) = i - 1
        /\ \A j \in 1..(i - 1) : before[j] = lane[j]
    BY <1>1
  <2>2. /\ after \in Seq(Ops) /\ Len(after) = Len(lane) - i
        /\ \A j \in 1..(Len(lane) - i) : after[j] = lane[i + j]
    BY <1>1
  <2>3. lane' = before \o after
    BY DEF RemoveAt
  <2>. HIDE DEF before, after
  <2>4. /\ lane' \in Seq(Ops) /\ Len(lane') = Len(lane) - 1
        /\ \A j \in 1..(Len(lane) - 1) :
             lane'[j] = IF j <= i - 1 THEN before[j] ELSE after[j - (i - 1)]
    BY <1>1, <2>1, <2>2, <2>3, ConcatProperties
  <2>5. ASSUME NEW j \in 1..Len(lane')
        PROVE  lane'[j] = IF j < i THEN lane[j] ELSE lane[j + 1]
    <3>1. CASE j < i
      BY <1>1, <2>1, <2>4, <3>1
    <3>2. CASE ~(j < i)
      <4>1. j - (i - 1) \in 1..(Len(lane) - i)
        BY <1>1, <2>4, <3>2
      <4>2. after[j - (i - 1)] = lane[i + (j - (i - 1))]
        BY <2>2, <4>1
      <4>3. i + (j - (i - 1)) = j + 1 /\ ~(j <= i - 1) /\ j \in 1..(Len(lane) - 1)
        BY <1>1, <2>4, <3>2
      <4>. QED
        BY <2>4, <3>2, <4>2, <4>3
    <3>. QED
      BY <3>1, <3>2
  <2>. QED
    BY <2>4, <2>5
<1>3. LaneInv'
  BY <1>1, <1>2 DEF LaneInv
<1>4. ASSUME NEW p \in Paths PROVE Creating(p)' <=> Creating(p)
  <2>1. CASE i = 1
    <3>1. ~Creating(p)
      BY <2>1 DEF Creating, Holds, Holder
    <3>2. lane' # <<>> => lane'[1].phase = "queued"
      BY <1>1, <1>2, <2>1 DEF LaneInv
    <3>. QED
      BY <3>1, <3>2 DEF Creating, Holds, Holder
  <2>2. CASE i # 1
    <3>1. lane # <<>> /\ lane' # <<>> /\ lane'[1] = lane[1]
      BY <1>1, <1>2, <2>2
    <3>. QED
      BY <3>1 DEF Creating, Holds, Holder
  <2>. QED
    BY <2>1, <2>2
<1>. QED
  BY <1>2, <1>3, <1>4

-----------------------------------------------------------------------------
\* The lane may change, but not the agent whose factory is awaited.
LaneMoved ==
    /\ lane' \in Seq(Ops) /\ LaneInv'
    /\ \A p \in Paths : Creating(p)' <=> Creating(p)

\* The actions that leave that agent alone, and those that do not.
Keeps == SpawnRefused \/ SpawnCleaned \/ ClosePlanned \/ CloseRefused \/ CloseNext \/ CloseReturns
Creates == SpawnAdmitted \/ SpawnDelivered \/ SpawnFails \/ SpawnRetained \/ SpawnUndelivered

LEMMA LaneUntouched ==
    ASSUME TypeOK, LaneInv, UNCHANGED lane
    PROVE  LaneMoved
  BY DEF TypeOK, LaneInv, LaneMoved, Creating, Holds, Holder

LEMMA LaneMovedByOperation ==
    ASSUME TypeOK, LaneInv, Keeps
    PROVE  LaneMoved
<1>1. ASSUME NEW phase \in {"queued", "cleanup", "closing"},
             Holds("spawn", phase) \/ Holds("close", phase), lane' = Released
      PROVE  LaneMoved
  <2>1. \A p \in Paths : ~Creating(p)
    BY <1>1 DEF Creating, Holds
  <2>. QED
    BY <1>1, <2>1, LaneLeft DEF LaneMoved, Holds
<1>2. CASE SpawnRefused
  BY <1>1, <1>2 DEF SpawnRefused
<1>3. CASE SpawnCleaned
  BY <1>1, <1>3 DEF SpawnCleaned
<1>4. CASE ClosePlanned
  <2>1. \A p \in Paths : ~Creating(p)
    BY <1>4 DEF ClosePlanned, Creating, Holds
  <2>2. /\ lane' \in Seq(Ops) /\ LaneInv'
        /\ Holder'.phase = "closing"
    BY <1>4, LaneStepped DEF ClosePlanned, Holds
  <2>. QED
    BY <2>1, <2>2 DEF LaneMoved, Creating, Holds
<1>5. CASE CloseRefused
  BY <1>1, <1>5 DEF CloseRefused
<1>6. CASE CloseNext
  <2>1. PICK q \in Paths : lane' = [lane EXCEPT ![1].at = q]
    BY <1>6 DEF CloseNext, Deepest, Unclosed, Below
  <2>. DEFINE op == [lane[1] EXCEPT !.at = q]
  <2>2. 1 \in DOMAIN lane /\ lane[1] \in Ops /\ Holds("close", "closing")
    BY <1>6 DEF CloseNext, Holds, TypeOK
  <2>3. op \in Ops /\ op.kind = "close" /\ op.phase = "closing" /\ lane' = [lane EXCEPT ![1] = op]
    BY <2>1, <2>2 DEF Ops, Holds, Holder
  <2>. HIDE DEF op
  <2>4. /\ lane' \in Seq(Ops) /\ LaneInv' /\ Holder' = op
    BY <2>2, <2>3, LaneChanged
  <2>. QED
    BY <2>2, <2>3, <2>4 DEF LaneMoved, Creating, Holds
<1>7. CASE CloseReturns
  BY <1>1, <1>7 DEF CloseReturns, CloseLeaves
<1>. QED
  BY <1>2, <1>3, <1>4, <1>5, <1>6, <1>7 DEF Keeps

\* Afterwards a factory is awaited only if the spawn was admitted now.
LEMMA LaneMovedByCreation ==
    ASSUME TypeOK, LaneInv, Creates
    PROVE  /\ lane' \in Seq(Ops) /\ LaneInv'
           /\ Holds("spawn", Holder.phase) /\ Holder.path \in Paths
           /\ \A p \in Paths : Creating(p)' <=> SpawnAdmitted /\ p = Holder.path
           /\ \A p \in Paths : Creating(p) <=> ~SpawnAdmitted /\ p = Holder.path
<1>1. Holds("spawn", Holder.phase) /\ lane # <<>> /\ Holder.path \in Paths
  <2>1. Holds("spawn", "queued") \/ Holds("spawn", "creating") \/ Holds("spawn", "failing")
    BY Zenon DEF Creates, SpawnAdmitted, SpawnDelivered, SpawnFails, SpawnRetained,
                 SpawnUndelivered
  <2>2. Holds("spawn", Holder.phase) /\ lane # <<>>
    BY <2>1 DEF Holds
  <2>3. 1 \in DOMAIN lane
    BY <2>2 DEF TypeOK
  <2>. QED
    BY <2>2, <2>3 DEF Holds, Holder, LaneInv
<1>2. CASE SpawnAdmitted
  BY <1>1, <1>2, LaneStepped DEF SpawnAdmitted, Holds, Creating
<1>3. CASE SpawnUndelivered
  <2>1. /\ lane' \in Seq(Ops) /\ LaneInv' /\ lane' # <<>> /\ Holder'.phase = "cleanup"
    BY <1>1, <1>3, LaneStepped DEF SpawnUndelivered
  <2>2. ~SpawnAdmitted /\ Creating(Holder.path)
    BY <1>3 DEF SpawnAdmitted, SpawnUndelivered, Creating, Holds
  <2>. QED
    BY <1>1, <2>1, <2>2 DEF Holds, Creating
<1>4. CASE SpawnDelivered \/ SpawnFails \/ SpawnRetained
  <2>1. lane' = Released /\ Creating(Holder.path)
    BY <1>4 DEF SpawnDelivered, SpawnFails, SpawnRetained, Creating
  <2>2. ~SpawnAdmitted
    BY <1>4 DEF SpawnAdmitted, SpawnDelivered, SpawnFails, SpawnRetained, Holds
  <2>. QED
    BY <1>1, <2>1, <2>2, LaneLeft DEF Creating
<1>. QED
  BY <1>2, <1>3, <1>4 DEF Creates

\* A cancelled call, of an agent or of the root.
LEMMA LaneMovedByCancel ==
    ASSUME TypeOK, LaneInv, NEW p, CancelsCall(p)
    PROVE  LaneMoved
<1>1. PICK i \in OpsOf(p) :
        \/ /\ lane[i].kind = "spawn" /\ lane[i].phase = "creating"
           /\ lane' = [lane EXCEPT ![i].phase = "failing"]
        \/ /\ lane[i].phase \in {"queued", "cleanup"}
           /\ lane' = RemoveAt(lane, i)
        \/ /\ lane[i].kind = "close"
           /\ lane' = [lane EXCEPT ![i].held = FALSE]
  BY DEF CancelsCall
<1>2. i \in DOMAIN lane /\ lane[i] \in Ops /\ lane # <<>>
  BY DEF OpsOf, TypeOK
<1>3. CASE lane[i].kind = "spawn" /\ lane[i].phase = "creating"
             /\ lane' = [lane EXCEPT ![i].phase = "failing"]
  <2>. DEFINE op == [lane[i] EXCEPT !.phase = "failing"]
  <2>1. /\ op \in Ops /\ op.kind = "spawn" /\ op.phase = "failing" /\ op.path = lane[i].path
        /\ lane' = [lane EXCEPT ![i] = op]
    BY <1>2, <1>3 DEF Ops
  <2>. HIDE DEF op
  <2>2. i = 1 /\ op.path \in Paths
    BY <1>2, <1>3, <2>1 DEF LaneInv
  <2>3. lane' \in Seq(Ops) /\ LaneInv' /\ Holder' = op /\ lane' # <<>>
    BY <1>2, <2>1, <2>2, LaneChanged
  <2>. QED
    BY <1>2, <1>3, <2>1, <2>2, <2>3 DEF LaneMoved, Creating, Holds, Holder
<1>4. CASE lane[i].phase \in {"queued", "cleanup"} /\ lane' = RemoveAt(lane, i)
  BY <1>2, <1>4, LaneAbandoned DEF LaneMoved
<1>5. CASE lane[i].kind = "close" /\ lane' = [lane EXCEPT ![i].held = FALSE]
  <2>. DEFINE op == [lane[i] EXCEPT !.held = FALSE]
  <2>1. /\ op \in Ops /\ op.kind = "close" /\ op.phase = lane[i].phase
        /\ lane' = [lane EXCEPT ![i] = op]
    BY <1>2, <1>5 DEF Ops
  <2>. HIDE DEF op
  <2>2. i # 1 => op.phase = "queued"
    BY <1>2, <2>1 DEF LaneInv
  <2>3. lane' \in Seq(Ops) /\ LaneInv' /\ Holder' = (IF i = 1 THEN op ELSE Holder) /\ lane' # <<>>
    BY <1>2, <2>1, <2>2, LaneChanged
  <2>. QED
    BY <1>2, <1>5, <2>1, <2>3 DEF LaneMoved, Creating, Holds, Holder
<1>. QED
  BY <1>1, <1>3, <1>4, <1>5

LEMMA LaneMovedByAgent ==
    ASSUME TypeOK, LaneInv, NEW p \in Paths, Agent(p)
    PROVE  LaneMoved
<1>1. CASE ToolCancelled(p)
  BY <1>1, LaneMovedByCancel DEF ToolCancelled
<1>2. CASE CloseCommits(p)
  <2>1. CASE handle[p].err /\ lane # <<>> /\ Holder.at = p
    <3>. DEFINE op == [lane[1] EXCEPT !.err = TRUE]
    <3>1. 1 \in DOMAIN lane /\ lane[1] \in Ops
      BY <2>1 DEF TypeOK
    <3>2. /\ op \in Ops /\ op.kind = lane[1].kind /\ op.phase = lane[1].phase
          /\ op.path = lane[1].path /\ lane' = [lane EXCEPT ![1] = op]
      BY <1>2, <2>1, <3>1 DEF Ops, CloseCommits
    <3>. HIDE DEF op
    <3>3. op.kind = "spawn" => op.path \in Paths
      BY <3>1, <3>2 DEF LaneInv
    <3>4. lane' \in Seq(Ops) /\ LaneInv' /\ Holder' = op /\ lane' # <<>>
      BY <2>1, <3>1, <3>2, <3>3, LaneChanged
    <3>. QED
      BY <2>1, <3>2, <3>4 DEF LaneMoved, Creating, Holds, Holder
  <2>2. CASE ~(handle[p].err /\ lane # <<>> /\ Holder.at = p)
    BY <1>2, <2>2, LaneUntouched DEF CloseCommits
  <2>. QED
    BY <2>1, <2>2
<1>3. CASE ~ToolCancelled(p) /\ ~CloseCommits(p)
  <2>1. UNCHANGED lane
    BY <1>3, Zenon DEF Agent, RoundRuns, Consumes, RoundStops, RoundAborts, RoundEnds, RoundFails,
                Round, Finish, Delivered, CloseInterrupts, CloseInterruptFails, CloseDisposes,
                CloseDisposeFails
  <2>. QED
    BY <2>1, LaneUntouched
<1>. QED
  BY <1>1, <1>2, <1>3

LEMMA LaneMovedByRequest ==
    ASSUME TypeOK, LaneInv, NEW p \in Paths, Request(p)
    PROVE  LaneMoved
<1>1. CASE \E by \in Paths \cup {Root}, held \in BOOLEAN : AskSpawn(p, by, held)
  BY <1>1, OpTyped, LaneJoined DEF AskSpawn, Op, LaneMoved
<1>2. CASE \E by \in Paths \cup {Root}, held \in BOOLEAN : AskClose(p, by, held)
  BY <1>2, OpTyped, LaneJoined DEF AskClose, Op, LaneMoved
<1>3. CASE SendMessage(p) \/ Interrupt(p) \/ InterruptFails(p) \/ AwaitBegins(p)
  BY <1>3, LaneUntouched DEF SendMessage, Interrupt, InterruptFails, AwaitBegins
<1>. QED
  BY <1>1, <1>2, <1>3 DEF Request

LEMMA LaneTyped ==
    ASSUME TypeOK, LaneInv, [Next]_vars
    PROVE  lane' \in Seq(Ops) /\ LaneInv'
<1>1. CASE AskDispose
  BY <1>1, OpTyped, LaneJoined DEF AskDispose, Op, LaneMoved
<1>2. CASE UNCHANGED lane
  BY <1>2, LaneUntouched DEF LaneMoved
<1>3. ASSUME NEW n \in mail, NoticeArrives(n) \/ WakeEnds(n) PROVE UNCHANGED lane
  BY <1>3 DEF NoticeArrives, WakeEnds
<1>4. CASE Operation
  BY <1>4, LaneMovedByOperation, LaneMovedByCreation DEF Operation, Keeps, Creates, LaneMoved
<1>5. ASSUME NEW p \in Paths, Agent(p) \/ Request(p) PROVE lane' \in Seq(Ops) /\ LaneInv'
  BY <1>5, LaneMovedByAgent, LaneMovedByRequest DEF LaneMoved
<1>6. CASE AwaitReturns \/ UNCHANGED vars
  BY <1>2, <1>6 DEF AwaitReturns, vars, LaneMoved
<1>7. CASE RootAborted
  BY <1>7, LaneMovedByCancel DEF RootAborted, LaneMoved
<1>. QED
  BY <1>1, <1>2, <1>3, <1>4, <1>5, <1>6, <1>7 DEF Next, LaneMoved

-----------------------------------------------------------------------------
(***************************************************************************)
(* Types.                                                                  *)
(***************************************************************************)

LEMMA HandleChanged ==
    ASSUME NEW h \in HandleStates
    PROVE  /\ [h EXCEPT !.closing = TRUE] \in HandleStates
           /\ [h EXCEPT !.asked = FALSE] \in HandleStates
           /\ \A n \in Nat : [h EXCEPT !.inbox = n] \in HandleStates
           /\ \A close \in {"begun", "waiting", "disposing", "failed"} :
                [h EXCEPT !.close = close] \in HandleStates
           /\ Interrupted(h) \in HandleStates /\ Closing(h) \in HandleStates
<1>. USE DEF HandleStates
<1>1. /\ [h EXCEPT !.closing = TRUE] \in HandleStates
      /\ [h EXCEPT !.asked = FALSE] \in HandleStates
  OBVIOUS
<1>2. \A n \in Nat : [h EXCEPT !.inbox = n] \in HandleStates
  OBVIOUS
<1>3. \A close \in {"begun", "waiting", "disposing", "failed"} :
        [h EXCEPT !.close = close] \in HandleStates
  OBVIOUS
<1>4. Interrupted(h) \in HandleStates
  <2>1. (h.heard \/ h.task = "turns") \in BOOLEAN
    OBVIOUS
  <2>. QED
    BY <2>1 DEF Interrupted
<1>5. Closing(h) \in HandleStates
  BY DEF Closing
<1>. QED
  BY <1>1, <1>2, <1>3, <1>4, <1>5

LEMMA HandleStarted ==
    /\ NoHandle \in HandleStates
    /\ NewHandle(FALSE) \in HandleStates /\ NewHandle(TRUE) \in HandleStates
    /\ [NewHandle(TRUE) EXCEPT !.close = "begun"] \in HandleStates
  BY DEF NoHandle, NewHandle, HandleStates, Terminal

LEMMA HandleTurned ==
    ASSUME NEW h \in HandleStates
    PROVE  /\ \A task \in {"none", "preparing", "turns", "tail"}, outcome \in Terminal :
                [h EXCEPT !.task = task, !.outcome = outcome] \in HandleStates
           /\ [h EXCEPT !.task = "none", !.asked = FALSE, !.heard = FALSE] \in HandleStates
           /\ [h EXCEPT !.close = "waiting", !.asked = FALSE, !.err = TRUE] \in HandleStates
<1>. USE DEF HandleStates
<1>1. \A task \in {"none", "preparing", "turns", "tail"}, outcome \in Terminal :
        [h EXCEPT !.task = task, !.outcome = outcome] \in HandleStates
  OBVIOUS
<1>2. /\ [h EXCEPT !.task = "none", !.asked = FALSE, !.heard = FALSE] \in HandleStates
      /\ [h EXCEPT !.close = "waiting", !.asked = FALSE, !.err = TRUE] \in HandleStates
  OBVIOUS
<1>. QED
  BY <1>1, <1>2

\* What a step that writes one handle, or one record, leaves typed.
LEMMA HandlePut ==
    ASSUME handle \in [Paths -> HandleStates], NEW p \in Paths, NEW h \in HandleStates,
           handle' = [handle EXCEPT ![p] = h]
    PROVE  handle' \in [Paths -> HandleStates]
  OBVIOUS

LEMMA RecordPut ==
    ASSUME rec \in [Paths -> Records], NEW p \in Paths
    PROVE  /\ \A status \in Statuses : [rec EXCEPT ![p].status = status] \in [Paths -> Records]
           /\ [rec EXCEPT ![p].status = "running", ![p].round = @ + 1] \in [Paths -> Records]
           /\ \A up \in Nat :
                [rec EXCEPT ![p] = [inc |-> @.inc + 1, status |-> "idle", round |-> 0, up |-> up]]
                    \in [Paths -> Records]
<1>1. \A r \in Records : [rec EXCEPT ![p] = r] \in [Paths -> Records]
  OBVIOUS
<1>2. rec[p] \in Records
  OBVIOUS
<1>3. \A status \in Statuses : [rec[p] EXCEPT !.status = status] \in Records
  BY <1>2 DEF Records
<1>4. [rec[p] EXCEPT !.status = "running", !.round = @ + 1] \in Records
  <2>1. \A r \in Records, n \in Nat : [r EXCEPT !.status = "running", !.round = n] \in Records
    BY DEF Records, Statuses
  <2>2. rec[p].round + 1 \in Nat
    BY <1>2 DEF Records
  <2>. QED
    BY <1>2, <2>1, <2>2
<1>5. \A up \in Nat :
        [inc |-> rec[p].inc + 1, status |-> "idle", round |-> 0, up |-> up] \in Records
  BY <1>2 DEF Records, Statuses
<1>6. \A status \in Statuses :
        [rec EXCEPT ![p].status = status] = [rec EXCEPT ![p] = [rec[p] EXCEPT !.status = status]]
  OBVIOUS
<1>7. [rec EXCEPT ![p].status = "running", ![p].round = @ + 1]
        = [rec EXCEPT ![p] = [rec[p] EXCEPT !.status = "running", !.round = @ + 1]]
  BY <1>2 DEF Records
<1>. QED
  BY <1>1, <1>3, <1>4, <1>5, <1>6, <1>7

LEMMA BoundSpent ==
    ASSUME left \in Bounds
    PROVE  /\ Asked => left' \in Bounds
           /\ Fault => left' \in Bounds
           /\ left.sends > 0 => [left EXCEPT !.sends = @ - 1] \in Bounds
           /\ left.aborts > 0 => [left EXCEPT !.aborts = @ - 1] \in Bounds
           /\ left.awaits > 0 => [left EXCEPT !.awaits = @ - 1] \in Bounds
  BY DEF Bounds, Asked, Fault

LEMMA RoundBegunTyped ==
    ASSUME TypeOK, NEW p \in Paths, NEW h \in HandleStates, BeginRound(p, h)
    PROVE  rec' \in [Paths -> Records] /\ handle' \in [Paths -> HandleStates]
<1>1. [h EXCEPT !.task = "preparing", !.outcome = "completed"] \in HandleStates
  BY HandleTurned DEF Terminal
<1>. QED
  BY <1>1, RecordPut, HandlePut DEF TypeOK, BeginRound

LEMMA DeliveredTyped ==
    ASSUME TypeOK, NEW p \in Paths, NEW n \in Nat, Deliver(p, n)
    PROVE  rec' \in [Paths -> Records] /\ handle' \in [Paths -> HandleStates]
<1>1. [handle[p] EXCEPT !.inbox = n] \in HandleStates
  BY HandleChanged DEF TypeOK
<1>2. CASE RoundLive(p)
  BY <1>1, <1>2, HandlePut DEF Deliver, TypeOK
<1>3. CASE ~RoundLive(p)
  BY <1>1, <1>3, RoundBegunTyped DEF Deliver
<1>. QED
  BY <1>2, <1>3

LEMMA FinishedTyped ==
    ASSUME TypeOK, NEW p \in Paths, NEW outcome \in Terminal, Finish(p, outcome)
    PROVE  /\ rec' \in [Paths -> Records] /\ handle' \in [Paths -> HandleStates]
           /\ told' \subseteq Notices /\ mail' \subseteq told'
<1>1. Notice(p) \in Notices
  BY DEF TypeOK, Notice, Records, Notices
<1>2. [handle[p] EXCEPT !.task = "none", !.asked = FALSE, !.heard = FALSE] \in HandleStates
  BY HandleTurned DEF TypeOK
<1>3. handle' = [handle EXCEPT ![p] =
                     [handle[p] EXCEPT !.task = "none", !.asked = FALSE, !.heard = FALSE]]
  BY DEF Finish, TypeOK
<1>4. (IF handle[p].asked THEN "interrupted" ELSE outcome) \in Statuses
  BY DEF Statuses, Terminal
<1>5. rec' \in [Paths -> Records]
  BY <1>4, RecordPut DEF Finish, TypeOK
<1>. QED
  BY <1>1, <1>2, <1>3, <1>5, HandlePut DEF Finish, Delivered, TypeOK

LEMMA OperationTyped ==
    ASSUME TypeOK, LaneInv, Operation, lane' \in Seq(Ops)
    PROVE  TypeOK'
<1>. USE DEF TypeOK
<1>1. ASSUME NEW phase, Holds("spawn", phase) PROVE Holder.path \in Paths
  BY <1>1 DEF Holds, Holder, LaneInv
<1>2. CASE SpawnAdmitted
  <2>1. Incarnation(Parent[Holder.path]) \in Nat
    BY <1>1, <1>2, ParentAssumption DEF SpawnAdmitted, Incarnation, Records
  <2>2. rec' \in [Paths -> Records]
    BY <1>1, <1>2, <2>1, RecordPut DEF SpawnAdmitted
  <2>. QED
    BY <1>2, <2>2 DEF SpawnAdmitted
<1>3. CASE SpawnRefused \/ SpawnCleaned \/ CloseRefused
  BY <1>3 DEF SpawnRefused, SpawnCleaned, CloseRefused
<1>4. CASE SpawnDelivered
  BY <1>1, <1>4, HandleStarted, RoundBegunTyped DEF SpawnDelivered
<1>5. CASE SpawnFails
  <2>1. rec' \in [Paths -> Records]
    BY <1>1, <1>5, RecordPut DEF SpawnFails, Statuses
  <2>. QED
    BY <1>5, <2>1, BoundSpent DEF SpawnFails
<1>6. CASE SpawnRetained
  <2>1. handle' \in [Paths -> HandleStates]
    BY <1>1, <1>6, HandleStarted, HandlePut DEF SpawnRetained
  <2>. QED
    BY <1>6, <2>1, BoundSpent DEF SpawnRetained
<1>7. CASE SpawnUndelivered
  <2>1. handle' \in [Paths -> HandleStates]
    BY <1>1, <1>7, HandleStarted, HandlePut DEF SpawnUndelivered
  <2>. QED
    BY <1>7, <2>1, BoundSpent DEF SpawnUndelivered
<1>8. CASE ClosePlanned
  <2>1. handle' \in [Paths -> HandleStates]
    BY <1>8, HandleChanged DEF ClosePlanned
  <2>. QED
    BY <1>8, <2>1 DEF ClosePlanned
<1>9. CASE CloseNext
  <2>1. PICK q \in Paths : handle' = [handle EXCEPT ![q] = Closing(handle[q])]
    BY <1>9 DEF CloseNext, Deepest, Unclosed, Below
  <2>2. Closing(handle[q]) \in HandleStates
    BY HandleChanged
  <2>3. handle' \in [Paths -> HandleStates]
    BY <2>1, <2>2, HandlePut
  <2>. QED
    BY <1>9, <2>3 DEF CloseNext
<1>10. CASE CloseReturns
  BY <1>10 DEF CloseReturns, CloseLeaves
<1>. QED
  BY <1>2, <1>3, <1>4, <1>5, <1>6, <1>7, <1>8, <1>9, <1>10 DEF Operation

LEMMA AgentTyped ==
    ASSUME TypeOK, NEW p \in Paths, Agent(p), lane' \in Seq(Ops)
    PROVE  TypeOK'
<1>. USE DEF TypeOK
<1>1. handle[p] \in HandleStates
  OBVIOUS
<1>2. ASSUME NEW to \in {"turns", "tail"}, NEW from, Round(p, from, to) PROVE TypeOK'
  <2>. DEFINE outcome == IF handle[p].heard THEN "interrupted" ELSE "completed"
              h == [handle[p] EXCEPT !.task = to, !.outcome = outcome]
  <2>1. handle' = [handle EXCEPT ![p] = h]
    BY <1>1, <1>2 DEF Round, HandleStates
  <2>2. outcome \in Terminal
    BY DEF Terminal
  <2>. HIDE DEF outcome
  <2>3. h \in HandleStates
    BY <1>1, <2>2, HandleTurned
  <2>. HIDE DEF h
  <2>. QED
    BY <1>2, <2>1, <2>3, HandlePut DEF Round
<1>3. CASE RoundRuns(p) \/ RoundStops(p) \/ RoundAborts(p)
  BY <1>2, <1>3 DEF RoundRuns, RoundStops, RoundAborts
<1>4. CASE Consumes(p)
  <2>1. handle[p].inbox - 1 \in Nat
    BY <1>1, <1>4 DEF Consumes, HandleStates
  <2>2. handle' \in [Paths -> HandleStates]
    BY <1>4, <2>1, HandleChanged DEF Consumes
  <2>. QED
    BY <1>4, <2>2 DEF Consumes
<1>5. CASE RoundEnds(p)
  <2>1. handle[p].outcome \in Terminal
    BY <1>1 DEF HandleStates
  <2>. QED
    BY <1>5, <2>1, FinishedTyped DEF RoundEnds, Finish
<1>6. CASE RoundFails(p)
  <2>1. "failed" \in Terminal
    BY DEF Terminal
  <2>. QED
    BY <1>6, <2>1, FinishedTyped, BoundSpent DEF RoundFails, Finish
<1>7. CASE ToolCancelled(p)
  BY <1>7 DEF ToolCancelled
<1>8. CASE CloseInterrupts(p)
  <2>1. [Interrupted(handle[p]) EXCEPT !.close = "waiting"] \in HandleStates
    BY <1>1, HandleChanged
  <2>2. handle' \in [Paths -> HandleStates]
    BY <1>8, <2>1, HandlePut DEF CloseInterrupts
  <2>. QED
    BY <1>8, <2>2 DEF CloseInterrupts
<1>9. CASE CloseInterruptFails(p)
  <2>1. handle' = [handle EXCEPT ![p] =
                      [handle[p] EXCEPT !.close = "waiting", !.asked = FALSE, !.err = TRUE]]
    BY <1>1, <1>9 DEF CloseInterruptFails, HandleStates
  <2>2. [handle[p] EXCEPT !.close = "waiting", !.asked = FALSE, !.err = TRUE] \in HandleStates
    BY <1>1, HandleTurned
  <2>3. handle' \in [Paths -> HandleStates]
    BY <2>1, <2>2, HandlePut
  <2>. QED
    BY <1>9, <2>3, BoundSpent DEF CloseInterruptFails
<1>10. CASE CloseDisposes(p)
  <2>1. handle' \in [Paths -> HandleStates]
    BY <1>1, <1>10, HandleChanged DEF CloseDisposes
  <2>. QED
    BY <1>10, <2>1 DEF CloseDisposes
<1>11. CASE CloseCommits(p)
  <2>1. rec' \in [Paths -> Records] /\ handle' \in [Paths -> HandleStates]
    BY <1>11, RecordPut, HandleStarted, HandlePut DEF CloseCommits, Statuses
  <2>. QED
    BY <1>11, <2>1 DEF CloseCommits
<1>12. CASE CloseDisposeFails(p)
  <2>1. handle' \in [Paths -> HandleStates]
    BY <1>1, <1>12, HandleChanged DEF CloseDisposeFails
  <2>. QED
    BY <1>12, <2>1, BoundSpent DEF CloseDisposeFails
<1>. QED
  BY <1>3, <1>4, <1>5, <1>6, <1>7, <1>8, <1>9, <1>10, <1>11, <1>12 DEF Agent

LEMMA RequestTyped ==
    ASSUME TypeOK, NEW p \in Paths, Request(p), lane' \in Seq(Ops)
    PROVE  TypeOK'
<1>. USE DEF TypeOK
<1>1. handle[p] \in HandleStates /\ rec[p] \in Records
  OBVIOUS
<1>2. CASE SendMessage(p)
  <2>1. handle[p].inbox + 1 \in Nat
    BY <1>1 DEF HandleStates
  <2>. QED
    BY <1>2, <2>1, DeliveredTyped, BoundSpent DEF SendMessage
<1>3. CASE Interrupt(p)
  <2>1. handle' \in [Paths -> HandleStates]
    BY <1>1, <1>3, HandleChanged, HandlePut DEF Interrupt
  <2>. QED
    BY <1>3, <2>1, BoundSpent DEF Interrupt
<1>4. CASE InterruptFails(p)
  <2>1. handle' \in [Paths -> HandleStates]
    BY <1>1, <1>4, HandleChanged DEF InterruptFails
  <2>. QED
    BY <1>4, <2>1, BoundSpent DEF InterruptFails
<1>5. CASE AwaitBegins(p)
  <2>1. waiter' \in Waiters
    BY <1>1, <1>5 DEF AwaitBegins, Records, Waiters
  <2>. QED
    BY <1>5, <2>1, BoundSpent DEF AwaitBegins
<1>6. CASE \E by \in Paths \cup {Root}, held \in BOOLEAN :
          AskSpawn(p, by, held) \/ AskClose(p, by, held)
  BY <1>6, BoundSpent DEF AskSpawn, AskClose
<1>. QED
  BY <1>2, <1>3, <1>4, <1>5, <1>6 DEF Request

LEMMA NoticeTyped ==
    ASSUME TypeOK, NEW n \in mail, NoticeArrives(n)
    PROVE  TypeOK'
<1>. USE DEF TypeOK
<1>1. CASE UNCHANGED <<rec, handle>>
  BY <1>1 DEF NoticeArrives
<1>2. CASE Deliver(Parent[n.from], handle[Parent[n.from]].inbox)
  <2>1. CASE Parent[n.from] \in Paths
    <3>1. handle[Parent[n.from]].inbox \in Nat
      BY <2>1 DEF HandleStates
    <3>. QED
      BY <1>2, <2>1, <3>1, DeliveredTyped DEF NoticeArrives
  <2>2. CASE Parent[n.from] \notin Paths
    <3>1. UNCHANGED <<rec, handle>>
      BY <1>2, <2>2 DEF Deliver, BeginRound
    <3>. QED
      BY <1>1, <3>1
  <2>. QED
    BY <2>1, <2>2
<1>. QED
  BY <1>1, <1>2 DEF NoticeArrives

\* A woken turn of the root ends, or is aborted.
LEMMA RootTyped ==
    ASSUME TypeOK, lane' \in Seq(Ops), RootAborted \/ \E n \in mail : WakeEnds(n)
    PROVE  TypeOK'
<1>1. CASE RootAborted
  BY <1>1, BoundSpent DEF RootAborted, TypeOK
<1>2. ASSUME NEW n \in mail, WakeEnds(n) PROVE TypeOK'
  BY <1>2 DEF WakeEnds, TypeOK
<1>. QED
  BY <1>1, <1>2

LEMMA StepTyped ==
    ASSUME TypeOK, LaneInv, [Next]_vars
    PROVE  TypeOK' /\ LaneInv'
<1>1. lane' \in Seq(Ops) /\ LaneInv'
  BY LaneTyped
<1>2. CASE AskDispose
  BY <1>1, <1>2, BoundSpent DEF AskDispose, TypeOK
<1>3. CASE AwaitReturns
  <2>1. NoWaiter \in Waiters
    BY DEF NoWaiter, Waiters
  <2>. QED
    BY <1>1, <1>3, <2>1 DEF AwaitReturns, TypeOK
<1>4. CASE UNCHANGED vars
  BY <1>1, <1>4 DEF vars, TypeOK
<1>. QED
  BY <1>1, <1>2, <1>3, <1>4, OperationTyped, AgentTyped, RequestTyped, NoticeTyped, RootTyped
     DEF Next

LEMMA Starts == Init => TypeOK /\ LaneInv
<1>. SUFFICES ASSUME Init PROVE TypeOK /\ LaneInv
  OBVIOUS
<1>1. lane \in Seq(Ops) /\ DOMAIN lane = {}
  BY DEF Init
<1>2. rec \in [Paths -> Records] /\ handle \in [Paths -> HandleStates]
  BY HandleStarted DEF Init, Records, Statuses
<1>3. waiter \in Waiters /\ left \in Bounds
  BY BoundAssumption DEF Init, Waiters, Bounds
<1>. QED
  BY <1>1, <1>2, <1>3 DEF Init, TypeOK, LaneInv

\* The types, and with them that only the head of the lane has begun: each
\* operation but the one that holds the lock is still waiting for it.
THEOREM TreeTypeCorrect == Spec => [](TypeOK /\ LaneInv)
  BY Starts, StepTyped, PTL DEF Spec

-----------------------------------------------------------------------------
(***************************************************************************)
(* The invariant, for the steps that open or close no agent.               *)
(***************************************************************************)

LEMMA OpenIs ==
    \A p \in Paths : /\ Open(p) <=> rec[p].status \notin {"absent", "closed"}
                     /\ Open(p)' <=> (rec[p].status)' \notin {"absent", "closed"}
  BY RootAssumption DEF Open

\* An agent that is open has a handle, but while its factory is awaited; one that
\* is not open has none.
LEMMA LiveIsOpen ==
    ASSUME TreeInv, NEW p \in Paths
    PROVE  /\ handle[p].live => Open(p) /\ ~Creating(p)
           /\ ~handle[p].live => handle[p] = NoHandle
           /\ Open(p) /\ ~Creating(p) => handle[p].live
           /\ handle[p].task # "none" \/ handle[p].close # "none" => handle[p].live
  BY DEF TreeInv, HandleInv, CreatingInv, OpenHasHandle, NoHandle

\* A step may do this to handles: it keeps them registered, starts or ends no
\* round, closes only what has no open child and disposes of nothing live.
Kept(p) ==
    /\ IF handle[p].live THEN (handle[p].live)' ELSE UNCHANGED handle[p]
    /\ RoundLive(p)' <=> RoundLive(p)
    /\ (handle[p].close)' # "none" => (handle[p].closing)' /\ NoOpenChild(p)
    /\ (handle[p].close)' = "disposing" => ~RoundLive(p)

LEMMA TreeKept ==
    ASSUME TreeInv, LaneMoved, UNCHANGED rec, \A p \in Paths : Kept(p)
    PROVE  TreeInv'
<1>1. \A p \in Paths \cup {Root} : Open(p)' <=> Open(p)
  BY DEF Open
<1>2. \A p \in Paths : NoOpenChild(p)' <=> NoOpenChild(p)
  BY <1>1 DEF NoOpenChild
<1>3. BelowOpen'
  BY <1>1, ParentAssumption DEF TreeInv, BelowOpen
<1>4. HandleInv'
  BY <1>1 DEF TreeInv, HandleInv, Kept, NoHandle
<1>5. CreatingInv'
  BY <1>2 DEF TreeInv, LaneMoved, CreatingInv, Kept
<1>6. ClosingInv' /\ DisposedAlone'
  BY <1>2 DEF TreeInv, ClosingInv, DisposedAlone, Kept
<1>7. OpenHasHandle'
  BY <1>1 DEF TreeInv, LaneMoved, OpenHasHandle, Kept
<1>8. RunningIsOwned'
  BY DEF TreeInv, RunningIsOwned, Kept
<1>. QED
  BY <1>3, <1>4, <1>5, <1>6, <1>7, <1>8 DEF TreeInv, LaneMoved

LEMMA HandlesUntouched ==
    ASSUME TreeInv, LaneMoved, UNCHANGED <<rec, handle>>
    PROVE  TreeInv'
<1>1. \A p \in Paths : Kept(p)
  BY DEF Kept, RoundLive, TreeInv, ClosingInv, DisposedAlone
<1>. QED
  BY <1>1, TreeKept

LEMMA HandleMoved ==
    ASSUME TypeOK, TreeInv, LaneMoved, UNCHANGED rec,
           NEW p \in Paths, NEW h \in HandleStates, handle' = [handle EXCEPT ![p] = h],
           handle[p].live, h.live, h.task = "none" <=> handle[p].task = "none",
           h.close # "none" => h.closing /\ NoOpenChild(p),
           h.close = "disposing" => handle[p].task = "none"
    PROVE  TreeInv'
<1>1. handle'[p] = h /\ \A q \in Paths \ {p} : handle'[q] = handle[q]
  BY DEF TypeOK
<1>2. \A q \in Paths : Kept(q)
  BY <1>1 DEF Kept, RoundLive, TreeInv, ClosingInv, DisposedAlone
<1>. QED
  BY <1>2, TreeKept

-----------------------------------------------------------------------------
(***************************************************************************)
(* The invariant, for each step of a handle.                               *)
(***************************************************************************)

LEMMA RoundKept ==
    ASSUME TypeOK, TreeInv, LaneMoved, NEW p \in Paths,
           NEW from \in {"preparing", "turns"}, NEW to \in {"turns", "tail"}, Round(p, from, to)
    PROVE  TreeInv'
<1>. DEFINE outcome == IF handle[p].heard THEN "interrupted" ELSE "completed"
            h == [handle[p] EXCEPT !.task = to, !.outcome = outcome]
<1>1. handle[p] \in HandleStates
  BY DEF TypeOK
<1>2. handle' = [handle EXCEPT ![p] = h] /\ handle[p].task # "none" /\ UNCHANGED rec
  BY <1>1 DEF Round, TypeOK, HandleStates
<1>3. h \in HandleStates
  BY <1>1, HandleTurned DEF Terminal
<1>4. h.task = to /\ h.live = handle[p].live /\ h.close = handle[p].close
      /\ h.closing = handle[p].closing
  BY <1>1 DEF HandleStates
<1>. HIDE DEF h
<1>5. handle[p].close # "none" => handle[p].closing /\ NoOpenChild(p)
  BY DEF TreeInv, ClosingInv
<1>6. handle[p].close # "disposing"
  BY <1>2 DEF TreeInv, DisposedAlone, RoundLive
<1>. QED
  BY <1>2, <1>3, <1>4, <1>5, <1>6, HandleMoved, LiveIsOpen

LEMMA InboxKept ==
    ASSUME TypeOK, TreeInv, LaneMoved, UNCHANGED rec, NEW p \in Paths, NEW n \in Nat,
           RoundLive(p), handle' = [handle EXCEPT ![p] = [handle[p] EXCEPT !.inbox = n]]
    PROVE  TreeInv'
<1>. DEFINE h == [handle[p] EXCEPT !.inbox = n]
<1>1. handle[p] \in HandleStates
  BY DEF TypeOK
<1>2. h \in HandleStates
  BY <1>1, HandleChanged
<1>3. h.task = handle[p].task /\ h.live = handle[p].live /\ h.close = handle[p].close
      /\ h.closing = handle[p].closing
  BY <1>1 DEF HandleStates
<1>. HIDE DEF h
<1>4. handle[p].close # "none" => handle[p].closing /\ NoOpenChild(p)
  BY DEF TreeInv, ClosingInv
<1>5. handle[p].close # "disposing" /\ handle[p].live
  BY LiveIsOpen DEF TreeInv, DisposedAlone, RoundLive
<1>6. handle' = [handle EXCEPT ![p] = h]
  BY DEF h
<1>. QED
  BY <1>2, <1>3, <1>4, <1>5, <1>6, HandleMoved

LEMMA RoundBegunKept ==
    ASSUME TypeOK, TreeInv, LaneMoved, NEW p \in Paths, NEW h \in HandleStates, h.live,
           handle[p].live, ~handle[p].closing, h.close = handle[p].close, BeginRound(p, h)
    PROVE  TreeInv'
<1>. DEFINE g == [h EXCEPT !.task = "preparing", !.outcome = "completed"]
<1>1. /\ handle'[p] = g /\ \A q \in Paths \ {p} : handle'[q] = handle[q]
      /\ (rec[p].status)' = "running" /\ \A q \in Paths \ {p} : rec'[q] = rec[q]
  BY DEF BeginRound, TypeOK, Records
<1>2. g.live /\ g.close = h.close /\ g.task = "preparing"
  BY DEF HandleStates
<1>. HIDE DEF g
<1>3. handle[p].close = "none" /\ Open(p) /\ ~Creating(p)
  BY LiveIsOpen DEF TreeInv, ClosingInv
<1>4. \A q \in Paths \cup {Root} : Open(q)' <=> Open(q)
  BY <1>1, <1>3, OpenIs DEF Open
<1>5. \A q \in Paths : NoOpenChild(q)' <=> NoOpenChild(q)
  BY <1>4 DEF NoOpenChild
<1>6. BelowOpen'
  BY <1>4, ParentAssumption DEF TreeInv, BelowOpen
<1>7. HandleInv'
  BY <1>1, <1>2, <1>3, <1>4 DEF TreeInv, HandleInv, NoHandle
<1>8. CreatingInv'
  BY <1>1, <1>3, <1>5 DEF TreeInv, LaneMoved, CreatingInv
<1>9. ClosingInv' /\ DisposedAlone'
  BY <1>1, <1>2, <1>3, <1>5 DEF TreeInv, ClosingInv, DisposedAlone, RoundLive
<1>10. OpenHasHandle'
  BY <1>1, <1>2, <1>4 DEF TreeInv, LaneMoved, OpenHasHandle
<1>11. RunningIsOwned'
  BY <1>1, <1>2 DEF TreeInv, RunningIsOwned, RoundLive
<1>. QED
  BY <1>6, <1>7, <1>8, <1>9, <1>10, <1>11 DEF TreeInv, LaneMoved

LEMMA DeliverKept ==
    ASSUME TypeOK, TreeInv, LaneMoved, NEW p \in Paths, NEW n \in Nat,
           Deliverable(p), Deliver(p, n)
    PROVE  TreeInv'
<1>. DEFINE h == [handle[p] EXCEPT !.inbox = n]
<1>1. handle[p] \in HandleStates
  BY DEF TypeOK
<1>2. h \in HandleStates /\ h.live = handle[p].live /\ h.close = handle[p].close
  BY <1>1, HandleChanged DEF HandleStates
<1>3. CASE RoundLive(p)
  BY <1>3, InboxKept DEF Deliver
<1>4. CASE ~RoundLive(p)
  <2>1. BeginRound(p, h)
    BY <1>4 DEF Deliver
  <2>. HIDE DEF h
  <2>. QED
    BY <1>2, <2>1, RoundBegunKept DEF Deliverable
<1>. QED
  BY <1>3, <1>4

LEMMA FinishKept ==
    ASSUME TypeOK, TreeInv, LaneMoved, NEW p \in Paths, NEW outcome \in Terminal,
           RoundLive(p), Finish(p, outcome)
    PROVE  TreeInv'
<1>. DEFINE g == [handle[p] EXCEPT !.task = "none", !.asked = FALSE, !.heard = FALSE]
            status == IF handle[p].asked THEN "interrupted" ELSE outcome
<1>1. /\ handle'[p] = g /\ \A q \in Paths \ {p} : handle'[q] = handle[q]
      /\ (rec[p].status)' = status /\ \A q \in Paths \ {p} : rec'[q] = rec[q]
  BY DEF Finish, TypeOK, Records
<1>2. g.live = handle[p].live /\ g.close = handle[p].close /\ g.closing = handle[p].closing
      /\ g.task = "none"
  BY DEF TypeOK, HandleStates
<1>3. status \notin {"absent", "closed", "running"}
  BY DEF Terminal
<1>. HIDE DEF g, status
<1>4. handle[p].live /\ Open(p) /\ ~Creating(p)
  BY LiveIsOpen DEF RoundLive
<1>5. \A q \in Paths \cup {Root} : Open(q)' <=> Open(q)
  BY <1>1, <1>3, <1>4, OpenIs DEF Open
<1>6. \A q \in Paths : NoOpenChild(q)' <=> NoOpenChild(q)
  BY <1>5 DEF NoOpenChild
<1>7. BelowOpen'
  BY <1>5, ParentAssumption DEF TreeInv, BelowOpen
<1>8. HandleInv'
  BY <1>1, <1>2, <1>4, <1>5 DEF TreeInv, HandleInv, NoHandle
<1>9. CreatingInv'
  BY <1>1, <1>4, <1>6 DEF TreeInv, LaneMoved, CreatingInv
<1>10. ClosingInv' /\ DisposedAlone'
  BY <1>1, <1>2, <1>6 DEF TreeInv, ClosingInv, DisposedAlone, RoundLive
<1>11. OpenHasHandle'
  BY <1>1, <1>2, <1>5 DEF TreeInv, LaneMoved, OpenHasHandle
<1>12. RunningIsOwned'
  BY <1>1, <1>2, <1>3 DEF TreeInv, RunningIsOwned, RoundLive
<1>. QED
  BY <1>7, <1>8, <1>9, <1>10, <1>11, <1>12 DEF TreeInv, LaneMoved

-----------------------------------------------------------------------------
(***************************************************************************)
(* The invariant, for the steps that open or close an agent.               *)
(***************************************************************************)

\* Parent and children differ, and a path is one of those above it.
LEMMA PathFacts ==
    ASSUME NEW p \in Paths
    PROVE  /\ Parent[p] \in Paths \cup {Root} /\ Parent[p] # p
           /\ p \in Above[p]
           /\ \A q \in Paths \cup {Root} : q \in Above[Parent[p]] => q \in Above[p]
<1>1. Parent[p] \in Paths \cup {Root} /\ Parent[p] # p
  BY ParentAssumption, DepthAssumption
<1>2. p \in Above[p]
  BY DEF Above
<1>3. ASSUME NEW q \in Paths \cup {Root}, q \in Above[Parent[p]] PROVE q \in Above[p]
  <2>1. ASSUME NEW S \in SUBSET (Paths \cup {Root}), p \in S, Closed(S) PROVE q \in S
    <3>1. Parent[p] \in S
      BY <2>1, RootAssumption DEF Closed
    <3>. QED
      BY <1>1, <1>3, <2>1, <3>1 DEF Above
  <2>. QED
    BY <2>1 DEF Above
<1>. QED
  BY <1>1, <1>2, <1>3

\* An agent without open children closes: what is left of the tree.
LEMMA RecordClosed ==
    ASSUME TypeOK, TreeInv, LaneInv', NEW p \in Paths, Open(p), NoOpenChild(p),
           rec' = [rec EXCEPT ![p].status = "closed"],
           (handle[p])' = NoHandle, \A q \in Paths \ {p} : UNCHANGED handle[q],
           \A q \in Paths : Creating(q)' <=> Creating(q) /\ q # p
    PROVE  TreeInv'
<1>1. (rec[p].status)' = "closed" /\ \A q \in Paths \ {p} : rec'[q] = rec[q]
  BY DEF TypeOK, Records
<1>2. \A q \in Paths \cup {Root} : Open(q)' <=> Open(q) /\ q # p
  BY <1>1, OpenIs, RootAssumption DEF Open
<1>3. \A q \in Paths : NoOpenChild(q) => NoOpenChild(q)'
  BY <1>2 DEF NoOpenChild
<1>4. BelowOpen'
  BY <1>2, ParentAssumption DEF TreeInv, BelowOpen, NoOpenChild
<1>5. HandleInv'
  BY <1>2 DEF TreeInv, HandleInv, NoHandle
<1>6. CreatingInv'
  BY <1>1, <1>3 DEF TreeInv, CreatingInv
<1>7. ClosingInv' /\ DisposedAlone'
  BY <1>3 DEF TreeInv, ClosingInv, DisposedAlone, RoundLive, NoHandle
<1>8. OpenHasHandle'
  BY <1>2 DEF TreeInv, OpenHasHandle
<1>9. RunningIsOwned'
  BY <1>1 DEF TreeInv, RunningIsOwned, RoundLive, NoHandle
<1>. QED
  BY <1>4, <1>5, <1>6, <1>7, <1>8, <1>9 DEF TreeInv

LEMMA CommitKept ==
    ASSUME TypeOK, TreeInv, LaneMoved, NEW p \in Paths, CloseCommits(p)
    PROVE  TreeInv'
<1>1. handle[p].live /\ Open(p) /\ ~Creating(p) /\ NoOpenChild(p)
  BY LiveIsOpen DEF CloseCommits, TreeInv, ClosingInv
<1>2. (handle[p])' = NoHandle /\ \A q \in Paths \ {p} : UNCHANGED handle[q]
  BY DEF CloseCommits, TypeOK
<1>3. rec' = [rec EXCEPT ![p].status = "closed"]
  BY DEF CloseCommits
<1>. QED
  BY <1>1, <1>2, <1>3, RecordClosed DEF LaneMoved

LEMMA SpawnFailsKept ==
    ASSUME TypeOK, TreeInv, SpawnFails
    PROVE  TreeInv'
<1>. ~SpawnAdmitted
  BY DEF SpawnAdmitted, SpawnFails, Holds
<1>1. PICK p \in Paths :
        /\ p = Holder.path /\ LaneInv'
        /\ \A q \in Paths : ~Creating(q)' /\ (Creating(q) <=> q = p)
  BY LaneMovedByCreation DEF Creates, TreeInv
<1>2. rec' = [rec EXCEPT ![p].status = "closed"] /\ UNCHANGED handle
  BY <1>1 DEF SpawnFails
<1>3. Open(p) /\ NoOpenChild(p) /\ handle[p] = NoHandle
  BY <1>1, OpenIs, LiveIsOpen DEF TreeInv, CreatingInv
<1>. QED
  BY <1>1, <1>2, <1>3, RecordClosed

LEMMA SpawnAdmittedKept ==
    ASSUME TypeOK, TreeInv, SpawnAdmitted
    PROVE  TreeInv'
<1>1. PICK p \in Paths :
        /\ p = Holder.path /\ LaneInv'
        /\ \A q \in Paths : ~Creating(q) /\ (Creating(q)' <=> q = p)
  BY LaneMovedByCreation DEF Creates, TreeInv
<1>2. Open(Parent[p]) /\ ~Open(p) /\ ~Fenced(p) /\ UNCHANGED handle
  BY <1>1 DEF SpawnAdmitted, Admitted
<1>3. (rec[p].status)' = "idle" /\ \A q \in Paths \ {p} : rec'[q] = rec[q]
  BY <1>1 DEF SpawnAdmitted, TypeOK
<1>4. handle[p] = NoHandle /\ ~handle[p].live
  BY <1>1, <1>2, LiveIsOpen
<1>5. \A q \in Paths \cup {Root} : Open(q)' <=> Open(q) \/ q = p
  BY <1>1, <1>3, OpenIs, RootAssumption DEF Open
<1>6. NoOpenChild(p)'
  BY <1>1, <1>2, <1>5, PathFacts DEF NoOpenChild, TreeInv, BelowOpen
<1>7. BelowOpen'
  BY <1>1, <1>2, <1>5, PathFacts DEF TreeInv, BelowOpen
<1>8. HandleInv'
  BY <1>2, <1>4, <1>5 DEF TreeInv, HandleInv
<1>9. CreatingInv'
  BY <1>1, <1>2, <1>3, <1>4, <1>6 DEF CreatingInv
<1>10. ASSUME NEW q \in Paths, handle[q].close # "none"
       PROVE  handle[q].closing /\ NoOpenChild(q)'
  <2>1. handle[q].closing /\ NoOpenChild(q) /\ Open(q)
    BY <1>10, LiveIsOpen DEF TreeInv, ClosingInv
  <2>2. Parent[p] # q
    BY <1>2, <2>1, PathFacts, RootAssumption DEF Fenced
  <2>. QED
    BY <1>5, <2>1, <2>2 DEF NoOpenChild
<1>11. ClosingInv' /\ DisposedAlone'
  BY <1>2, <1>10 DEF TreeInv, ClosingInv, DisposedAlone, RoundLive
<1>12. OpenHasHandle'
  BY <1>1, <1>2, <1>5 DEF TreeInv, OpenHasHandle
<1>13. RunningIsOwned'
  BY <1>1, <1>2, <1>3, <1>4 DEF TreeInv, RunningIsOwned, RoundLive, NoHandle
<1>. QED
  BY <1>1, <1>7, <1>8, <1>9, <1>11, <1>12, <1>13 DEF TreeInv

\* The factory is done and the agent stays open, under a new handle h.
LEMMA HandleRegistered ==
    ASSUME TypeOK, TreeInv, LaneInv', NEW p \in Paths, Creating(p),
           \A q \in Paths : ~Creating(q)' /\ (Creating(q) => q = p),
           NEW h, handle' = [handle EXCEPT ![p] = h], h.live,
           h.close # "none" => h.closing, h.close # "disposing",
           (rec[p].status)' = (IF h.task = "none" THEN "idle" ELSE "running"),
           \A q \in Paths \ {p} : UNCHANGED rec[q]
    PROVE  TreeInv'
<1>1. (handle[p])' = h /\ \A q \in Paths \ {p} : UNCHANGED handle[q]
  BY DEF TypeOK
<1>2. rec[p].status = "idle" /\ NoOpenChild(p) /\ Open(p)
  BY OpenIs DEF TreeInv, CreatingInv
<1>3. \A q \in Paths \cup {Root} : Open(q)' <=> Open(q)
  BY <1>2, OpenIs DEF Open
<1>4. \A q \in Paths : NoOpenChild(q)' <=> NoOpenChild(q)
  BY <1>3 DEF NoOpenChild
<1>5. BelowOpen'
  BY <1>3, ParentAssumption DEF TreeInv, BelowOpen
<1>6. HandleInv'
  BY <1>1, <1>2, <1>3 DEF TreeInv, HandleInv, NoHandle
<1>7. CreatingInv'
  BY DEF CreatingInv
<1>8. ClosingInv' /\ DisposedAlone'
  BY <1>1, <1>2, <1>4 DEF TreeInv, ClosingInv, DisposedAlone, RoundLive
<1>9. OpenHasHandle'
  BY <1>1, <1>3 DEF TreeInv, OpenHasHandle
<1>10. RunningIsOwned'
  BY <1>1 DEF TreeInv, RunningIsOwned, RoundLive
<1>. QED
  BY <1>5, <1>6, <1>7, <1>8, <1>9, <1>10 DEF TreeInv

LEMMA SpawnDoneKept ==
    ASSUME TypeOK, TreeInv, SpawnDelivered \/ SpawnRetained \/ SpawnUndelivered
    PROVE  TreeInv'
<1>1. ~SpawnAdmitted
  BY DEF SpawnAdmitted, SpawnDelivered, SpawnRetained, SpawnUndelivered, Holds
<1>2. PICK p \in Paths :
        /\ p = Holder.path /\ LaneInv'
        /\ \A q \in Paths : ~Creating(q)' /\ (Creating(q) <=> q = p)
  BY <1>1, LaneMovedByCreation DEF Creates, TreeInv
<1>3. CASE SpawnDelivered
  <2>. DEFINE h == [NewHandle(FALSE) EXCEPT !.task = "preparing", !.outcome = "completed"]
  <2>1. BeginRound(p, NewHandle(FALSE))
    BY <1>2, <1>3 DEF SpawnDelivered
  <2>2. /\ handle' = [handle EXCEPT ![p] = h]
        /\ (rec[p].status)' = "running" /\ \A q \in Paths \ {p} : UNCHANGED rec[q]
    BY <1>2, <2>1 DEF BeginRound, TypeOK, Records
  <2>3. h.live /\ h.task = "preparing" /\ h.close = "none"
    BY DEF NewHandle, NoHandle
  <2>. HIDE DEF h
  <2>. QED
    BY <1>2, <2>2, <2>3, HandleRegistered
<1>4. ASSUME NEW h \in {NewHandle(TRUE), [NewHandle(TRUE) EXCEPT !.close = "begun"]},
             handle' = [handle EXCEPT ![p] = h], UNCHANGED rec
      PROVE  TreeInv'
  <2>1. h.live /\ h.task = "none" /\ h.closing /\ h.close # "disposing"
    BY <1>4 DEF NewHandle, NoHandle
  <2>2. rec[p].status = "idle"
    BY <1>2 DEF TreeInv, CreatingInv
  <2>. QED
    BY <1>2, <1>4, <2>1, <2>2, HandleRegistered
<1>. QED
  BY <1>2, <1>3, <1>4 DEF SpawnRetained, SpawnUndelivered

-----------------------------------------------------------------------------
(***************************************************************************)
(* The invariant, for every step.                                          *)
(***************************************************************************)

\* Closing handle p, when nothing of it runs that is not closed first.
LEMMA CloseNextKept ==
    ASSUME TypeOK, TreeInv, LaneMoved, CloseNext
    PROVE  TreeInv'
<1>1. PICK q \in Deepest(Unclosed(Holder.path)) : handle' = [handle EXCEPT ![q] = Closing(@)]
  BY DEF CloseNext
<1>2. q \in Paths /\ Holder.path \in Above[q] /\ Open(q) /\ Holds("close", "closing")
  BY DEF CloseNext, Deepest, Unclosed, Below
<1>3. handle[q].live /\ UNCHANGED rec
  BY <1>2, LiveIsOpen DEF Creating, Holds, CloseNext
<1>4. Holder.path \in Paths \cup {Root}
  <2>1. lane[1] \in Ops
    BY <1>2 DEF TypeOK, Holds
  <2>. QED
    BY <2>1 DEF Ops, Holder
<1>5. NoOpenChild(q)
  <2>. SUFFICES ASSUME NEW c \in Paths, Parent[c] = q, Open(c) PROVE FALSE
    BY DEF NoOpenChild
  <2>1. c \in Unclosed(Holder.path)
    BY <1>2, <1>4, PathFacts DEF Unclosed, Below
  <2>2. Depth[c] <= Depth[q] /\ Depth[c] = Depth[q] + 1 /\ Depth[q] \in Nat
    BY <1>2, <2>1, DepthAssumption DEF Deepest
  <2>. QED
    BY <2>2
<1>6. /\ Closing(handle[q]).live /\ Closing(handle[q]).closing
      /\ Closing(handle[q]).task = handle[q].task
      /\ Closing(handle[q]).close = "disposing" => handle[q].close = "disposing"
  BY <1>2, <1>3 DEF Closing, TypeOK, HandleStates
<1>7. Closing(handle[q]) \in HandleStates
  BY <1>2, HandleChanged DEF TypeOK
<1>8. handle[q].close = "disposing" => handle[q].task = "none"
  BY <1>2 DEF TreeInv, DisposedAlone, RoundLive
<1>. QED
  BY <1>1, <1>2, <1>3, <1>5, <1>6, <1>7, <1>8, HandleMoved

LEMMA ClosePlannedKept ==
    ASSUME TypeOK, TreeInv, LaneMoved, ClosePlanned
    PROVE  TreeInv'
<1>1. UNCHANGED rec /\ \A p \in Paths : ~Creating(p)
  BY DEF ClosePlanned, Creating, Holds
<1>2. ASSUME NEW p \in Paths PROVE Kept(p)
  <2>1. handle[p].close # "none" => handle[p].closing /\ NoOpenChild(p)
    BY DEF TreeInv, ClosingInv
  <2>2. handle[p].close = "disposing" => ~RoundLive(p)
    BY DEF TreeInv, DisposedAlone
  <2>3. CASE p \in Unclosed(Holder.path)
    <3>1. (handle[p])' = [handle[p] EXCEPT !.closing = TRUE]
      BY <2>3 DEF ClosePlanned
    <3>2. handle[p].live
      BY <1>1, <2>3, LiveIsOpen DEF Unclosed
    <3>. QED
      BY <2>1, <2>2, <3>1, <3>2 DEF Kept, RoundLive, TypeOK, HandleStates
  <2>4. CASE p \notin Unclosed(Holder.path)
    <3>1. UNCHANGED handle[p]
      BY <2>4 DEF ClosePlanned
    <3>. QED
      BY <2>1, <2>2, <3>1 DEF Kept, RoundLive
  <2>. QED
    BY <2>3, <2>4
<1>. QED
  BY <1>1, <1>2, TreeKept

\* The task that closes a handle, and an interrupt: no round begins or ends.
LEMMA HandleStepKept ==
    ASSUME TypeOK, TreeInv, LaneMoved, NEW p \in Paths,
           \/ CloseInterrupts(p) \/ CloseInterruptFails(p) \/ CloseDisposes(p)
           \/ CloseDisposeFails(p) \/ Interrupt(p) \/ InterruptFails(p)
    PROVE  TreeInv'
<1>1. handle[p] \in HandleStates
  BY DEF TypeOK
<1>2. handle[p].close # "none" => handle[p].closing /\ NoOpenChild(p)
  BY DEF TreeInv, ClosingInv
<1>3. handle[p].close = "disposing" => handle[p].task = "none"
  BY DEF TreeInv, DisposedAlone, RoundLive
<1>4. UNCHANGED rec
  BY DEF CloseInterrupts, CloseInterruptFails, CloseDisposes, CloseDisposeFails, Interrupt,
         InterruptFails
<1>5. /\ Interrupted(handle[p]) \in HandleStates
      /\ Interrupted(handle[p]).live = handle[p].live
      /\ Interrupted(handle[p]).task = handle[p].task
      /\ Interrupted(handle[p]).close = handle[p].close
      /\ Interrupted(handle[p]).closing = handle[p].closing
  <2>1. Interrupted(handle[p]) \in HandleStates
    BY <1>1, HandleChanged
  <2>. QED
    BY <1>1, <2>1 DEF Interrupted, HandleStates
<1>6. CASE CloseInterrupts(p)
  <2>. DEFINE h == [Interrupted(handle[p]) EXCEPT !.close = "waiting"]
  <2>1. h \in HandleStates
    BY <1>5, HandleChanged
  <2>2. /\ h.live = handle[p].live /\ h.task = handle[p].task /\ h.closing = handle[p].closing
        /\ h.close = "waiting"
    BY <1>5 DEF HandleStates
  <2>3. handle' = [handle EXCEPT ![p] = h] /\ handle[p].close = "begun"
    BY <1>6 DEF CloseInterrupts
  <2>. HIDE DEF h
  <2>. QED
    BY <1>2, <1>4, <2>1, <2>2, <2>3, LiveIsOpen, HandleMoved
<1>7. CASE CloseInterruptFails(p)
  <2>. DEFINE h == [handle[p] EXCEPT !.close = "waiting", !.asked = FALSE, !.err = TRUE]
  <2>1. h \in HandleStates
    BY <1>1, HandleTurned
  <2>2. /\ h.live = handle[p].live /\ h.task = handle[p].task /\ h.closing = handle[p].closing
        /\ h.close = "waiting"
    BY <1>1 DEF HandleStates
  <2>3. handle' = [handle EXCEPT ![p] = h] /\ handle[p].close = "begun"
    BY <1>1, <1>7 DEF CloseInterruptFails, HandleStates
  <2>. HIDE DEF h
  <2>. QED
    BY <1>2, <1>4, <2>1, <2>2, <2>3, LiveIsOpen, HandleMoved
<1>8. ASSUME NEW close \in {"disposing", "failed"}, handle[p].close # "none",
             handle[p].task = "none",
             handle' = [handle EXCEPT ![p] = [handle[p] EXCEPT !.close = close]]
      PROVE  TreeInv'
  <2>. DEFINE h == [handle[p] EXCEPT !.close = close]
  <2>1. h \in HandleStates
    BY <1>1, HandleChanged
  <2>2. /\ h.live = handle[p].live /\ h.task = handle[p].task /\ h.closing = handle[p].closing
    BY <1>1 DEF HandleStates
  <2>3. handle' = [handle EXCEPT ![p] = h]
    BY <1>8
  <2>. HIDE DEF h
  <2>. QED
    BY <1>2, <1>4, <1>8, <2>1, <2>2, <2>3, LiveIsOpen, HandleMoved
<1>9. CASE CloseDisposes(p)
  BY <1>8, <1>9 DEF CloseDisposes, RoundLive
<1>10. CASE CloseDisposeFails(p)
  BY <1>3, <1>8, <1>10 DEF CloseDisposeFails
<1>11. CASE Interrupt(p)
  BY <1>2, <1>3, <1>4, <1>5, <1>11, HandleMoved DEF Interrupt
<1>12. CASE InterruptFails(p)
  <2>. DEFINE h == [handle[p] EXCEPT !.asked = FALSE]
  <2>1. h \in HandleStates
    BY <1>1, HandleChanged
  <2>2. /\ h.live = handle[p].live /\ h.task = handle[p].task /\ h.closing = handle[p].closing
        /\ h.close = handle[p].close
    BY <1>1 DEF HandleStates
  <2>3. handle' = [handle EXCEPT ![p] = h] /\ handle[p].live
    BY <1>12 DEF InterruptFails
  <2>. HIDE DEF h
  <2>. QED
    BY <1>2, <1>3, <1>4, <2>1, <2>2, <2>3, HandleMoved
<1>. QED
  BY <1>6, <1>7, <1>9, <1>10, <1>11, <1>12

LEMMA OperationKept ==
    ASSUME TypeOK, TreeInv, Operation
    PROVE  TreeInv'
<1>1. Keeps => LaneMoved
  BY LaneMovedByOperation DEF TreeInv
<1>2. CASE SpawnRefused \/ SpawnCleaned \/ CloseRefused \/ CloseReturns
  BY <1>1, <1>2, HandlesUntouched DEF Keeps, SpawnRefused, SpawnCleaned, CloseRefused, CloseReturns,
     CloseLeaves
<1>3. CASE ClosePlanned
  BY <1>1, <1>3, ClosePlannedKept DEF Keeps
<1>4. CASE CloseNext
  BY <1>1, <1>4, CloseNextKept DEF Keeps
<1>. QED
  BY <1>2, <1>3, <1>4, SpawnAdmittedKept, SpawnFailsKept, SpawnDoneKept DEF Operation

LEMMA AgentKept ==
    ASSUME TypeOK, TreeInv, NEW p \in Paths, Agent(p)
    PROVE  TreeInv'
<1>1. LaneMoved
  BY LaneMovedByAgent DEF TreeInv
<1>2. CASE RoundRuns(p) \/ RoundStops(p) \/ RoundAborts(p)
  BY <1>1, <1>2, RoundKept DEF RoundRuns, RoundStops, RoundAborts
<1>3. CASE Consumes(p)
  <2>1. handle[p].inbox - 1 \in Nat
    BY <1>3 DEF Consumes, TypeOK, HandleStates
  <2>. QED
    BY <1>1, <1>3, <2>1, InboxKept DEF Consumes, RoundLive
<1>4. CASE RoundEnds(p)
  <2>1. handle[p].outcome \in Terminal
    BY DEF TypeOK, HandleStates
  <2>. QED
    BY <1>1, <1>4, <2>1, FinishKept DEF RoundEnds, RoundLive
<1>5. CASE RoundFails(p)
  BY <1>1, <1>5, FinishKept DEF RoundFails, RoundLive, Terminal
<1>6. CASE ToolCancelled(p)
  BY <1>1, <1>6, HandlesUntouched DEF ToolCancelled
<1>7. CASE CloseCommits(p)
  BY <1>1, <1>7, CommitKept
<1>. QED
  BY <1>1, <1>2, <1>3, <1>4, <1>5, <1>6, <1>7, HandleStepKept DEF Agent

LEMMA RequestKept ==
    ASSUME TypeOK, TreeInv, NEW p \in Paths, Request(p)
    PROVE  TreeInv'
<1>1. LaneMoved
  BY LaneMovedByRequest DEF TreeInv
<1>2. CASE SendMessage(p)
  <2>1. handle[p].inbox + 1 \in Nat
    BY DEF TypeOK, HandleStates
  <2>. QED
    BY <1>1, <1>2, <2>1, DeliverKept DEF SendMessage
<1>3. CASE AwaitBegins(p)
  BY <1>1, <1>3, HandlesUntouched DEF AwaitBegins
<1>4. CASE \E by \in Paths \cup {Root}, held \in BOOLEAN :
          AskSpawn(p, by, held) \/ AskClose(p, by, held)
  BY <1>1, <1>4, HandlesUntouched DEF AskSpawn, AskClose
<1>. QED
  BY <1>1, <1>2, <1>3, <1>4, HandleStepKept DEF Request

LEMMA NoticeKept ==
    ASSUME TypeOK, TreeInv, NEW n \in mail, NoticeArrives(n)
    PROVE  TreeInv'
<1>. DEFINE p == Parent[n.from]
<1>1. LaneMoved
  BY LaneUntouched DEF NoticeArrives, TreeInv
<1>2. CASE UNCHANGED <<rec, handle>>
  BY <1>1, <1>2, HandlesUntouched
<1>3. CASE Deliverable(p) /\ Deliver(p, handle[p].inbox)
  <2>1. CASE p \in Paths
    <3>1. handle[p].inbox \in Nat
      BY <2>1 DEF TypeOK, HandleStates
    <3>. QED
      BY <1>1, <1>3, <2>1, <3>1, DeliverKept
  <2>2. CASE p \notin Paths
    BY <1>2, <1>3, <2>2 DEF Deliver, BeginRound, TypeOK
  <2>. QED
    BY <2>1, <2>2
<1>. QED
  BY <1>2, <1>3 DEF NoticeArrives

LEMMA StepKept ==
    ASSUME TypeOK, TreeInv, [Next]_vars
    PROVE  TreeInv'
<1>1. CASE AskDispose
  <2>1. LaneMoved
    BY <1>1, OpTyped, LaneJoined DEF AskDispose, Op, LaneMoved, TreeInv
  <2>. QED
    BY <1>1, <2>1, HandlesUntouched DEF AskDispose
<1>2. CASE AwaitReturns \/ UNCHANGED vars
  BY <1>2, LaneUntouched, HandlesUntouched DEF AwaitReturns, vars, TreeInv
<1>3. CASE RootAborted
  BY <1>3, LaneMovedByCancel, HandlesUntouched DEF RootAborted, TreeInv
<1>4. ASSUME NEW n \in mail, WakeEnds(n) PROVE TreeInv'
  BY <1>4, LaneUntouched, HandlesUntouched DEF WakeEnds, TreeInv
<1>. QED
  BY <1>1, <1>2, <1>3, <1>4, OperationKept, AgentKept, RequestKept, NoticeKept DEF Next

LEMMA StartsInTree == Init => TreeInv
<1>. SUFFICES ASSUME Init PROVE TreeInv
  OBVIOUS
<1>1. \A p \in Paths : /\ ~Open(p) /\ ~Creating(p)
                       /\ handle[p] = NoHandle /\ rec[p].status = "absent"
  BY OpenIs DEF Init, Creating, Holds
<1>2. LaneInv
  BY Starts
<1>. QED
  BY <1>1, <1>2 DEF TreeInv, BelowOpen, HandleInv, CreatingInv, ClosingInv, OpenHasHandle,
     RunningIsOwned, DisposedAlone, RoundLive, NoHandle

LEMMA TreeInvHolds == Spec => [](TypeOK /\ TreeInv)
<1>1. TypeOK /\ TreeInv /\ [Next]_vars => (TypeOK /\ TreeInv)'
  BY StepTyped, StepKept DEF TreeInv
<1>. QED
  BY <1>1, Starts, StartsInTree, PTL DEF Spec

\* A running record always has the one task that will report the round's end.
THEOREM RoundsAreOwned == Spec => []RunningIsOwned
  BY TreeInvHolds, PTL DEF TreeInv

\* Whatever fails while an agent is created, it stays open only with a handle
\* that can close it.
THEOREM OpenAgentsCanClose == Spec => []OpenHasHandle
  BY TreeInvHolds, PTL DEF TreeInv

\* No driver is disposed of while a round of it is live, or can still begin.
THEOREM DisposedInPeace == Spec => []DisposedAlone
  BY TreeInvHolds, PTL DEF TreeInv

-----------------------------------------------------------------------------
(***************************************************************************)
(* The tree implements AgentLifecycle.                                     *)
(***************************************************************************)

LEMMA ShownOpen ==
    \A p \in Paths : rec[p] \in Records => (Life!Open(p) <=> Open(p))
  BY OpenIs DEF Life!Open, Life!OpenPhases, Shows, Shown, Records, Statuses, Terminal

LEMMA ShownBegins ==
    ASSUME TypeOK, TreeInv, NEW p \in Paths, NEW h, BeginRound(p, h), UNCHANGED told,
           Open(p), ~RoundLive(p)
    PROVE  Life!Begins(p)
<1>1. rec[p].status \notin {"running", "absent", "closed"} /\ rec[p].status \in Statuses
  BY OpenIs DEF TreeInv, RunningIsOwned, TypeOK, Records
<1>2. Shows[p].phase \in {"idle", "over"}
  BY <1>1 DEF Shows, Shown, Statuses, Terminal
<1>3. rec'[p] = [rec[p] EXCEPT !.status = "running", !.round = @ + 1]
      /\ \A q \in Paths \ {p} : rec'[q] = rec[q]
  BY DEF BeginRound, TypeOK, Records
<1>4. Shown(rec'[p]) = [Shown(rec[p]) EXCEPT !.phase = "running", !.round = @ + 1]
  <2>1. /\ rec'[p].inc = rec[p].inc /\ rec'[p].up = rec[p].up
        /\ rec'[p].round = rec[p].round + 1 /\ rec'[p].status = "running"
    BY <1>3 DEF TypeOK, Records
  <2>2. Shown(rec'[p]) = [inc |-> rec[p].inc, round |-> rec[p].round + 1, up |-> rec[p].up,
                          phase |-> "running"]
    BY <2>1 DEF Shown, Terminal
  <2>. DEFINE s == Shown(rec[p])
              n == rec[p].round + 1
              r == [s EXCEPT !.phase = "running", !.round = n]
  <2>3. /\ s \in [inc : Nat, round : Nat, up : Nat, phase : Life!Phases] /\ n \in Nat
        /\ s.inc = rec[p].inc /\ s.up = rec[p].up /\ s.round + 1 = n
    BY DEF TypeOK, Records, Shown, Statuses, Terminal, Life!Phases
  <2>. HIDE DEF s, n
  <2>4. /\ r \in [inc : Nat, round : Nat, up : Nat, phase : Life!Phases]
        /\ r.inc = s.inc /\ r.round = n /\ r.up = s.up /\ r.phase = "running"
    BY <2>3 DEF Life!Phases
  <2>. HIDE DEF r
  <2>5. r = [inc |-> s.inc, round |-> n, up |-> s.up, phase |-> "running"]
    BY <2>4
  <2>6. r = Shown(rec'[p])
    BY <2>2, <2>3, <2>5 DEF n
  <2>7. r = [s EXCEPT !.phase = "running", !.round = @ + 1]
    BY <2>3 DEF r
  <2>. QED
    BY <2>6, <2>7 DEF s
<1>5. Shows' = [Shows EXCEPT ![p].phase = "running", ![p].round = @ + 1]
  BY <1>3, <1>4 DEF Shows
<1>. QED
  BY <1>2, <1>5 DEF Life!Begins

LEMMA ShownEnds ==
    ASSUME TypeOK, TreeInv, NEW p \in Paths, NEW outcome \in Terminal, RoundLive(p),
           Finish(p, outcome)
    PROVE  Life!Ends(p)
<1>. DEFINE status == IF handle[p].asked THEN "interrupted" ELSE outcome
<1>1. rec[p].status = "running" /\ status \in Terminal
  BY DEF TreeInv, RunningIsOwned, Terminal
<1>2. rec'[p] = [rec[p] EXCEPT !.status = status]
      /\ \A q \in Paths \ {p} : rec'[q] = rec[q]
  BY DEF Finish, TypeOK
<1>. HIDE DEF status
<1>3. Shown(rec'[p]) = [Shown(rec[p]) EXCEPT !.phase = "over"]
  BY <1>1, <1>2 DEF Shown, TypeOK, Records
<1>4. Shows' = [Shows EXCEPT ![p].phase = "over"]
  BY <1>2, <1>3 DEF Shows
<1>5. Shows[p].phase = "running" /\ Shows[p].inc = rec[p].inc /\ Shows[p].round = rec[p].round
      /\ Shows[p].up = rec[p].up
  BY <1>1 DEF Shows, Shown, Terminal
<1>6. told' = told \cup {[from |-> p, inc |-> Shows[p].inc, round |-> Shows[p].round,
                          to |-> Shows[p].up]}
  BY <1>5 DEF Finish, Notice
<1>. QED
  BY <1>4, <1>5, <1>6 DEF Life!Ends

LEMMA ShownCloses ==
    ASSUME TypeOK, TreeInv, NEW p \in Paths, Open(p), ~RoundLive(p), NoOpenChild(p),
           rec' = [rec EXCEPT ![p].status = "closed"], UNCHANGED told
    PROVE  Life!Closes(p)
<1>1. rec[p].status \notin {"running", "absent", "closed"} /\ rec[p].status \in Statuses
  BY OpenIs DEF TreeInv, RunningIsOwned, TypeOK, Records
<1>2. Shows[p].phase \in {"idle", "over"}
  BY <1>1 DEF Shows, Shown, Statuses, Terminal
<1>3. rec'[p] = [rec[p] EXCEPT !.status = "closed"]
      /\ \A q \in Paths \ {p} : rec'[q] = rec[q]
  BY DEF TypeOK
<1>4. Shown(rec'[p]) = [Shown(rec[p]) EXCEPT !.phase = "closed"]
  BY <1>3 DEF Shown, Terminal, TypeOK, Records
<1>5. Shows' = [Shows EXCEPT ![p].phase = "closed"]
  <2>1. \A q \in Paths \ {p} : Shown(rec'[q]) = Shown(rec[q])
    BY <1>3
  <2>. QED
    BY <1>4, <2>1 DEF Shows
<1>6. \A c \in Paths : Parent[c] = p => ~Life!Open(c)
  BY ShownOpen DEF NoOpenChild, TypeOK
<1>. QED
  BY <1>2, <1>5, <1>6 DEF Life!Closes

LEMMA ShownOpens ==
    ASSUME TypeOK, TreeInv, SpawnAdmitted
    PROVE  \E p \in Paths : Life!Opens(p)
<1>1. PICK p \in Paths : p = Holder.path
  BY LaneMovedByCreation DEF Creates, TreeInv
<1>2. Open(Parent[p]) /\ ~Open(p) /\ UNCHANGED told
  BY <1>1 DEF SpawnAdmitted, Admitted
<1>3. /\ ~Life!Open(p)
      /\ Parent[p] = Root \/ Life!Open(Parent[p])
  BY <1>2, ShownOpen, PathFacts DEF TypeOK
<1>4. Life!Incarnation(Parent[p]) = Incarnation(Parent[p])
  BY PathFacts DEF Life!Incarnation, Incarnation, Shows, Shown
<1>5. rec'[p] = [inc |-> rec[p].inc + 1, status |-> "idle", round |-> 0,
                 up |-> Incarnation(Parent[p])]
      /\ \A q \in Paths \ {p} : rec'[q] = rec[q]
  BY <1>1 DEF SpawnAdmitted, TypeOK
<1>6. Shown(rec'[p]) = [inc |-> Shows[p].inc + 1, phase |-> "idle", round |-> 0,
                        up |-> Incarnation(Parent[p])]
  BY <1>5 DEF Shows, Shown, Terminal
<1>7. Shows' = [Shows EXCEPT ![p] = [inc |-> @.inc + 1, phase |-> "idle", round |-> 0,
                                     up |-> Incarnation(Parent[p])]]
  BY <1>5, <1>6 DEF Shows
<1>. QED
  BY <1>2, <1>3, <1>4, <1>7 DEF Life!Opens

LEMMA ShownStutter ==
    ASSUME UNCHANGED <<rec, told>>
    PROVE  UNCHANGED Life!lifeVars
  BY DEF Shows, Shown, Life!lifeVars

LEMMA OperationShown ==
    ASSUME TypeOK, TreeInv, Operation
    PROVE  [Life!LifeNext]_(Life!lifeVars)
<1>1. CASE SpawnAdmitted
  BY <1>1, ShownOpens DEF Life!LifeNext
<1>2. ASSUME SpawnDelivered \/ SpawnFails
      PROVE  \E p \in Paths : /\ p = Holder.path /\ Creating(p)
                              /\ rec[p].status = "idle" /\ handle[p] = NoHandle /\ NoOpenChild(p)
  <2>1. ~SpawnAdmitted
    BY <1>2 DEF SpawnAdmitted, SpawnDelivered, SpawnFails, Holds
  <2>2. PICK p \in Paths : p = Holder.path /\ Creating(p)
    BY <1>2, <2>1, LaneMovedByCreation DEF Creates, TreeInv
  <2>. QED
    BY <2>2, LiveIsOpen DEF TreeInv, CreatingInv
<1>3. CASE SpawnDelivered
  <2>1. PICK p \in Paths : /\ p = Holder.path /\ Creating(p)
                           /\ rec[p].status = "idle" /\ handle[p] = NoHandle /\ NoOpenChild(p)
    BY <1>2, <1>3
  <2>2. Open(p) /\ ~RoundLive(p)
    BY <2>1, OpenIs DEF RoundLive, NoHandle
  <2>3. BeginRound(p, NewHandle(FALSE)) /\ UNCHANGED told
    BY <1>3, <2>1 DEF SpawnDelivered
  <2>. QED
    BY <2>2, <2>3, ShownBegins DEF Life!LifeNext
<1>4. CASE SpawnFails
  <2>1. PICK p \in Paths : /\ p = Holder.path /\ Creating(p)
                           /\ rec[p].status = "idle" /\ handle[p] = NoHandle /\ NoOpenChild(p)
    BY <1>2, <1>4
  <2>2. Open(p) /\ ~RoundLive(p)
    BY <2>1, OpenIs DEF RoundLive, NoHandle
  <2>3. rec' = [rec EXCEPT ![p].status = "closed"] /\ UNCHANGED told
    BY <1>4, <2>1 DEF SpawnFails
  <2>. QED
    BY <2>1, <2>2, <2>3, ShownCloses DEF Life!LifeNext
<1>5. CASE ~(SpawnAdmitted \/ SpawnDelivered \/ SpawnFails)
  <2>1. UNCHANGED <<rec, told>>
    BY <1>5 DEF Operation, SpawnRefused, SpawnRetained, SpawnUndelivered, SpawnCleaned,
                ClosePlanned, CloseRefused, CloseNext, CloseReturns, CloseLeaves
  <2>. QED
    BY <2>1, ShownStutter
<1>. QED
  BY <1>1, <1>3, <1>4, <1>5

LEMMA AgentShown ==
    ASSUME TypeOK, TreeInv, NEW p \in Paths, Agent(p)
    PROVE  [Life!LifeNext]_(Life!lifeVars)
<1>1. CASE RoundEnds(p)
  <2>1. handle[p].outcome \in Terminal
    BY DEF TypeOK, HandleStates
  <2>. QED
    BY <1>1, <2>1, ShownEnds DEF RoundEnds, RoundLive, Life!LifeNext
<1>2. CASE RoundFails(p)
  BY <1>2, ShownEnds DEF RoundFails, RoundLive, Terminal, Life!LifeNext
<1>3. CASE CloseCommits(p)
  <2>1. Open(p) /\ ~RoundLive(p) /\ NoOpenChild(p)
    BY <1>3, LiveIsOpen DEF CloseCommits, TreeInv, ClosingInv, DisposedAlone
  <2>. QED
    BY <1>3, <2>1, ShownCloses DEF CloseCommits, Life!LifeNext
<1>4. CASE ~(RoundEnds(p) \/ RoundFails(p) \/ CloseCommits(p))
  <2>1. UNCHANGED <<rec, told>>
    BY <1>4 DEF Agent, Round, RoundRuns, Consumes, RoundStops, RoundAborts, ToolCancelled,
                CloseInterrupts, CloseInterruptFails, CloseDisposes, CloseDisposeFails
  <2>. QED
    BY <2>1, ShownStutter
<1>. QED
  BY <1>1, <1>2, <1>3, <1>4

LEMMA DeliverShown ==
    ASSUME TypeOK, TreeInv, NEW p \in Paths, Deliverable(p), NEW n, Deliver(p, n), UNCHANGED told
    PROVE  [Life!LifeNext]_(Life!lifeVars)
<1>1. CASE UNCHANGED rec
  BY <1>1, ShownStutter
<1>2. CASE ~RoundLive(p) /\ BeginRound(p, [handle[p] EXCEPT !.inbox = n])
  BY <1>2, ShownBegins DEF Deliverable, Life!LifeNext
<1>. QED
  BY <1>1, <1>2 DEF Deliver

LEMMA RequestShown ==
    ASSUME TypeOK, TreeInv, NEW p \in Paths, Request(p)
    PROVE  [Life!LifeNext]_(Life!lifeVars)
<1>1. CASE SendMessage(p)
  BY <1>1, DeliverShown DEF SendMessage
<1>2. CASE ~SendMessage(p)
  <2>1. UNCHANGED <<rec, told>>
    BY <1>2 DEF Request, Interrupt, InterruptFails, AwaitBegins, AskSpawn, AskClose
  <2>. QED
    BY <2>1, ShownStutter
<1>. QED
  BY <1>1, <1>2

LEMMA StepShown ==
    ASSUME TypeOK, TreeInv, [Next]_vars
    PROVE  [Life!LifeNext]_(Life!lifeVars)
<1>1. ASSUME NEW n \in mail, NoticeArrives(n) PROVE [Life!LifeNext]_(Life!lifeVars)
  <2>1. CASE UNCHANGED rec
    BY <1>1, <2>1, ShownStutter DEF NoticeArrives
  <2>2. CASE Deliverable(Parent[n.from])
             /\ Deliver(Parent[n.from], handle[Parent[n.from]].inbox)
    <3>1. CASE Parent[n.from] \in Paths
      BY <1>1, <2>2, <3>1, DeliverShown DEF NoticeArrives
    <3>2. CASE Parent[n.from] \notin Paths
      BY <2>1, <2>2, <3>2 DEF Deliver, BeginRound, TypeOK
    <3>. QED
      BY <3>1, <3>2
  <2>. QED
    BY <1>1, <2>1, <2>2 DEF NoticeArrives
<1>2. CASE AskDispose \/ AwaitReturns \/ RootAborted \/ UNCHANGED vars
  BY <1>2, ShownStutter DEF AskDispose, AwaitReturns, RootAborted, vars
<1>3. ASSUME NEW n \in mail, WakeEnds(n) PROVE [Life!LifeNext]_(Life!lifeVars)
  BY <1>3, ShownStutter DEF WakeEnds
<1>. QED
  BY <1>1, <1>2, <1>3, OperationShown, AgentShown, RequestShown DEF Next

\* The tree of records, handles, operations and failures behaves as
\* AgentLifecycle says: with its theorems, open agents are below the open
\* incarnation that spawned them, and the end of every round is told once, to a
\* parent that is open then.
THEOREM TreeImplementsLifecycle == Spec => ImplementsLifecycle
<1>1. Init => Life!LifeInit
  BY DEF Init, Life!LifeInit, Shows, Shown, Terminal
<1>2. TypeOK /\ TreeInv /\ [Next]_vars => [Life!LifeNext]_(Life!lifeVars)
  BY StepShown
<1>. QED
  BY <1>1, <1>2, TreeInvHolds, PTL DEF Spec, ImplementsLifecycle, Life!LifeSpec

-----------------------------------------------------------------------------
(***************************************************************************)
(* Awaiting a completion.  The waiter remembers a round that is live or has*)
(* been reported: a live round is left, in any step, only by its report.   *)
(***************************************************************************)

WaitedTold == \E n \in told : n.from = waiter.on /\ n.inc = waiter.inc /\ n.round = waiter.round

WaitInv == waiter # NoWaiter => waiter.on \in Paths /\ (AwaitedLive \/ WaitedTold)

\* A live round goes on or is reported, and what was reported stays so.
LEMMA RoundReported ==
    ASSUME TypeOK, TreeInv, [Next]_vars
    PROVE  /\ told \subseteq told'
           /\ \A p \in Paths : RoundLive(p) =>
                \/ RoundLive(p)' /\ rec'[p].inc = rec[p].inc /\ rec'[p].round = rec[p].round
                \/ \E n \in told' : /\ n.from = p /\ n.inc = rec[p].inc
                                     /\ n.round = rec[p].round
<1>1. [Life!LifeNext]_(Life!lifeVars) /\ TreeInv'
  BY StepShown, StepKept
<1>2. told \subseteq told'
  BY <1>1 DEF Life!LifeNext, Life!lifeVars, Life!Opens, Life!Begins, Life!Ends, Life!Closes
<1>3. ASSUME NEW p \in Paths, RoundLive(p)
      PROVE  \/ RoundLive(p)' /\ rec'[p].inc = rec[p].inc /\ rec'[p].round = rec[p].round
             \/ \E n \in told' : /\ n.from = p /\ n.inc = rec[p].inc
                                  /\ n.round = rec[p].round
  <2>1. Shows[p].phase = "running" /\ Shows[p].inc = rec[p].inc /\ Shows[p].round = rec[p].round
    BY <1>3 DEF TreeInv, RunningIsOwned, Shows, Shown, Terminal
  <2>2. CASE Shows'[p] = Shows[p]
    <3>1. Shown(rec'[p]) = Shown(rec[p])
      BY <2>2 DEF Shows
    <3>2. /\ rec'[p].inc = rec[p].inc /\ rec'[p].round = rec[p].round
          /\ rec'[p].status = "running"
      BY <1>3, <3>1 DEF Shown, TreeInv, RunningIsOwned, Terminal
    <3>. QED
      BY <1>1, <3>2 DEF TreeInv, RunningIsOwned
  <2>3. CASE \E q \in Paths \ {p} :
               Life!Opens(q) \/ Life!Begins(q) \/ Life!Ends(q) \/ Life!Closes(q)
    <3>1. DOMAIN Shows = Paths /\ Shows = [q \in Paths |-> Shows[q]]
      BY DEF Shows
    <3>2. Shows'[p] = Shows[p]
      BY <2>3, <3>1 DEF Life!Opens, Life!Begins, Life!Ends, Life!Closes
    <3>. QED
      BY <2>2, <3>2
  <2>4. CASE Life!Ends(p)
    <3>. DEFINE n == [from |-> p, inc |-> Shows[p].inc, round |-> Shows[p].round,
                      to |-> Shows[p].up]
    <3>1. n \in told' /\ n.from = p /\ n.inc = Shows[p].inc /\ n.round = Shows[p].round
      BY <2>4 DEF Life!Ends
    <3>. HIDE DEF n
    <3>. QED
      BY <2>1, <3>1
  <2>5. ~(Life!Opens(p) \/ Life!Begins(p) \/ Life!Closes(p))
    BY <2>1 DEF Life!Opens, Life!Begins, Life!Closes, Life!Open, Life!OpenPhases
  <2>6. CASE UNCHANGED Life!lifeVars
    <3>1. Shows' = Shows
      BY <2>6 DEF Life!lifeVars
    <3>. QED
      BY <2>2, <3>1
  <2>7. CASE Life!LifeNext
    BY <2>3, <2>4, <2>5, <2>7 DEF Life!LifeNext
  <2>. QED
    BY <1>1, <2>6, <2>7
<1>. QED
  BY <1>2, <1>3

LEMMA WaiterStays ==
    ASSUME [Next]_vars, ~AwaitReturns, \A p \in Paths : ~AwaitBegins(p)
    PROVE  UNCHANGED waiter
<1>1. CASE Operation
  BY <1>1 DEF Operation, SpawnAdmitted, SpawnRefused, SpawnDelivered, SpawnFails, SpawnRetained,
     SpawnUndelivered, SpawnCleaned, ClosePlanned, CloseRefused, CloseNext, CloseReturns,
     CloseLeaves
<1>2. ASSUME NEW p \in Paths, Agent(p) PROVE UNCHANGED waiter
  BY <1>2 DEF Agent, Round, RoundRuns, Consumes, RoundStops, RoundAborts, RoundEnds, RoundFails,
     Finish, ToolCancelled, CloseInterrupts, CloseInterruptFails, CloseDisposes, CloseCommits,
     CloseDisposeFails
<1>3. ASSUME NEW p \in Paths, Request(p) PROVE UNCHANGED waiter
  BY <1>3 DEF Request, SendMessage, Interrupt, InterruptFails, AskSpawn, AskClose
<1>4. CASE AskDispose \/ RootAborted \/ (\E n \in mail : NoticeArrives(n) \/ WakeEnds(n))
           \/ UNCHANGED vars
  BY <1>4 DEF AskDispose, RootAborted, NoticeArrives, WakeEnds, vars
<1>. QED
  BY <1>1, <1>2, <1>3, <1>4 DEF Next

LEMMA WaitKept ==
    ASSUME TypeOK, TreeInv, WaitInv, [Next]_vars
    PROVE  WaitInv'
<1>1. CASE AwaitReturns
  BY <1>1 DEF AwaitReturns, WaitInv, NoWaiter
<1>2. ASSUME NEW p \in Paths, AwaitBegins(p) PROVE WaitInv'
  BY <1>2 DEF AwaitBegins, WaitInv, AwaitedLive, RoundLive
<1>3. CASE UNCHANGED waiter
  <2>. SUFFICES ASSUME waiter # NoWaiter PROVE waiter.on \in Paths /\ (AwaitedLive' \/ WaitedTold')
    BY <1>3 DEF WaitInv, NoWaiter
  <2>1. waiter.on \in Paths /\ (AwaitedLive \/ WaitedTold)
    BY DEF WaitInv
  <2>2. CASE WaitedTold
    <3>1. told \subseteq told'
      BY RoundReported
    <3>. QED
      BY <1>3, <2>1, <2>2, <3>1 DEF WaitedTold
  <2>3. CASE AwaitedLive
    <3>. DEFINE p == waiter.on
    <3>1. /\ p \in Paths /\ RoundLive(p)
          /\ rec[p].inc = waiter.inc /\ rec[p].round = waiter.round
      BY <2>1, <2>3 DEF AwaitedLive
    <3>2. \/ RoundLive(p)' /\ rec'[p].inc = rec[p].inc /\ rec'[p].round = rec[p].round
          \/ \E n \in told' : n.from = p /\ n.inc = rec[p].inc /\ n.round = rec[p].round
      <4>1. \A q \in Paths : RoundLive(q) =>
              \/ RoundLive(q)' /\ rec'[q].inc = rec[q].inc /\ rec'[q].round = rec[q].round
              \/ \E n \in told' : n.from = q /\ n.inc = rec[q].inc /\ n.round = rec[q].round
        BY RoundReported
      <4>. QED
        BY <1>3, <3>1, <4>1 DEF RoundLive
    <3>. QED
      BY <1>3, <3>1, <3>2 DEF AwaitedLive, WaitedTold, RoundLive
  <2>. QED
    BY <2>1, <2>2, <2>3
<1>. QED
  BY <1>1, <1>2, <1>3, WaiterStays

\* The caller of await_completion comes back only after the round it awaited has
\* been reported, whatever became of the agent meanwhile: closed, spawned again
\* under the same path, or several rounds further.
THEOREM AwaitedIsTold == Spec => AwaitedRoundTold
<1>1. Init => WaitInv
  BY DEF Init, WaitInv, NoWaiter
<1>2. TypeOK /\ TreeInv /\ WaitInv /\ [Next]_vars => WaitInv'
  BY WaitKept
<1>3. WaitInv /\ [Next]_vars =>
        [waiter # NoWaiter /\ waiter' = NoWaiter =>
           \E n \in told : n.from = waiter.on /\ n.inc = waiter.inc /\ n.round = waiter.round]_vars
  BY WaiterStays DEF WaitInv, WaitedTold, AwaitReturns, AwaitBegins
<1>. QED
  BY <1>1, <1>2, <1>3, TreeInvHolds, PTL DEF Spec, AwaitedRoundTold

-----------------------------------------------------------------------------
(***************************************************************************)
(* After dispose.  The close of the root leaves the fence closed only when *)
(* no path at all is open, because every path is below the root; and a     *)
(* closed fence admits no spawn.                                           *)
(***************************************************************************)

QuietInv == fence = "closed" => mail = {} /\ \A p \in Paths : ~Open(p)

\* The order < of the naturals, as a set of pairs.
Less == {pair \in Nat \X Nat : pair[1] < pair[2]}

\* A set of paths that has the path above each of its paths has the root.
LEMMA RootAbove ==
    ASSUME NEW p \in Paths
    PROVE  Root \in Above[p]
<1>. SUFFICES ASSUME NEW S \in SUBSET (Paths \cup {Root}), p \in S, Closed(S)
     PROVE  Root \in S
  BY DEF Above
<1>. DEFINE depths == {Depth[q] : q \in S}
<1>1. depths \subseteq Nat /\ depths # {}
  BY DepthAssumption
<1>2. IsWellFoundedOn(Less, Nat)
  BY NatLessThanWellFounded, Zenon DEF OpToRel, Less
<1>. HIDE DEF depths
<1>3. PICK d \in depths : \A e \in depths : ~(<<e, d>> \in Less)
  BY <1>1, <1>2, WFMin, Zenon
<1>4. ASSUME NEW e \in depths PROVE d <= e
  <2>1. <<e, d>> \notin Less
    BY <1>3, Zenon
  <2>2. e \in Nat /\ d \in Nat
    BY <1>1, <1>3
  <2>3. ~(e < d)
    BY <2>1, <2>2 DEF Less
  <2>. QED
    BY <2>2, <2>3
<1>5. PICK q \in S : Depth[q] = d
  BY <1>3 DEF depths
<1>6. CASE q # Root
  <2>1. q \in Paths /\ Parent[q] \in S
    BY <1>6 DEF Closed
  <2>2. Depth[q] = Depth[Parent[q]] + 1 /\ Depth[Parent[q]] \in Nat
    BY <2>1, DepthAssumption
  <2>3. Depth[Parent[q]] \in depths
    BY <2>1 DEF depths
  <2>. QED
    BY <1>4, <1>5, <2>2, <2>3
<1>. QED
  BY <1>5, <1>6

\* When nothing is open any more, and nothing may be, nothing happens to records.
LEMMA QuietStays ==
    ASSUME TypeOK, TreeInv, [Next]_vars, fence = "closed", mail = {}, \A p \in Paths : ~Open(p)
    PROVE  UNCHANGED rec /\ mail' = {}
<1>1. \A p \in Paths : /\ ~Creating(p) /\ handle[p].task = "none" /\ handle[p].close = "none"
                       /\ ~Deliverable(p)
  BY OpenIs, LiveIsOpen DEF TreeInv, CreatingInv, Deliverable
<1>2. CASE Operation
  <2>1. ~SpawnAdmitted
    BY DEF SpawnAdmitted, Admitted, Accepting
  <2>2. ~SpawnDelivered /\ ~SpawnFails
    <3>. SUFFICES ASSUME SpawnDelivered \/ SpawnFails PROVE FALSE
      OBVIOUS
    <3>1. PICK p \in Paths : Creating(p)
      BY <2>1, LaneMovedByCreation DEF Creates, TreeInv
    <3>. QED
      BY <1>1, <3>1
  <2>. QED
    BY <1>2, <2>1, <2>2 DEF Operation, SpawnRefused, SpawnRetained, SpawnUndelivered, SpawnCleaned,
       ClosePlanned, CloseRefused, CloseNext, CloseReturns, CloseLeaves
<1>3. ASSUME NEW p \in Paths, Agent(p) PROVE UNCHANGED rec /\ mail' = {}
  <2>1. ~(RoundEnds(p) \/ RoundFails(p) \/ CloseCommits(p))
    BY <1>1 DEF RoundEnds, RoundFails, RoundLive, CloseCommits
  <2>. QED
    BY <1>3, <2>1 DEF Agent, Round, RoundRuns, Consumes, RoundStops, RoundAborts, ToolCancelled,
       CloseInterrupts, CloseInterruptFails, CloseDisposes, CloseDisposeFails
<1>4. ASSUME NEW p \in Paths, Request(p) PROVE UNCHANGED rec /\ mail' = {}
  <2>1. ~SendMessage(p)
    BY <1>1 DEF SendMessage
  <2>. QED
    BY <1>4, <2>1 DEF Request, Interrupt, InterruptFails, AwaitBegins, AskSpawn, AskClose
<1>5. CASE AskDispose \/ AwaitReturns \/ RootAborted \/ UNCHANGED vars
  BY <1>5 DEF AskDispose, AwaitReturns, RootAborted, vars
<1>. QED
  BY <1>2, <1>3, <1>4, <1>5 DEF Next

\* Only the close of the root closes the fence.
LEMMA FenceCloses ==
    ASSUME [Next]_vars, fence # "closed", fence' = "closed"
    PROVE  CloseReturns
<1>1. CASE Operation /\ ~CloseReturns
  BY <1>1 DEF Operation, SpawnAdmitted, SpawnRefused, SpawnDelivered, SpawnFails, SpawnRetained,
     SpawnUndelivered, SpawnCleaned, ClosePlanned, CloseRefused, CloseNext
<1>2. ASSUME NEW p \in Paths, Agent(p) PROVE UNCHANGED fence
  BY <1>2 DEF Agent, Round, RoundRuns, Consumes, RoundStops, RoundAborts, RoundEnds, RoundFails,
     Finish, ToolCancelled, CloseInterrupts, CloseInterruptFails, CloseDisposes, CloseCommits,
     CloseDisposeFails
<1>3. ASSUME NEW p \in Paths, Request(p) PROVE UNCHANGED fence
  BY <1>3 DEF Request, SendMessage, Interrupt, InterruptFails, AwaitBegins, AskSpawn, AskClose
<1>4. CASE AskDispose \/ AwaitReturns \/ RootAborted
           \/ (\E n \in mail : NoticeArrives(n) \/ WakeEnds(n)) \/ UNCHANGED vars
  BY <1>4 DEF AskDispose, AwaitReturns, RootAborted, NoticeArrives, WakeEnds, vars
<1>. QED
  BY <1>1, <1>2, <1>3, <1>4 DEF Next

LEMMA QuietKept ==
    ASSUME TypeOK, TreeInv, QuietInv, [Next]_vars
    PROVE  QuietInv'
<1>1. CASE fence = "closed"
  <2>1. UNCHANGED rec /\ mail' = {}
    BY <1>1, QuietStays DEF QuietInv
  <2>. QED
    BY <1>1, <2>1 DEF QuietInv, Open
<1>2. CASE fence # "closed" /\ fence' = "closed"
  <2>1. CloseReturns
    BY <1>2, FenceCloses
  <2>2. Unclosed(Root) = {} /\ mail = {} /\ UNCHANGED <<rec, mail>>
    BY <1>2, <2>1 DEF CloseReturns, CloseLeaves, PlanDone, Broken
  <2>3. \A p \in Paths : ~Open(p)
    BY <2>2, RootAbove DEF Unclosed, Below
  <2>. QED
    BY <2>2, <2>3 DEF QuietInv, Open
<1>. QED
  BY <1>1, <1>2 DEF QuietInv

\* Once dispose has succeeded there is no open agent, no handle and no notice on its
\* way, and there never is again, whatever was asked of the session meanwhile.
THEOREM DisposedIsQuiet == Spec => []DisposedQuiet
<1>1. Init => QuietInv
  BY DEF Init, QuietInv
<1>2. TypeOK /\ TreeInv /\ QuietInv /\ [Next]_vars => QuietInv'
  BY QuietKept
<1>3. TreeInv /\ QuietInv => DisposedQuiet
  BY LiveIsOpen DEF QuietInv, DisposedQuiet
<1>. QED
  BY <1>1, <1>2, <1>3, TreeInvHolds, PTL DEF Spec
=============================================================================
