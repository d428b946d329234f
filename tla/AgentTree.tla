------------------------------- MODULE AgentTree ------------------------------
(***************************************************************************)
(* The live agent tree of one session: the registry of records, the        *)
(* control plane over it, one run handle per open agent and the session    *)
(* runtime that owns the handles.                                          *)
(*                                                                         *)
(*   src/src/loushang/harness/multiagent/registry.py, control.py,          *)
(*   run_handle.py; src/src/loushang/harness/session/multiagent.py,        *)
(*   subagent.py (the driver of a child session)                           *)
(*                                                                         *)
(* All of it runs on one event loop, so an action is what happens between  *)
(* two awaits. Nothing is awaited while a handle's _state_lock is held,    *)
(* so that lock never makes a step wait and is not modelled; the session's *)
(* _operation_lock is held across awaits and is the head of `lane`.        *)
(*                                                                         *)
(* Left out: progress and usage counters, workspaces and artifacts, message*)
(* text and kinds, agent types (their limits are MaxOpen), authority other *)
(* than "self and descendants", observers of facts. The root agent belongs *)
(* to the product: of it there are only the turns that a notice wakes and  *)
(* the tool calls they wait for.                                           *)
(***************************************************************************)
EXTENDS AgentPaths, Sequences, SequencesExt

CONSTANTS
    MaxOpen,    \* ControlLimits.max_open_agents, the root included
    MaxIncs,    \* bound: incarnations of a path
    MaxSends,   \* bound: messages after the initial prompts
    MaxOps,     \* bound: spawns, closes and disposals asked for
    MaxAborts,  \* bound: interrupts asked for
    MaxAwaits,  \* bound: completions awaited
    MaxFaults   \* bound: failures of the factory, of a driver or of a round

ASSUME BoundAssumption ==
    /\ {MaxOpen, MaxIncs} \subseteq Nat \ {0}
    /\ {MaxSends, MaxOps, MaxAborts, MaxAwaits, MaxFaults} \subseteq Nat

VARIABLES
    rec,        \* AgentRegistry._records: the latest incarnation of each path
    handle,     \* SessionMultiAgentRuntime._handles, with each handle's driver
    lane,       \* the operations that hold (the head) or wait for _operation_lock
    fence,      \* _disposing and _closed
    told,       \* MultiAgentControl._notices
    mail,       \* _notice_tasks: notices on their way to a child's handle, and
                \* those whose task runs a turn of the root agent
    waiter,     \* one caller of await_completion
    policy,     \* notice_wake_policy
    left        \* what is left of the bounds

vars == <<rec, handle, lane, fence, told, mail, waiter, policy, left>>

Statuses == {"absent", "idle", "running", "completed", "failed", "interrupted", "closed"}
Terminal == {"completed", "failed", "interrupted"}
Policies == {"queue_only", "wake_if_idle", "discard"}

-----------------------------------------------------------------------------
\* Records and handles.

\* The root record never changes: it is open, in its first incarnation.
Open(p) == p # Root => rec[p].status \notin {"absent", "closed"}

Incarnation(p) == IF p = Root THEN 1 ELSE rec[p].inc

NoHandle == [live |-> FALSE, closing |-> FALSE, task |-> "none", asked |-> FALSE,
             heard |-> FALSE, outcome |-> "completed", inbox |-> 0, close |-> "none",
             err |-> FALSE]

NewHandle(cleanupOnly) == [NoHandle EXCEPT !.live = TRUE, !.closing = cleanupOnly]

\* A task of the handle owns the current round until it has recorded its end.
RoundLive(p) == handle[p].task # "none"

\* The session may start work: neither disposing nor disposed.
Accepting == fence = "open"

-----------------------------------------------------------------------------
\* Operations: the head of the lane holds _operation_lock, the others wait in
\* turn. `by` and `inc` are the caller, Root for the host and the root agent;
\* `held` while a turn waits for the answer; `at` is the path being closed, Root
\* for none.

Op(kind, p, by, held) ==
    [kind |-> kind, path |-> p, by |-> by, inc |-> Incarnation(by), held |-> held,
     phase |-> "queued", at |-> Root, err |-> FALSE]

Holder == lane[1]
Holds(kind, phase) == lane # <<>> /\ Holder.kind = kind /\ Holder.phase = phase

\* The factory of p is awaited, or cleans up.
Creating(p) == (Holds("spawn", "creating") \/ Holds("spawn", "failing")) /\ Holder.path = p

Step(phase) == [lane EXCEPT ![1].phase = phase]
Released == Tail(lane)

\* The operations the tool calls of agent p wait for.
OpsOf(p) == {i \in DOMAIN lane : lane[i].by = p /\ lane[i].held}

\* The turns of the root agent that notices have woken.
WokenIn(notices) == {n \in notices : Parent[n.from] = Root}

\* A tool of agent p runs inside a turn of p's round, or inside a woken turn of
\* the root (one call of an agent at a time here). The host's own calls, and
\* those of turns that no notice woke, hold no task of the tree.
MayCall(p, held) ==
    \/ p = Root /\ ~held
    \/ p = Root /\ held /\ WokenIn(mail) # {} /\ OpsOf(Root) = {}
    \/ p # Root /\ held /\ handle[p].task = "turns" /\ OpsOf(p) = {}

\* _validate_caller: the calling agent is still the open incarnation.
CallerOpen == Open(Holder.by) /\ Incarnation(Holder.by) = Holder.inc

Asked == left.ops > 0 /\ left' = [left EXCEPT !.ops = @ - 1]

Fault == left.faults > 0 /\ left' = [left EXCEPT !.faults = @ - 1]

-----------------------------------------------------------------------------
Init ==
    /\ rec = [p \in Paths |-> [inc |-> 0, status |-> "absent", round |-> 0, up |-> 0]]
    /\ handle = [p \in Paths |-> NoHandle]
    /\ lane = <<>>
    /\ fence = "open"
    /\ told = {}
    /\ mail = {}
    /\ waiter = [on |-> Root, inc |-> 0, round |-> 0]
    /\ policy \in Policies
    /\ left = [ops |-> MaxOps, sends |-> MaxSends, aborts |-> MaxAborts,
               awaits |-> MaxAwaits, faults |-> MaxFaults]

-----------------------------------------------------------------------------
(***************************************************************************)
(* Spawning.                                                               *)
(***************************************************************************)

\* The spawn_agent tool, or the host, enters spawn_child. An agent controls
\* itself and its descendants.
AskSpawn(p, by, held) ==
    /\ MayCall(by, held) /\ by \in Above[Parent[p]]
    /\ rec[p].inc + Cardinality({i \in DOMAIN lane : lane[i].path = p}) < MaxIncs
    /\ Asked
    /\ lane' = Append(lane, Op("spawn", p, by, held))
    /\ UNCHANGED <<rec, handle, fence, told, mail, waiter, policy>>

\* An open handle above p is closing: its subtree takes no new agents.
Fenced(p) == \E q \in Above[Parent[p]] \ {Root} : handle[q].closing /\ Open(q)

\* check_spawn, and the registry's own test that the name is free.
Admitted(p) ==
    /\ Accepting /\ ~Fenced(p) /\ CallerOpen
    /\ Open(Parent[p]) /\ ~Open(p)
    /\ Cardinality({q \in Paths : Open(q)}) + 1 < MaxOpen

\* The record is reserved and committed, then the factory is awaited.
SpawnAdmitted ==
    /\ Holds("spawn", "queued") /\ Admitted(Holder.path)
    /\ LET p == Holder.path IN
         rec' = [rec EXCEPT ![p] = [inc |-> @.inc + 1, status |-> "idle", round |-> 0,
                                    up |-> Incarnation(Parent[p])]]
    /\ lane' = Step("creating")
    /\ UNCHANGED <<handle, fence, told, mail, waiter, policy, left>>

SpawnRefused ==
    /\ Holds("spawn", "queued")
    /\ ~Admitted(Holder.path)
    /\ lane' = Released
    /\ UNCHANGED <<rec, handle, fence, told, mail, waiter, policy, left>>

\* begin_round for agent p, whose handle becomes h: the round and the task
\* that owns it are created in one step.
BeginRound(p, h) ==
    /\ rec' = [rec EXCEPT ![p].status = "running", ![p].round = @ + 1]
    /\ handle' = [handle EXCEPT ![p] = [h EXCEPT !.task = "preparing", !.outcome = "completed"]]

\* The factory returned a driver: the handle is registered and the initial
\* prompt starts round 1 before anything else is awaited.
SpawnDelivered ==
    /\ Holds("spawn", "creating")
    /\ BeginRound(Holder.path, NewHandle(FALSE))
    /\ lane' = Released
    /\ UNCHANGED <<fence, told, mail, waiter, policy, left>>

\* The factory failed, or was cancelled, and cleaned up after itself: there is
\* no driver and the record is closed.
SpawnFails ==
    /\ \/ Holds("spawn", "creating") /\ Fault
       \/ Holds("spawn", "failing") /\ UNCHANGED left
    /\ rec' = [rec EXCEPT ![Holder.path].status = "closed"]
    /\ lane' = Released
    /\ UNCHANGED <<handle, fence, told, mail, waiter, policy>>

\* Mutant of SpawnRetained: the driver that still owns resources is dropped.
SpawnUnretained ==
    /\ Holds("spawn", "creating") \/ Holds("spawn", "failing")
    /\ Fault
    /\ lane' = Released
    /\ UNCHANGED <<rec, handle, fence, told, mail, waiter, policy>>

\* The factory failed and could not clean up (SessionSubagentCreationError):
\* the agent stays open under a handle that can only close.
SpawnRetained ==
    /\ Holds("spawn", "creating") \/ Holds("spawn", "failing")
    /\ Fault
    /\ handle' = [handle EXCEPT ![Holder.path] = NewHandle(TRUE)]
    /\ lane' = Released
    /\ UNCHANGED <<rec, fence, told, mail, waiter, policy>>

\* The initial prompt could not be delivered: the handle is closed, under the
\* lock, before the failure is reported. The task that closes it is the next to
\* run, so no other step sees the handle between the two.
SpawnUndelivered ==
    /\ Holds("spawn", "creating") /\ Fault
    /\ handle' = [handle EXCEPT ![Holder.path] = [NewHandle(TRUE) EXCEPT !.close = "begun"]]
    /\ lane' = Step("cleanup")
    /\ UNCHANGED <<rec, fence, told, mail, waiter, policy>>

SpawnCleaned ==
    /\ Holds("spawn", "cleanup")
    /\ handle[Holder.path].close \in {"none", "failed"}
    /\ lane' = Released
    /\ UNCHANGED <<rec, handle, fence, told, mail, waiter, policy, left>>

\* Mutant of ToolCancelled: a call that waits for the lock is not cancelled.
ToolUncancelled(p) ==
    /\ handle[p].heard
    /\ \E i \in OpsOf(p) :
        /\ lane[i].kind = "close"
        /\ lane' = [lane EXCEPT ![i].held = FALSE]
    /\ UNCHANGED <<rec, handle, fence, told, mail, waiter, policy, left>>

\* A tool call of agent p is cancelled. A spawn that waits leaves the lane, one
\* in the factory has it clean up, a cleanup goes on without its caller. A close
\* belongs to a task of its own and goes on.
CancelsCall(p) ==
    \E i \in OpsOf(p) :
        \/ /\ lane[i].kind = "spawn" /\ lane[i].phase = "creating"
           /\ lane' = [lane EXCEPT ![i].phase = "failing"]
        \/ /\ lane[i].kind = "spawn" /\ lane[i].phase \in {"queued", "cleanup"}
           /\ lane' = RemoveAt(lane, i)
        \/ /\ lane[i].kind = "close"
           /\ lane' = [lane EXCEPT ![i].held = FALSE]

\* The agent that called was aborted, and its tool is cancelled.
ToolCancelled(p) ==
    /\ handle[p].heard
    /\ CancelsCall(p)
    /\ UNCHANGED <<rec, handle, fence, told, mail, waiter, policy, left>>

\* The product aborts the root agent while a tool call of a woken turn waits.
\* Nothing in the tree makes it do so.
RootAborted ==
    /\ CancelsCall(Root)
    /\ left.aborts > 0 /\ left' = [left EXCEPT !.aborts = @ - 1]
    /\ UNCHANGED <<rec, handle, fence, told, mail, waiter, policy>>

-----------------------------------------------------------------------------
(***************************************************************************)
(* Rounds and messages.                                                    *)
(***************************************************************************)

\* The handle of the current incarnation of p takes messages.
Deliverable(p) == Open(p) /\ handle[p].live /\ ~handle[p].closing

\* handle.deliver of a message that leaves the inbox at n: a round begins only
\* when no task owns one.
Deliver(p, n) ==
    LET h == [handle[p] EXCEPT !.inbox = n] IN
    \/ RoundLive(p) /\ handle' = [handle EXCEPT ![p] = h] /\ UNCHANGED rec
    \/ ~RoundLive(p) /\ BeginRound(p, h)

\* send_message takes no lock.
SendMessage(p) ==
    /\ Accepting /\ Deliverable(p)
    /\ left.sends > 0 /\ left' = [left EXCEPT !.sends = @ - 1]
    /\ Deliver(p, handle[p].inbox + 1)
    /\ UNCHANGED <<lane, fence, told, mail, waiter, policy>>

Round(p, from, to) ==
    /\ handle[p].task = from
    /\ handle' = [handle EXCEPT ![p].task = to,
                                ![p].outcome =
                                    IF handle[p].heard THEN "interrupted" ELSE "completed"]
    /\ UNCHANGED <<rec, lane, fence, told, mail, waiter, policy, left>>

\* The input is prepared (commands, preflight, compaction) before the session's
\* host runs the agent.
RoundRuns(p) == Round(p, "preparing", "turns")

\* The agent polls its queue between turns and takes one message.
Consumes(p) ==
    /\ handle[p].task = "turns" /\ handle[p].inbox > 0
    /\ handle' = [handle EXCEPT ![p].inbox = @ - 1]
    /\ UNCHANGED <<rec, lane, fence, told, mail, waiter, policy, left>>

\* The agent stops: it found its queue empty, or it was aborted. What is left
\* of the round is the snapshot of the workspace.
RoundStops(p) == ~handle[p].heard /\ OpsOf(p) = {} /\ handle[p].inbox = 0 /\ Round(p, "turns", "tail")
RoundAborts(p) == handle[p].heard /\ OpsOf(p) = {} /\ Round(p, "turns", "tail")

Notice(p) == [from |-> p, inc |-> rec[p].inc, round |-> rec[p].round, to |-> rec[p].up]

\* Mutant of Finish: the handle keeps the finished task.
FinishUnreleased(p, outcome) ==
    /\ rec' = [rec EXCEPT ![p].status = IF handle[p].asked THEN "interrupted" ELSE outcome]
    /\ told' = told \cup {Notice(p)}
    /\ handle' = [handle EXCEPT ![p].asked = FALSE, ![p].heard = FALSE]
    /\ UNCHANGED <<mail, lane, fence, waiter, policy>>

\* Mutant of Finish: a round that was interrupted is not reported.
FinishUntold(p, outcome) ==
    /\ rec' = [rec EXCEPT ![p].status = IF handle[p].asked THEN "interrupted" ELSE outcome]
    /\ told' = IF handle[p].asked THEN told ELSE told \cup {Notice(p)}
    /\ handle' = [handle EXCEPT ![p].task = "none", ![p].asked = FALSE, ![p].heard = FALSE]
    /\ UNCHANGED <<mail, lane, fence, waiter, policy>>

\* _on_notice gives the notice of p's round a task of its own: always for the
\* handle of a child; for the root when the product has bound a wake and says
\* that the root is not active, which it is while a turn of it waits for a call.
Delivered(p) ==
    LET always == Parent[p] # Root /\ handle[Parent[p]].live /\ policy # "discard"
        maybe == Parent[p] = Root /\ policy = "wake_if_idle" /\ OpsOf(Root) = {}
    IN
    \/ (always \/ maybe) /\ mail' = mail \cup {Notice(p)}
    \/ ~always /\ UNCHANGED mail

\* finish_round, the notice and the release of the handle's task are one step.
Finish(p, outcome) ==
    /\ rec' = [rec EXCEPT ![p].status = IF handle[p].asked THEN "interrupted" ELSE outcome]
    /\ told' = told \cup {Notice(p)}
    /\ Delivered(p)
    /\ handle' = [handle EXCEPT ![p].task = "none", ![p].asked = FALSE, ![p].heard = FALSE]
    /\ UNCHANGED <<lane, fence, waiter, policy>>

RoundEnds(p) == handle[p].task = "tail" /\ Finish(p, handle[p].outcome) /\ UNCHANGED left

\* The driver raised: the preparation, the run or the snapshot of the workspace.
RoundFails(p) == RoundLive(p) /\ OpsOf(p) = {} /\ Fault /\ Finish(p, "failed")

\* A notice task reaches the handle it was addressed to. A handle that is
\* closing or closed refuses it and the refusal is swallowed. A notice is
\* mailbox input: it is not in the inbox, which counts messages.
NoticeArrives(n) ==
    LET p == Parent[n.from]
        accepted == Deliverable(p) /\ rec[p].inc = n.to
    IN
    /\ n \in mail /\ p # Root
    /\ mail' = mail \ {n}
    /\ \/ accepted /\ policy = "wake_if_idle" /\ Deliver(p, handle[p].inbox)
       \/ ~(accepted /\ policy = "wake_if_idle") /\ UNCHANGED <<rec, handle>>
    /\ UNCHANGED <<lane, fence, told, waiter, policy, left>>

\* A wake task ends with the turn of the root it ran. A turn that waits for a
\* call goes on.
WakeEnds(n) ==
    /\ n \in WokenIn(mail)
    /\ mail' = mail \ {n}
    /\ OpsOf(Root) # {} => WokenIn(mail') # {}
    /\ UNCHANGED <<rec, handle, lane, fence, told, waiter, policy, left>>

-----------------------------------------------------------------------------
(***************************************************************************)
(* Interrupting.                                                           *)
(***************************************************************************)

\* What an abort does to handle h: the request is noted for the round, and the
\* session's host passes it to the agent only while the agent runs.
Interrupted(h) ==
    IF h.task = "none" THEN h
    ELSE [h EXCEPT !.asked = TRUE, !.heard = @ \/ h.task = "turns"]

Interrupt(p) ==
    /\ Open(p) /\ handle[p].live /\ RoundLive(p)
    /\ left.aborts > 0 /\ left' = [left EXCEPT !.aborts = @ - 1]
    /\ handle' = [handle EXCEPT ![p] = Interrupted(@)]
    /\ UNCHANGED <<rec, lane, fence, told, mail, waiter, policy>>

\* The driver's abort raised: the request is withdrawn.
InterruptFails(p) ==
    /\ Open(p) /\ handle[p].live /\ RoundLive(p) /\ Fault
    /\ handle' = [handle EXCEPT ![p].asked = FALSE]
    /\ UNCHANGED <<rec, lane, fence, told, mail, waiter, policy>>

-----------------------------------------------------------------------------
(***************************************************************************)
(* Closing one handle. The task that does it is shared by its callers.     *)
(***************************************************************************)

\* handle.close: fence the handle and start the task, unless one is under way.
Closing(h) ==
    [h EXCEPT !.closing = TRUE,
              !.close = IF @ \in {"none", "failed"} THEN "begun" ELSE @,
              !.err = IF h.close \in {"none", "failed"} THEN FALSE ELSE @]

CloseInterrupts(p) ==
    /\ handle[p].close = "begun"
    /\ handle' = [handle EXCEPT ![p] = [Interrupted(@) EXCEPT !.close = "waiting"]]
    /\ UNCHANGED <<rec, lane, fence, told, mail, waiter, policy, left>>

\* A failed abort is kept for the result; the live round is waited for.
CloseInterruptFails(p) ==
    /\ handle[p].close = "begun" /\ RoundLive(p) /\ Fault
    /\ handle' = [handle EXCEPT ![p].close = "waiting", ![p].asked = FALSE, ![p].err = TRUE]
    /\ UNCHANGED <<rec, lane, fence, told, mail, waiter, policy>>

\* Mutant of CloseDisposes: the round is not waited for.
CloseDisposesAtOnce(p) ==
    /\ handle[p].close = "waiting"
    /\ handle' = [handle EXCEPT ![p].close = "disposing"]
    /\ UNCHANGED <<rec, lane, fence, told, mail, waiter, policy, left>>

CloseDisposes(p) ==
    /\ handle[p].close = "waiting" /\ ~RoundLive(p)
    /\ handle' = [handle EXCEPT ![p].close = "disposing"]
    /\ UNCHANGED <<rec, lane, fence, told, mail, waiter, policy, left>>

\* The driver is disposed, the record closed and the handle forgotten.
CloseCommits(p) ==
    /\ handle[p].close = "disposing"
    /\ rec' = [rec EXCEPT ![p].status = "closed"]
    /\ handle' = [handle EXCEPT ![p] = NoHandle]
    /\ lane' = IF handle[p].err /\ lane # <<>> /\ Holder.at = p
               THEN [lane EXCEPT ![1].err = TRUE] ELSE lane
    /\ UNCHANGED <<fence, told, mail, waiter, policy, left>>

CloseDisposeFails(p) ==
    /\ handle[p].close = "disposing" /\ Fault
    /\ handle' = [handle EXCEPT ![p].close = "failed"]
    /\ UNCHANGED <<rec, lane, fence, told, mail, waiter, policy>>

-----------------------------------------------------------------------------
(***************************************************************************)
(* Closing a subtree, and disposing of the session's agents.               *)
(***************************************************************************)

AskClose(p, by, held) ==
    /\ MayCall(by, held) /\ by \in Above[p] /\ Asked
    /\ lane' = Append(lane, Op("close", p, by, held))
    /\ UNCHANGED <<rec, handle, fence, told, mail, waiter, policy>>

\* dispose fences the runtime at once and closes every child; it may be called
\* again when that failed.
AskDispose ==
    /\ fence # "closed" /\ Asked
    /\ fence' = "disposing"
    /\ lane' = Append(lane, Op("close", Root, Root, FALSE))
    /\ UNCHANGED <<rec, handle, told, mail, waiter, policy>>

\* What a close of p still has to close.
Unclosed(p) == {q \in Below(p) : Open(q)}

\* The whole subtree refuses messages before the first of it is closed.
ClosePlanned ==
    /\ Holds("close", "queued") /\ CallerOpen /\ Open(Holder.path)
    /\ handle' = [q \in Paths |-> IF q \in Unclosed(Holder.path)
                                  THEN [handle[q] EXCEPT !.closing = TRUE] ELSE handle[q]]
    /\ lane' = Step("closing")
    /\ UNCHANGED <<rec, fence, told, mail, waiter, policy, left>>

CloseRefused ==
    /\ Holds("close", "queued") /\ ~(CallerOpen /\ Open(Holder.path))
    /\ lane' = Released
    /\ UNCHANGED <<rec, handle, fence, told, mail, waiter, policy, left>>

\* Mutant of Deepest: the order of the plan is reversed.
Shallowest(S) == {q \in S : \A r \in S : Depth[q] <= Depth[r]}

Deepest(S) == {q \in S : \A r \in S : Depth[r] <= Depth[q]}

\* Nothing is being closed: the deepest of the rest comes next. (Every open
\* agent has a handle here, see OpenHasHandle.)
CloseNext ==
    /\ Holds("close", "closing")
    /\ Holder.at # Root => ~Open(Holder.at)
    /\ \E q \in Deepest(Unclosed(Holder.path)) :
        /\ handle' = [handle EXCEPT ![q] = Closing(@)]
        /\ lane' = [lane EXCEPT ![1].at = q]
    /\ UNCHANGED <<rec, fence, told, mail, waiter, policy, left>>

\* One child could not be disposed of, and its ancestors are kept.
Broken == Holder.at # Root /\ handle[Holder.at].close = "failed"

PlanDone == Broken \/ Unclosed(Holder.path) = {}

CloseLeaves ==
    /\ fence' = IF Holder.path = Root /\ ~Broken /\ ~Holder.err THEN "closed" ELSE fence
    /\ lane' = Released
    /\ UNCHANGED <<rec, handle, told, mail, waiter, policy, left>>

\* Mutant of CloseReturns: the notices on their way are not drained.
CloseReturnsUndrained == Holds("close", "closing") /\ PlanDone /\ CloseLeaves

\* The session's own close also waits, under the lock, for the notices on their
\* way and for the turns they woke.
CloseReturns ==
    /\ Holds("close", "closing") /\ PlanDone
    /\ Holder.path = Root => mail = {}
    /\ CloseLeaves

-----------------------------------------------------------------------------
(***************************************************************************)
(* Awaiting a completion.                                                  *)
(***************************************************************************)

NoWaiter == [on |-> Root, inc |-> 0, round |-> 0]

\* await_completion finds a live round and waits for its task.
AwaitBegins(p) ==
    /\ waiter = NoWaiter /\ Open(p) /\ handle[p].live /\ RoundLive(p)
    /\ left.awaits > 0 /\ left' = [left EXCEPT !.awaits = @ - 1]
    /\ waiter' = [on |-> p, inc |-> rec[p].inc, round |-> rec[p].round]
    /\ UNCHANGED <<rec, handle, lane, fence, told, mail, policy>>

AwaitedLive ==
    /\ RoundLive(waiter.on)
    /\ rec[waiter.on].inc = waiter.inc /\ rec[waiter.on].round = waiter.round

\* The task is done, and the caller runs some steps later.
AwaitReturns ==
    /\ waiter # NoWaiter /\ ~AwaitedLive
    /\ waiter' = NoWaiter
    /\ UNCHANGED <<rec, handle, lane, fence, told, mail, policy, left>>

-----------------------------------------------------------------------------
Operation ==
    \/ SpawnAdmitted \/ SpawnRefused \/ SpawnDelivered \/ SpawnFails \/ SpawnRetained
    \/ SpawnUndelivered \/ SpawnCleaned
    \/ ClosePlanned \/ CloseRefused \/ CloseNext \/ CloseReturns

Agent(p) ==
    \/ RoundRuns(p) \/ Consumes(p) \/ RoundStops(p) \/ RoundAborts(p) \/ RoundEnds(p)
    \/ RoundFails(p) \/ ToolCancelled(p)
    \/ CloseInterrupts(p) \/ CloseInterruptFails(p) \/ CloseDisposes(p) \/ CloseCommits(p)
    \/ CloseDisposeFails(p)

Request(p) ==
    \/ SendMessage(p) \/ Interrupt(p) \/ InterruptFails(p) \/ AwaitBegins(p)
    \/ \E by \in Paths \cup {Root}, held \in BOOLEAN :
          AskSpawn(p, by, held) \/ AskClose(p, by, held)

Next ==
    \/ Operation
    \/ \E p \in Paths : Agent(p) \/ Request(p)
    \/ \E n \in mail : NoticeArrives(n) \/ WakeEnds(n)
    \/ RootAborted
    \/ AskDispose
    \/ AwaitReturns

Spec == Init /\ [][Next]_vars

\* What is scheduled runs: the lock's holder, the close and notice tasks, an
\* aborted agent (AgentLoop's AbortEndsRun), the preparation of a round and its
\* snapshot, and the factory and the drivers asked to dispose. No round that was
\* not aborted has to end, and no woken turn of the root.
Fairness ==
    /\ WF_vars(Operation)
    /\ \A p \in Paths :
        /\ WF_vars(RoundRuns(p)) /\ WF_vars(RoundAborts(p)) /\ WF_vars(RoundEnds(p))
        /\ WF_vars(ToolCancelled(p))
        /\ WF_vars(CloseInterrupts(p)) /\ WF_vars(CloseDisposes(p)) /\ WF_vars(CloseCommits(p))
    /\ WF_vars(\E n \in mail : NoticeArrives(n))
    /\ WF_vars(AwaitReturns)

FairSpec == Spec /\ Fairness

-----------------------------------------------------------------------------
(***************************************************************************)
(* Correctness.                                                            *)
(***************************************************************************)

HandleStates ==
    [live : BOOLEAN, closing : BOOLEAN, task : {"none", "preparing", "turns", "tail"},
     asked : BOOLEAN, heard : BOOLEAN, outcome : Terminal, inbox : Nat,
     close : {"none", "begun", "waiting", "disposing", "failed"}, err : BOOLEAN]

Ops == [kind : {"spawn", "close"}, path : Paths \cup {Root}, by : Paths \cup {Root},
        inc : Nat, held : BOOLEAN,
        phase : {"queued", "creating", "failing", "cleanup", "closing"},
        at : Paths \cup {Root}, err : BOOLEAN]

Records == [inc : Nat, status : Statuses, round : Nat, up : Nat]
Notices == [from : Paths, inc : Nat, round : Nat, to : Nat]
Waiters == [on : Paths \cup {Root}, inc : Nat, round : Nat]
Bounds == [ops : Nat, sends : Nat, aborts : Nat, awaits : Nat, faults : Nat]

TypeOK ==
    /\ rec \in [Paths -> Records]
    /\ handle \in [Paths -> HandleStates]
    /\ lane \in Seq(Ops)
    /\ fence \in {"open", "disposing", "closed"}
    /\ told \subseteq Notices
    /\ mail \subseteq told
    /\ waiter \in Waiters
    /\ policy \in Policies
    /\ left \in Bounds

\* A record says "running" exactly while a task owns the round: the state that
\* deliver calls "running without an owned task" is never reached, and no round
\* goes on after its record says it is over (run_handle.deliver, _run_owned_round).
RunningIsOwned == \A p \in Paths : rec[p].status = "running" <=> RoundLive(p)

\* An open agent has a handle that can close it, from the moment its factory
\* returned, whatever failed on the way (spawn_child, _close_registered_handle);
\* so _close_plan never commits a record whose resources nobody disposed of.
OpenHasHandle ==
    \A p \in Paths : Open(p) => handle[p].live \/ Creating(p)

\* A driver is disposed of only when no round of it is live and none can begin
\* (_close_owned: a failed abort does not grant permission to dispose).
DisposedAlone ==
    \A p \in Paths : handle[p].close = "disposing" => ~RoundLive(p) /\ handle[p].closing

\* After dispose returned nothing of the tree is left: no open agent, no handle,
\* no notice on its way (SessionMultiAgentRuntime.dispose).
DisposedQuiet ==
    fence = "closed" =>
        /\ \A p \in Paths : ~Open(p) /\ ~handle[p].live
        /\ mail = {}

\* The caller of await_completion comes back after the round it awaited has
\* been reported, whatever happened to the agent since (await_terminal).
AwaitedRoundTold ==
    [][waiter # NoWaiter /\ waiter' = NoWaiter =>
        \E n \in told : n.from = waiter.on /\ n.inc = waiter.inc /\ n.round = waiter.round]_vars

\* The tree keeps the promises of AgentLifecycle, which tells the terminal
\* statuses not apart.
Shown(r) == [inc |-> r.inc, round |-> r.round, up |-> r.up,
             phase |-> IF r.status \in Terminal THEN "over" ELSE r.status]

Shows == [p \in Paths |-> Shown(rec[p])]

Life == INSTANCE AgentLifecycle WITH life <- Shows

\* Every step of the tree is a step of AgentLifecycle: agents open below open
\* agents, close from the leaves up and never while running, and the end of
\* each round is told in the step that records it.
ImplementsLifecycle == Life!LifeSpec

\* A round that the close waits for and whose agent never got the abort.
Unheard ==
    \E p \in Paths :
        handle[p].close = "waiting" /\ handle[p].task = "turns" /\ ~handle[p].heard

\* A dispose that drains a turn of the root: the turn goes on, or waits for the
\* lock that the dispose holds. Nothing in the tree ends it.
DrainsRoot ==
    Holds("close", "closing") /\ Holder.path = Root /\ PlanDone /\ WokenIn(mail) # {}

\* Every spawn, close and dispose gets the lock and gives it back, unless the one
\* that holds it waits forever for a round that did not get the abort or for a
\* turn of the root: neither calls of the tree's own agents, which wait for the
\* lock, nor failures, nor notices of children hold it up (spawn_child,
\* _close_tree, _close_plan, drain_notice_deliveries).
LockGivenBack ==
    <>[]Unheard \/ <>[]DrainsRoot \/ (lane # <<>> ~> lane = <<>>)

=============================================================================
