# loushang: a verification development

TLA+ modules of the parts of loushang where interleavings, failures and ordering decide whether
the program is right, the TLC runs that check them on small instances, and the proofs (TLAPS) of
what can be proved for every instance. Paths below are relative to `src/src/loushang/` unless they
begin with `src/` or `docs/`.

## 1. The system

loushang is an agent platform in layers: model providers and their event streams (`ai`), the agent
loop (`agent`), the harness that turns a loop into a session with tools, policy, sub-agents,
journals and conversations (`harness`), services that run sessions for clients (`appservice`,
`appserver`, `apphost`, `hosting`), and products and interfaces on top (`coding`, `tui`,
`harnesstui`, `harnesswork`). It is asyncio throughout: within one process nothing is preempted, and
what makes the code hard is what can run at each `await`.

### Inventory

| Component | State | Operations | What is hard | What makes it correct |
|---|---|---|---|---|
| Agent loop `agent/agent.py`, `agent_loop.py` | transcript, three input queues, abort signal and force-cancel timer, active run, tool batch | prompt, continue, enqueue, abort, clear; turns, model calls, sequential and parallel tools, hooks, listeners | abort at any await; tools that ignore it; exceptions out of listeners and hooks; queues drained before the signal is looked at | calls are answered, input is not lost or reordered, nothing starts once aborted, an abort ends the run |
| Agent tree `harness/multiagent/*`, `harness/session/multiagent.py`, `subagent.py` | registry of records, run handle per open agent, `_operation_lock`, notices, fences | spawn, message, interrupt, close subtree, dispose, await completion, notices | the lock is held over awaits; agents of the tree call into it; partial failures of factory, abort and dispose; incarnations | agents open below open agents, close from the leaves up, every round told once, nothing disposed under a live round, the lock is given back |
| Execution registry `appservice/execution_*.py` | executions by identity, ledger of submissions, bindings, the Product's guard, snapshot buffers | submit, interrupt, observe, settle, retry a settlement, close and reopen, fence, capture and read | retried submissions, interrupt before the start, observations between the registry's steps, settlement that fails, snapshot without a lock | one active execution per session, an input runs at most once, published states go forward, a client misses nothing unnoticed |
| Host runtime `harness/runtime/execution.py`, `harness/events/bus.py` | active run, idle event, deferred runs by key, chain of event tasks | run, run after idle, defer, abort, settle, dispose | a deferred run claims the host between two awaits; a cancelled publisher; dispose over running work | one run at a time, nothing runs after dispose, waiters get on |
| Approval broker `harness/approval/*` | pending questions, shared tasks, grants, rules, confirmations | ask, answer, time out, fall back, revoke, close, open, dispose | the answer races the timeout; waiters of one task; revocation during the wait | one decision per question, confirmations rest on permissions that still stand |
| Event stream `ai/event_stream/*`, `ai/provider/runtime.py` | bounded queue, terminal event, attempts, deadline, recorded outcome | put, end, read, leave, retry, settle, record | a full queue, a reader that leaves, a deadline or signal at any await | one attempt is shown, no event of a call that ends is dropped, what is shown is recorded |
| Journal and file store `harness/journal/*`, `harness/conversation/stores/file.py` | journal file, metadata sidecar, tombstone, caches of heads | create, append, batch, delete, load, repair | kills and power losses at any write, several processes, operations repeated after an unknown outcome | what was acknowledged is durable, nothing is appended twice, deleted is deleted |
| Session service `appservice/runtime.py`, `continuity*.py` | attached sessions, leases | open, attach, detach, resume | restart, two clients | one writer per session |
| App server, app host, process hosting `appserver`, `apphost`, `hosting` | connections, processes, endpoints | frame, dispatch, start, stop | shutdown order, half-closed peers | every request is answered or failed |
| Plugin lifecycle `harness/plugin_management`, `harness/resources` | generations, operation journals | install, activate, remove, recover | crash between two journal records | an operation is wholly applied or wholly undone |
| Transcript, continuity `harness/transcript`, `continuity` | branches, unit of work, claims | append, branch, commit, recover | commit over several files | readers see committed turns only |
| Goals and work `harnesswork`, `work` | goals, plans, event log | plan, run, complete | controller over runs of the agent | a goal ends once |

The remaining parts (tools, model providers, policy, extensions, terminal interface, coding product,
ontology, workers, channels) are listed in `PROJECT.json` with the reason they are not modelled:
parsing, rendering, system calls, pure functions of declared data.

How they interact: a session owns a host runtime, which runs an agent; the agent calls models, whose
answers reach it through an event stream, and tools, some of which (spawn, close, message) call the
session's agent tree, which owns child sessions with hosts and agents of their own. A child's end comes
back to its parent as a notice. A tool that needs permission asks the approval broker and waits. The
services above submit work to sessions through the execution registry, and clients watch it through
snapshots and buffered events. The conversation store and its journal are below all of them.

## 2. What is modelled

| Module | Stands for |
|---|---|
| `AgentLoop` | one `Agent` with its loop |
| `AgentPaths` | the paths of an agent tree: parent, depth, what is above and below |
| `AgentLifecycle` | the abstract specification of an agent tree: open, begin a round, end it, close |
| `AgentTree` | the tree as it is implemented: registry, control plane, handles, session runtime, child driver |
| `Submissions` | the abstract specification of the execution registry: what a client that retries is promised |
| `ExecutionRegistry` | `ExecutionRegistryV1` and `ExecutionGuardV1` with both tasks of an execution |
| `ExecutionStream` | extends `ExecutionRegistry` by a client: snapshot, bounded buffer, reads |
| `HostRuntime` | `HostRuntime` composed with the `OrderedEventBus` it tells its listeners through |
| `ApprovalBroker` | broker, resolver, grants, rules and confirmations |
| `ConversationStore` | one conversation of the file store, its journal, and the disk below |
| `ProviderCall` | one model call: provider runtime, assembler, event stream, the agent loop's reader |
| `...Proofs` | theorems about the module they are named after; `ExecutionProofs` about `ExecutionRegistry` and `ExecutionStream` |
| `MC...` | instances for TLC; values in the `.cfg` files |

In all of them an action is what one task does between two awaits (in `ConversationStore`: one process
between two operations of the file system), so the interleavings are those the event loop allows.
Operators marked "Mutant of" are wrong versions of the definition that follows them. No behaviour uses
them; each shows that some property would notice the mistake.

### AgentLoop

A run is one asyncio task. `pc` names the await it is suspended at, and an action is the whole stretch
of code up to the next await, so the interleavings of the model are the ones the event loop allows:
callers (`Prompt`, `ContinueRun`, `Enqueue`, `ClearQueues`, `Abort`), the force-cancel timer
(`ForceCancel`) and tool tasks (`ToolCompletes`, `ToolCancelled`) run at those points only. A
transcript entry keeps its role, its lane and identifier, its stop reason, or which call it answers;
text, usage and images are dropped. `status` follows each tool call of the current batch from "todo"
over "preparing", "ready", "running" and "cancelling" to "result". A reply that failed keeps the calls it
had received (`ModelCallsTools`), and they are never made. Exceptions out of listeners, hooks, providers
and tools are `Raises`, `HookCancelled`, `ToolCancelled` and so on, bounded by `MaxFaults`. A
CancelledError out of the listeners of an event leaves the run where it is (`ListenerCancelled`); out of
those of a result it leaves the batch, after that result is in the transcript and before it is collected,
so that the call is open again and `Cut` gives it another (`OutcomeCancelled`). `torn` remembers how long
the transcript was then. `orphans` counts tool tasks whose run is over.

### AgentTree

`rec` is the registry, `handle` the run handle of an open agent together with its driver, `lane` the
operations that hold (the head) or wait for `_operation_lock`, `mail` the notice tasks: those that bring a
notice to a child's handle and, if the product wakes its root agent, those that run a turn of the root
(`Delivered`, `WakeEnds`). A turn of the root may ask to spawn and close like any agent, and a dispose
drains the task it runs in. The phases of
an operation at the head of the lane are its awaits: a spawn waits for the factory ("creating"), for
the factory's own cleanup ("failing") or for the handle it closes ("cleanup"); a close waits for the
handle at `at`. The handle's own `_state_lock` is never held across an await, so it never delays a
step and is not a variable. The rounds of a child go through "preparing" (the input is prepared and an
abort is dropped), "turns" (the agent runs, polls its inbox and calls tools) and "tail" (the snapshot
of its workspace). An agent inside "turns" may itself ask to spawn and close below it, and then
waits; `ToolCancelled` is what an abort does to the operation it waits for. The factory, the abort and
the disposal of a driver can fail.

`AgentLifecycle` keeps of all this the incarnation, the round and the phase of each path and the
notices. `AgentTree!ImplementsLifecycle` instantiates it with `Shows`, in which the three terminal
statuses are one.

Left out of the tree: what else the root agent does, progress and usage counters, artifacts, `close_owned_children` without a
dispose (used by /new and /resume), `wait_for_input`, snapshots for resume, per-type and depth limits,
the text of messages. `MaxOpen` is the one limit kept, since it interacts with what is retained.

### Submissions, ExecutionRegistry, ExecutionStream

`record` is what was last published of an execution, `kept` which records `_records` still holds, `ledger`
the execution of each submission, `slot` the invocation of a session with the state of the registry's
task (`DriveBegins`, `DriveEnds`, `RetryBegins`), `guard` the guard of the Product's binding with its own
task ("beginning", "running", "settling", "debt" when a settlement failed, "done"), `view` what the service
shows of the binding. `Submit` and the legacy call, `Interrupt`, a failed start, `WorkEnds`, `Settled` and
`SettleFails`, the closing of a binding, its reopening and the fence are the other actions. Observations are
synchronous: they are part of the guard's step that makes them. Records of the legacy call expire by
number or age (`Retire`, `Expire`). `Promise` instantiates `Submissions` with what the ledger leads to.

`ExecutionStream` adds one client. A capture reads the view, awaits the Product's snapshot (`Cut`), reads
the view again and is activated only if both looks agree; else it starts again (`Retake`) or gives up.
Meanwhile content and updates collect in the buffer, which becomes invalid when it is full. A session that
is opened again has a new binding (`Rebound`): the stream of the old one is stale and of no use.

Left out: waiters of the legacy call, byte accounting and cursors, authority checks, goal and method work.

### HostRuntime

`pc` says what each run, the owner that disposes and the settler wait for; `cancel` holds the tasks a
CancelledError is on its way to. `mail` is the chain of event tasks of the bus: each awaits the one
before, so an event whose publisher was cancelled is `doomed` together with all that follow. Listeners and
drivers may raise, a driver may be busy with a run of its own, callers may be cancelled, `settle_runs`
may join runs that begin while it waits. Left out: the input queue, turns, owned tasks,
`CoalescingScheduler`, kinds of events and results.

### ApprovalBroker

`step` is how far the question of each request is, `leader` which question equal requests of an actor
share, `future` its decision; `caller` what the caller waits for. `reserved` and `fact` are the two stages
of a confirmation: reserved when it is asked for, so that what is revoked meanwhile makes it void. Sessions
close and open, actors are cancelled, grants and rules are revoked, presenters come and go and fail.
Left out: presenting a request again, how the fallback is selected, a second policy scope, capacities.

### ConversationStore

The disk has two copies of each file, as it is seen (`file`, `tomb`, `side`) and as a power loss leaves it
(`...Synced`); a power loss keeps any prefix of the lines that were not synced, the last one possibly torn.

`mode` is what every store of the directory is constructed with. A rooted store (`file_io`) syncs all it
writes. A store by pathname, the default, syncs journals, but `_write_json_sidecar` replaces tombstones and
sidecars without fsync and nothing is synced after an unlink: a power loss may leave the new file, an older
one or an empty one (`Garbage`, `Unreadable`), and may even take both the tombstone and the journal, which
`lost` remembers. With `deferred` (`background_head_updates`) the worker publishes heads; without it the
append does, under its lock (`Remembers`). `Grave` is the tombstone a property may rest on: the synced one
of a rooted store, by pathname the one that is seen.

`pc[w]` is the operation process `w`
is in; under the lock an append reads, repairs a torn tail, writes and syncs in steps of their own, and a
deletion publishes the tombstone, syncs it and unlinks. A kill drops what a process holds. Heads come from
the cache, the queue of pending updates, the sidecar or the journal. `Collisions` are the identifiers the
operation filter of a head takes for known ones. Left out: headers, receipt times, codecs and legacy lines,
Windows, scans and pages, the journal's own rewrite, a failed write of a head, which the code ignores,
and stores of different modes over one directory.

### ProviderCall

`pc` is what the producer awaits: the next part, room for an event, the recording of the outcome, a
settlement, the delay before a retry; `handling` says that it is inside the except clause. The deadline
of an attempt and the signal arrive as a CancelledError or as `_RuntimeCancelled`, at every one of these.
The settlement of a cancelled call and the recording are tasks of their own, shielded by the producer.
The reader is the one of `_stream_assistant_response`: it takes events, handles each, asks for the
result, or leaves and awaits `aclose`. Left out: what the assembler makes of parts, usage, traces, calls
without a recorder.

## 3. Runs

| Run | Checks | Shows |
|---|---|---|
| `agent_tools` | calls paired with results, context is the transcript, pending calls exact, abort ends the run, nothing starts aborted, tools over before their result | batches with abort, timer and two faults at every point |
| `agent_queues` | order within a lane, input lost only by abort or clear | three inputs over three lanes, both drain modes, delivery on and off |
| `agent_tree` | running iff owned, disposed alone, awaited round told | all operations together, with a message, an interrupt, an awaited completion and a failure |
| `agent_tree_lock` | open has handle, disposed is quiet, the refinement of `AgentLifecycle`, the lock is given back | four operations from host and agents, so that one asks while another holds the lock |
| `execution_registry` | an input runs once, the Product's work has a slot, the view is what was observed, outcomes are true, referred records are kept, published states go forward, the refinement of `Submissions`, an interrupt ends, close returns | retries, interrupts, a failed start or settlement, a close and a reopened binding, crossing both tasks |
| `execution_stream` | nothing is missing, a snapshot is of one instant | captures while executions begin and end, and a buffer that fills |
| `host_runtime` | one run, disposed is quiet, keys lead to live runs, waiters get on | two runs, an owner and a settler with any two troubles |
| `approval_broker` | the first answer wins, confirmations are current | three requests, two of which can be shared, any two troubles |
| `conversation_store` | receipts hold, a head is a journal, appends are new, deleted stays deleted | two processes, two faults, among them kills and power losses |
| `provider_call` | one attempt is shown, nothing is dropped, what is shown is recorded, leaving ends | two attempts, a queue of two, deadline, signal, slow and leaving readers |

Two more runs each refute one statement of a document:

| Run, property | Statement | What the code does |
|---|---|---|
| `conversation_once`, `OnceOnly` | an operation id is stable across retry: a provider deduplicates it (unified conversation storage) | `append_batch` stops looking at the first record that is not in the journal, and writes a later one again |
| `provider_terminal`, `EndsWithTerminal` | each stream has exactly one terminal event (core freeze checklist) | the signal during the delay before a retry, or a deadline while the last event waits for room, ends the stream without one, and the reader waits in `result()` |

### Other divergences the models show

The steps below are in the modules; a property that denied them would be violated. Those marked * were
also seen by running the package.

- Agent loop: a CancelledError out of the listeners of a result, in a run nobody aborted, has a second,
  aborted result written for the same call (`OutcomeCancelled`); the calls of a reply that failed stay in the
  transcript without results; a call rejected while a parallel batch is prepared is reported before the results of
  earlier calls; a listener that raises while outcomes are emitted leaves tool tasks running into the
  next run (`OrphanEnds`); a CancelledError of a run nobody aborted skips `agent_end`; a follow-up is drained
  and then dropped by an abort that comes before the next check.
- Agent tree: an interrupt while a round's input is prepared is dropped, so that a close can wait for
  ever for a child that waits for the lock the close holds (`Unheard`); a dispose drains a turn of the root that
  itself asks for the lock the dispose holds, and each waits for the other (`DrainsRoot`); `await_completion` reads the
  record of a round that began meanwhile; a message accepted while the snapshot is taken stays unread.
- Host runtime *: an event whose publisher was cancelled cancels every later one, so no event of that bus
  is delivered any more and every publisher is told that it was cancelled, although the bus promises to
  "Deliver events in scheduling order" (`harness/events/bus.py:15`).
- Conversation store *: a deletion whose unlink fails leaves its tombstone; an append does not look for
  it, and the retried deletion unlinks the journal with the new record without comparing revisions, against
  "Delete is revision-conditional". A retried append that finds its record in the journal gives a receipt without a sync.
- Conversation store by pathname: a power loss after an acknowledged deletion may bring the journal back or
  free its identity (`lost`), as the tombstone was never synced; the code says "visibility is not
  durability" (`file.py:1223`) of rooted stores alone.
- Provider call *: a deadline that expires while the outcome is recorded has it recorded again, after
  another attempt if nothing was visible; a settlement whose event waits for room never ends when the
  reader leaves a full queue, and cancelling the reader does not help. The deadline is per attempt
  (`_AttemptDeadline`), although `loushang-ai-component-interactions-v1.md:70` says that the runtime
  "applies one overall deadline to request startup and stream consumption".
- Not modelled: `agent_loop` and `agent_loop_continue` call `stream.fail` when the loop raises, a method
  `EventStream` does not have.
- Scheduler *, not modelled: `CoalescingScheduler.drain` cancels a task that is inside its callback and
  returns while the callback's thread still runs.

### Bounds, and why they are enough

*AgentLoop.* Two calls in a batch are the least with an order and with one finished while the other
runs; two runs the least in which something of one run can reach the next; one batch, because a second
repeats the first from the same states; two faults, because a second can meet the clearing up after the
first: the listener of a result is cancelled, and then the one of the aborted result that follows. `queues`
has no fault (with one it takes minutes more; what a fault may take is proved in `InputIsKept`). It has three
inputs, so that a lane
can have one spoken, one about to be spoken and one queued, or two lanes compete. The counts left are
in `budget`. Deadlock is checked: an idle agent waits for callers (`Idle`), and a run that can take no
step would be found.

*AgentTree.* The tree is a root, a child `a` and a grandchild `b`: an agent that has both a parent and
a child, and an agent whose parent is an agent. `MaxOpen` = 3 is met by the full tree, `MaxIncs` = 2
lets a path be closed and opened again. Three operations are spawn `a`, spawn `b`, and a close or a
dispose racing them; the lock run has four, the least in which an agent waits for the lock while a
close holds it and another operation waits behind. One fault, one interrupt, one message, one awaited
completion: each property is about one of these crossing the operations.

*ExecutionRegistry.* Sessions share nothing but `_sequence` and the limit of active executions, so one
session with two executions has the orders that matter; two sessions do not fit with liveness. Two
submission ids, two texts and the legacy call give equal, conflicting and independent submissions; one
legacy record is kept, so that a second forgets the first. One fault and one reopening cross every step.
*ExecutionStream.* Two executions, each published several times, and one content event against a buffer
of two: it is full long before all is told. Two attempts let a capture fail, succeed late, and give up.
One reopening starts the revisions again under a capture or a live stream.

*HostRuntime.* Two runs of one key: one that runs and one that waits, is deferred under the same key or
claims the host next. Two troubles: one that cancels or fails a task and one that meets the first's
consequences. *ApprovalBroker.* Three requests: two of a child that can share a question and one of the
root. Two answers, so that a second meets a question already decided.

*ConversationStore.* Two processes that are alike (hence the symmetry: no property is temporal), two
identifiers, one of which may have two bodies, one of which collides in the filter. Two of the four modes:
rooted and deferred, and by pathname and not deferred, the defaults of the class; the transcripts of a
session are deferred in either (`transcript/jsonl_file.py:644`). All four together are too many states, and
each property of this run is proved for all of them.
`MaxRevision` = 1, so that a call comes before or behind one committed record, and a batch may make them
three; `RecentLimit` = 1 makes the second leave the recent records of a head. Two faults: one in an
operation and one in its retry.

*ProviderCall.* Two attempts, the least with a retry. A queue of two is full with a visible event and the
next one; the code has 256. `Capacity` is assumed to be at least 2 because the events held back before
the first visible one are put as one. Four visible parts fill the queue, keep one waiting and leave one
for the reader in hand.

In all but the agent loop the system may stop when its bounds are used up or when nobody asks for anything,
hence `CHECK_DEADLOCK FALSE`; that nothing waits for ever is what the liveness properties say.

### Fairness, and why the code justifies it

`AgentLoop!FairSpec` assumes, of an aborted run: its own code goes on (listeners and hooks are awaited
without a timeout, given the signal), except that while it waits for the model it goes on only once the
timer has fired; the event loop runs the timer (`call_later`); a tool task that was cancelled ends.
Nothing is assumed of a model or tool that was not cancelled.

`AgentTree!FairSpec` assumes that what the event loop has scheduled runs: the lock's holder, close and
notice tasks, the preparation of a round and its snapshot, the factory and the drivers asked to
dispose, and that an aborted agent stops, which is `AgentLoop!AbortEndsRun`. No other round has to
end. Nothing is assumed of a turn of the root. `LockGivenBack` says of every operation that it gets the lock
and gives it back, but for two states: `Unheard`, a close that waits for a round whose abort was dropped,
and `DrainsRoot`, a dispose that drains a turn of the root, which may go on for ever or wait for the lock
itself. Both are divergences above; the property says there is no other way to hold the lock for ever.

`ExecutionRegistry!FairSpec`: the loop runs both tasks and the close; work that was cancelled ends, and so
does a settlement, well or badly. Work that was not cancelled may go on for ever, and nobody has to retry
a settlement that failed: `InterruptEnds` ends in "failed" then.

`HostRuntime!FairSpec`: the loop runs every task that can go on; listeners and the driver end.
`ProviderCall!FairSpec`: the loop runs the producer, the reader and the deadline's timer; recordings and
listeners end. A source may be silent for ever and nobody has to set the signal.

## 4. Proofs

All theorems are proved from the definitions and the ASSUMEs of the modules: numbers are naturals (and
limits positive: `LimitsAssumption`), modes are among the ones the code has, names that stand for no
value are none (`ApprovalAssumption`, `TasksAssumption`, `NoneAssumption`), the root is not a path that can
be spawned, a parent is a path or the root and has a smaller depth. No bound has a particular value and
the tree any shape.

*Agent loop.* `TypeCorrect`: types, strengthened by "the inputs left are at most `MaxInputs`",
without which an identifier need not be a natural number. `AbortStopsStarts`: every action that starts
a model call or a tool tests the signal in the same step. `ToolsOverFirst`: a result is reported only
when its tool is over. The property is not inductive; `FlightInv` says, for each suspension point and
mode, which calls can be executing (only the awaited call of a sequential batch; none while a parallel
batch has a call that is not prepared, unless that was opened again and the tasks are being waited for;
none while completed tasks are saved), and `DrainInv` that saving happens in
aborted runs only. Four more invariants are inductive on top of the types:
- `PendingInv`, for `PendingCallsAreExact`: the calls reported as pending are those of the batch that are
  started and not settled, and outside a batch (`Apart`) there are none.
- `ContextInv`, for `ModelSeesTranscript`: at each suspension point, what has to be added to the context
  to have the transcript (the messages about to be spoken, the results of the batch), where a retry has
  dropped a failed reply from the end of the context. A batch that a CancelledError leaves is excepted: it
  may not collect what it has spoken, and no turn follows it.
- `LaneInv`, for `LanesAreOrdered`: transcript, input about to be spoken and queue of a lane, one after the
  other, are in the order of acceptance, and all of it is older than what comes next. It is stated
  by pairs of positions (`Before`), so that moving a part from one place to the next is a fact about
  concatenations (`OrderedConcat`). `SpeechInv` says where input can be about to be spoken, hence `InputIsKept`.
- `PairInv`, for `CallsArePaired`: the results that stand behind a message that called answer calls of it,
  the same call twice only if `torn` excuses the first and the second is aborted (`Group`); the group is
  complete, closed by an error message, of a failed reply that has none, or left by a cancelled listener
  (`Paired`), but for that of the batch in progress, which is the last (`Latest`) and answers the calls
  `status` says have a result and, while a CancelledError leaves the batch, the one whose announcement it
  came out of (`Executes`). It needs `ReraiseInv`, where such an error can be on its way: otherwise a call
  that was opened again could be settled as if it had none.

*Lifecycle.* `LifeTypeCorrect`, `OpenAgentsBelowOpen`, `NoticeFindsParent`, and `EveryRoundTold`, whose
invariant adds where each notice comes from: a notice is about a round that some incarnation of its
sender has ended (`NoticesOfEndedRounds`, so it can name neither a later incarnation nor the round still
running), and a running agent has a round, numbered from 1 (`RunningNumbered`).

*Tree.* `TreeInv` is inductive together with the types:
- `LaneInv`: only the head of the lane has begun. An operation leaves the middle of the lane only
  while it is queued, so the head changes only by its own steps (the lemmas `LaneJoined`, `LaneLeft`,
  `LaneChanged`, `LaneAbandoned`).
- `BelowOpen`: an open agent is below an open one. Needed when a spawn is admitted: the new agent has
  no open child, because it was not open.
- `HandleInv`: a handle belongs to an open agent and is forgotten as a whole.
- `CreatingInv`: while the factory is awaited the agent is idle, without handle and without children.
- `ClosingInv`: a handle being closed refuses messages and has no open child. A spawn keeps this
  because it is refused below a handle that is closing; the step to the next handle keeps it because
  the deepest open agent comes next (`CloseNextKept`: a child would be in the plan, and deeper).

From it follow `RoundsAreOwned`, `OpenAgentsCanClose`, `DisposedInPeace` and
`TreeImplementsLifecycle`: a step of the tree opens, begins, ends or closes one agent of
`AgentLifecycle`, or changes nothing it shows. The theorems of the lifecycle thus hold of the tree. The
refinement is used again in `AwaitedIsTold`: since a step of the tree is a step of the lifecycle, a live
round goes on or is reported (`RoundReported`), so a round that is awaited is live or told (`WaitInv`).
`DisposedIsQuiet` needs that a dispose which has closed all there is below the root has closed every agent:
the root is above every path (`RootAbove`, by a path of least depth, since depths are a well-founded order),
and a closed fence admits no spawn (`QuietInv`).

*Execution registry.* `RegistryInv` is inductive: types; executions are numbered as they are accepted
(`Numbered`); an execution is active exactly while it is in the slot of its session, and running once its
work was entered (`Slots`); the guard works for the slot that started it and its candidate is what the
work returned (`Guards`); the ledger leads to executions of the text submitted (`Submitted`, `Histories`);
records that are referred to are kept (`Keeps`, where the legacy records are exactly those that may expire).
Each conjunct needs the others: without `Guards`, for one, a retried settlement could publish another
outcome. From it follow `InputsRunOnce`, `ProductWorkHasSlot`, `OutcomesAreTrue`, `ReferredRecordsStay`, and,
through one lemma that says how a published record can move in one step, the action property
`StatesGoForward` and the refinement `RegistryKeepsSubmissions`. `Views`, inductive on top of it, relates the
view to the slot, the record and the guard's observation of each session, also while a settlement is
observed and not yet published; hence `ViewsAreObserved`.

*Execution stream.* A client only watches (`StreamIsRegistry`), so all of the above holds under `StreamSpec`.
`RevisionMoves` says what a step of the registry shows of the session: nothing, or one more revision with
the state of the execution the listeners are told of; without it an update could be delivered for another
execution than the view's. `StreamInv` is inductive on top:
- `BufferInv`: during a capture, what is buffered has happened, so at the cut the watermarks cover it all.
- `CutInv`: while the view has not moved since the look before the cut, installing the cut now would bring
  its client to the present positions, whatever execution the view shows it. An event of content told
  meanwhile extends what would be pushed again by itself; an update makes the capture void.
- `LiveInv`: the watermarks of a live stream are the present positions, and taking over what is buffered
  brings the client there (`Carries`). It gives `NothingGoesMissing`; with the order of the looks and the cut
  (`CaptureInv`) and with `QuietView` (no quiescent observation is of a running execution) it gives
  `SnapshotsAreOneInstant`.

The buffer and the client are recursive functions of a sequence of events. What is needed of them is
their law for one event more (`PushOneMore`, `TakeOneMore`) and that covered events change nothing
(`PushCovered`); both are by induction over a set of positions (`UpTo`, from the well-founded order of the naturals).

*Host runtime.* `HostInv` says who has claimed the host (`Claims`: the active task, unless a dispose that
was cancelled has left it behind), what a dispose has found (`Disposing`) and whose events are on the bus
(`Told`); `HostHasOneRun` and `DisposedHostIsQuiet` follow. `KeyInv` is inductive on top of it for
`KeyLeadsToLiveRun`, because a run that is over stays over (`DoneStays`).

*Approval broker.* `AnswerInv`: an accepted answer is the decision, which only a failing presenter takes
away, and a question without decision accepted nothing; hence `AcceptedAnswerWins`. `FactInv` adds what
every waiting caller has reserved and which confirmations rest on which permission; hence
`ConfirmationsStand`.

*Conversation store.* `RetireInv`: one process at a time is under the lock, and the tombstone a deletion
rests on (`Grave`) is there before it is acknowledged, and stays, unless the store goes by pathname and a
power loss took it (`Forgotten`); hence `DeletedStays`, without exception for rooted stores. `StoreInv` adds:
- `Disk`: what is synced is the beginning of what is seen, and a journal is missing only behind such
  a tombstone.
- `Heads`: a head, wherever it is kept, agrees with any journal that has its stamp (`Fits`). That is inductive
  because no step puts an old stamp on new lines: a write, a repair and a creation give a new one, and a
  power loss leaves a beginning of what had the stamp (`Ages`, `FitsKept`). Together with the size in the
  identity it gives that an accepted head is the journal (`AcceptedHead`), which is the question
  `_journal_identity` raises.
- `Working`: what a process under the lock knows of the journal. The records that an accepted call
  misses come right behind it (`MissingRecords`, `WriterKnows`), whether a head or the journal decided.
- `Acks`: receipts of synced appends are true of both copies of the journal, or the tombstone has replaced
  it, or all is `Forgotten`.

From it follow `ReceiptsStand`, `HeadsDescribe` and `AppendsAreFresh`, for any number of processes, faults
and power losses. They assume that batches and imports are sequences of records, that revisions are naturals
(`CallAssumption`) and that "no value" is no journal (`NoneAssumption`); nothing is assumed of the filter's collisions.

*Provider call.* `CallInv`: as long as the call has no end, what was shown is of the present attempt
(`Attempted`); what was read and what is in the queue are together what was sent, unless the stream
ended without a terminal event, and then its reader has left or its producer is over (`Streamed`); the
end that is shown or recorded is the first the assembler was given (`Kept`). Hence `OneAttemptIsShown`,
`NothingIsDropped`, `ShownEndIsRecorded`.

*Only model-checked.* Liveness under fairness is beyond the provers: `AbortEndsRun`, `LockGivenBack`,
`InterruptEnds`, `CloseReturns`, `WaitersGetOn`, `LeavingEnds`. Every invariant and action property of the
passing runs is stated by a theorem. The type invariants of `AgentLoop`, `AgentTree` and
`ExecutionRegistry` are part of the proofs and in no run.

## 5. Not modelled

- Of the modelled components: `close_owned_children` without a dispose, `wait_for_input` and tree limits;
  the host's input queue, turns and owned tasks; the scheduler; the other stores of a conversation and
  the branching transcript; the capacity of confirmations. Each would add state to a model that is near
  what TLC checks in minutes, and crosses none of the hazards listed.
- Session service, session continuity and session composition: wiring of the components above. A model
  would compose `ExecutionRegistry`, `HostRuntime` and `ConversationStore`, whose product is too large to
  check; their interfaces are what the modules' own actions of callers stand for.
- App server, app host, process hosting, workers, sandbox and tools: what happens is decided by system
  calls, sockets and processes, which a model could only invent.
- Plugin lifecycle, packages, policies, ontology, methods, providers' protocols, codecs, terminal
  interface and products: parsing, validation, rendering and pure functions over declared data, in which
  nothing interleaves; tests reach them well.

The modules thus cover a small share of the lines of the repository. They cover the asynchronous core:
what every product built on it relies on whenever something is aborted, retried, closed or killed.
