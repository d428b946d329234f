----------------------------- MODULE AgentLoop -----------------------------
(***************************************************************************)
(* One Agent (agent/agent.py) and the loop it drives (agent/agent_loop.py).*)
(*                                                                         *)
(* The agent is an asyncio object.  A run is one task; other callbacks of  *)
(* the event loop (abort, steer, follow_up, the 50 ms force-cancel timer,  *)
(* tool tasks) execute only where that task is suspended: at an `await` of *)
(* the listeners of an event, of the model task, of a hook or of a tool    *)
(* task.  Every value of pc but "idle" names such a suspension point, and  *)
(* an action of the run is the whole stretch of code between two of them.  *)
(* A message_start / message_end pair is one point, named by message_end:  *)
(* nothing the loop reads is written between the two.                      *)
(***************************************************************************)
EXTENDS Integers, Sequences, FiniteSets

CONSTANTS
  SteeringMode,   \* PendingMessageQueue.mode of the steering queue
  FollowUpMode,   \* PendingMessageQueue.mode of the follow-up queue
  Deliver,        \* the values of AgentRunOptions.deliver_queued_input used
  MaxTools,       \* bound: tool calls in one assistant message
  MaxInputs,      \* bound: prompts and queued messages ever accepted
  MaxRuns,        \* bound: runs started
  MaxBatches,     \* bound: model replies that call tools, over all runs
  MaxFaults       \* bound: exceptions out of listeners, providers, hooks and tools

ASSUME LoopAssumption ==
  /\ {SteeringMode, FollowUpMode} \subseteq {"all", "one-at-a-time"}
  /\ Deliver \subseteq BOOLEAN
  /\ MaxTools \in Nat \ {0}
  /\ {MaxInputs, MaxRuns, MaxBatches, MaxFaults} \subseteq Nat

VARIABLES
  messages,            \* AgentState.messages, the transcript
  queue,               \* mailbox_queue, steering_queue and follow_up_queue
  pc,                  \* where the run task is suspended
  entry,               \* what the executor of the run was asked to do
  deliver,             \* run_options.deliver_queued_input
  context,             \* current_context.messages of the loop
  pending,             \* prompts still to emit, then pending_messages
  aborted,             \* AbortSignal.aborted of the active run
  timer,               \* AbortController._force_cancel_handle
  mode,                \* how the current tool batch executes
  status,              \* progress of each tool call of the batch
  cur,                 \* the call the coordinator is at
  draining,            \* inside _finalize_completed_tool_tasks
  reraise,             \* a CancelledError is propagating out of the batch
  tool_results,        \* the results of the batch, as the loop collects them
  pending_tool_calls,  \* AgentState.pending_tool_calls
  orphans,             \* tool tasks still running though their run is over
  ends,                \* history: agent_end events of the active run
  torn,                \* history: messages whose listener was cancelled there
  budget               \* history: what is left of each bound

scope == <<entry, deliver, torn>>
inputs == <<queue, budget>>
signal == <<aborted, timer>>
batch == <<mode, status, cur, draining, reraise, tool_results, pending_tool_calls>>
vars == <<messages, queue, pc, entry, deliver, context, pending, aborted, timer, mode,
          status, cur, draining, reraise, tool_results, pending_tool_calls, orphans,
          ends, torn, budget>>

Lanes == {"mailbox", "steering", "follow_up"}
UserMessage == [role: {"user"}, lane: Lanes \cup {"prompt"}, id: Nat]
StopReason == {"stop", "toolUse", "error", "aborted"}
AssistantMessage == [role: {"assistant"}, stop: StopReason, calls: Nat]
ToolResult == [role: {"result"}, call: Nat, kind: {"final", "aborted"}]
Message == UserMessage \cup AssistantMessage \cup ToolResult

User(lane, id) == [role |-> "user", lane |-> lane, id |-> id]
Assistant(stop, n) == [role |-> "assistant", stop |-> stop, calls |-> n]
Result(i, kind) == [role |-> "result", call |-> i, kind |-> kind]
Final(s) == s[Len(s)]

\* PendingMessageQueue.drain: what one drain of a lane takes, and what it leaves.
DrainsAll(lane) == CASE lane = "steering" -> SteeringMode = "all"
                     [] lane = "follow_up" -> FollowUpMode = "all"
                     [] OTHER -> TRUE
Taken(lane) == IF DrainsAll(lane) \/ queue[lane] = <<>>
               THEN queue[lane] ELSE <<Head(queue[lane])>>
\* Mutant of Left: the queue is read, not drained.
LeftUndrained(lane) == queue[lane]
Left(lane) == IF DrainsAll(lane) \/ queue[lane] = <<>>
              THEN <<>> ELSE Tail(queue[lane])

\* Tool calls of the current batch; the ones that have no result yet.
Calls == {i \in 1..MaxTools : status[i] # "none"}
Open == {i \in Calls : status[i] # "result"}
In(s) == {i \in 1..MaxTools : status[i] = s}
FirstOf(S) == CHOOSE i \in S : \A j \in S : i <= j
NoBatch == [i \in 1..MaxTools |-> "none"]
Terminal == {"done", "late", "cancelled"}

Spend(bound) == /\ budget[bound] > 0
                /\ budget' = [budget EXCEPT ![bound] = @ - 1]
NextId == MaxInputs - budget.inputs + 1
-----------------------------------------------------------------------------
Init ==
  /\ messages = <<>> /\ context = <<>> /\ pending = <<>>
  /\ queue = [lane \in Lanes |-> <<>>]
  /\ pc = "idle" /\ entry = "prompt" /\ deliver = TRUE
  /\ aborted = FALSE /\ timer = "off"
  /\ mode = "sequential" /\ status = NoBatch /\ cur = 1
  /\ draining = FALSE /\ reraise = FALSE
  /\ tool_results = <<>> /\ pending_tool_calls = {} /\ orphans = 0
  /\ ends = 0 /\ torn = {}
  /\ budget = [inputs |-> MaxInputs, runs |-> MaxRuns,
               batches |-> MaxBatches, faults |-> MaxFaults]
-----------------------------------------------------------------------------
(***************************************************************************)
(* Callers of the Agent.                                                   *)
(***************************************************************************)

\* _run_with_lifecycle up to its first await: the run task exists, not started.
StartRun(plan, prompts, d) ==
  /\ pc = "idle" /\ pc' = "setup"
  /\ entry' = plan /\ pending' = prompts /\ deliver' = d
  /\ UNCHANGED <<messages, queue, context, signal, batch, orphans, ends, torn>>

\* Agent.prompt
Prompt(d) ==
  /\ budget.inputs > 0 /\ budget.runs > 0
  /\ budget' = [budget EXCEPT !.inputs = @ - 1, !.runs = @ - 1]
  /\ StartRun("prompt", <<User("prompt", NextId)>>, d)

\* Agent.continue_run: after an assistant message the first queue that holds
\* input, else a retry of a failed reply; after any other message a continuation.
ContinueRun(d) ==
  LET held(lane) == d /\ queue[lane] # <<>>
      plan == IF Final(messages).role # "assistant" THEN "continue"
              ELSE IF held("mailbox")   THEN "mailbox"
              ELSE IF held("steering")  THEN "steering"
              ELSE IF held("follow_up") THEN "follow_up" ELSE "retry"
  IN /\ Spend("runs")
     /\ messages # <<>>
     /\ plan = "retry" => Final(messages).stop = "error"
     /\ StartRun(plan, <<>>, d)

\* Agent.enqueue_mailbox, Agent.steer, Agent.follow_up: at any time.
Enqueue(lane) ==
  /\ Spend("inputs")
  /\ queue' = [queue EXCEPT ![lane] = Append(@, User(lane, NextId))]
  /\ UNCHANGED <<messages, pc, scope, context, pending, signal, batch, orphans, ends>>

\* Agent.clear_all_queues
ClearQueues ==
  /\ \E lane \in Lanes : queue[lane] # <<>>
  /\ queue' = [lane \in Lanes |-> <<>>]
  /\ UNCHANGED <<messages, pc, scope, context, pending, signal, batch, orphans, ends, budget>>

\* Agent.abort, and the cancellation of the caller of the run, which aborts and
\* goes on waiting for the run task.
Abort ==
  /\ pc # "idle" /\ ~aborted
  /\ aborted' = TRUE /\ timer' = "armed"
  /\ UNCHANGED <<messages, inputs, pc, scope, context, pending, batch, orphans, ends>>

\* Mutant of Cancelling: the timer reaches the model task only.
CancellingNothing == status
Cancelling == [i \in 1..MaxTools |-> IF status[i] = "running" THEN "cancelling" ELSE status[i]]

\* AbortSignal._cancel_execution_tasks, run by the timer of AbortController.abort
ForceCancel ==
  /\ timer = "armed" /\ timer' = "fired"
  /\ status' = Cancelling
  /\ UNCHANGED <<messages, inputs, pc, scope, context, pending, aborted, mode, cur, draining,
                 reraise, tool_results, pending_tool_calls, orphans, ends>>
-----------------------------------------------------------------------------
(***************************************************************************)
(* How a run ends.                                                         *)
(***************************************************************************)

\* Agent._finish_run, and the locals of the run go; tool tasks that nobody awaits
\* any more go on running.
FinishRun ==
  /\ pc' = "idle" /\ aborted' = FALSE /\ timer' = "off"
  /\ orphans' = orphans + Cardinality(In("running") \cup In("cancelling"))
  /\ status' = NoBatch /\ draining' = FALSE /\ reraise' = FALSE
  /\ tool_results' = <<>> /\ pending_tool_calls' = {}
  /\ context' = <<>> /\ pending' = <<>> /\ ends' = 0
  /\ entry' = "prompt" /\ deliver' = TRUE /\ mode' = "sequential" /\ cur' = 1
  /\ UNCHANGED messages

\* Agent._handle_run_failure: an exception left the executor of the run.
FailRun ==
  /\ messages' = Append(messages, Assistant(IF aborted THEN "aborted" ELSE "error", 0))
  /\ ends' = ends + 1
  /\ pc' = "failed"
  /\ UNCHANGED <<queue, scope, context, pending, signal, batch, orphans>>

\* _emit_aborted_turn, up to the listeners of the boundary message.
AbortTurn ==
  /\ messages' = Append(messages, Assistant("aborted", 0))
  /\ context' = Append(context, Assistant("aborted", 0))
  /\ pending' = <<>>
  /\ pc' = "lastMessage"

\* The turn_end event and then the agent_end event of a run that is over.
LastTurn ==
  /\ pc = "lastMessage" /\ pc' = "lastTurn"
  /\ UNCHANGED <<messages, inputs, scope, context, pending, signal, batch, orphans, ends>>
EndAgent ==
  /\ pc' = "agentEnd" /\ ends' = ends + 1
  /\ UNCHANGED <<messages, queue, scope, context, pending, signal, batch, orphans>>
LastTurnEnded ==
  /\ pc = "lastTurn" /\ EndAgent /\ UNCHANGED budget

\* The listeners of agent_end have returned, or those of a failure's agent_end
\* have returned or raised.
RunEnded == pc \in {"agentEnd", "failed"} /\ FinishRun /\ UNCHANGED <<inputs, torn>>

\* A listener, a provider or the set-up of the run raises: the exception passes
\* through the loop (and past the tool tasks of a batch) to the runner.
Raises ==
  /\ pc \in {"setup", "prompts", "inject", "model", "reply", "prepare", "after", "outcome",
             "cut", "batchEnd", "turnEnd", "lastMessage", "lastTurn", "agentEnd"}
  /\ Spend("faults") /\ FailRun

\* A CancelledError nobody requested reaches the runner.
CancelledRun == IF aborted THEN FailRun ELSE FinishRun /\ UNCHANGED <<queue, torn>>

\* It comes out of a listener, of any event but the ones of a tool call (see
\* HookCancelled and OutcomeCancelled): the run is left where it is.
ListenerCancelled ==
  /\ pc \in {"prompts", "inject", "reply", "cut", "batchEnd", "turnEnd", "lastMessage",
             "lastTurn", "agentEnd"}
  /\ Spend("faults")
  /\ IF aborted THEN FailRun
     ELSE FinishRun /\ UNCHANGED queue /\ torn' = torn \cup {Len(messages)}
-----------------------------------------------------------------------------
(***************************************************************************)
(* The loop.                                                               *)
(***************************************************************************)

\* The executor of the run, up to the listeners of agent_start and turn_start.
\* Queued input is drained only here; a run left without input has no events.
SetUp ==
  LET lane == entry \in Lanes
      input == IF lane THEN Taken(entry) ELSE pending
      failed == entry = "retry" /\ Final(messages).role = "assistant"
                                /\ Final(messages).stop = "error"
      history == IF failed THEN SubSeq(messages, 1, Len(messages) - 1) ELSE messages
      fresh == entry \in {"continue", "retry"}
  IN /\ pc = "setup" /\ UNCHANGED budget
     /\ IF lane /\ input = <<>> THEN FinishRun /\ UNCHANGED <<queue, torn>>
        ELSE IF fresh /\ (history = <<>> \/ Final(history).role = "assistant") THEN FailRun
        ELSE /\ pc' = "prompts"
             /\ queue' = IF lane THEN [queue EXCEPT ![entry] = Left(entry)] ELSE queue
             /\ context' = history \o input
             /\ pending' = input
             /\ UNCHANGED <<messages, scope, signal, batch, orphans, ends>>

\* run_agent_loop emits the prompts, which the context already holds.
EmitPrompt ==
  /\ pc = "prompts" /\ pending # <<>>
  /\ messages' = Append(messages, Head(pending)) /\ pending' = Tail(pending)
  /\ UNCHANGED <<inputs, pc, scope, context, signal, batch, orphans, ends>>

\* Mutant of EnterTurn: the signal is not checked before the turn.
EnterTurnUnchecked(input, first) ==
  /\ pc' = IF first /\ input = <<>> THEN "model" ELSE "inject"
  /\ pending' = input
  /\ UNCHANGED <<messages, context>>

\* Top of the inner loop with the input just polled, which an abort discards.
\* In the first turn turn_start is already emitted.
EnterTurn(input, first) ==
  IF aborted THEN AbortTurn
  ELSE /\ pc' = IF first /\ input = <<>> THEN "model" ELSE "inject"
       /\ pending' = input
       /\ UNCHANGED <<messages, context>>

\* _poll_immediate_inputs: the mailbox, then steering unless the poll is skipped.
Immediate(skip) == IF ~deliver THEN <<>>
                   ELSE queue["mailbox"] \o IF skip THEN <<>> ELSE Taken("steering")
\* Mutant of AfterImmediate: the poll that skips steering still drains it.
AfterImmediateUnskipped(skip) ==
  IF ~deliver THEN queue
  ELSE [queue EXCEPT !["mailbox"] = <<>>, !["steering"] = Left("steering")]
AfterImmediate(skip) ==
  IF ~deliver THEN queue
  ELSE [queue EXCEPT !["mailbox"] = <<>>, !["steering"] = IF skip THEN @ ELSE Left("steering")]

FirstPoll ==
  LET skip == entry = "steering"
  IN /\ pc = "prompts" /\ pending = <<>>
     /\ EnterTurn(Immediate(skip), TRUE)
     /\ queue' = AfterImmediate(skip)
     /\ UNCHANGED <<budget, scope, signal, batch, orphans, ends>>

\* Mutant of Inject: the message is emitted but not put in the context.
InjectEmitOnly ==
  /\ pc = "inject" /\ pending # <<>>
  /\ messages' = Append(messages, Head(pending)) /\ pending' = Tail(pending)
  /\ UNCHANGED <<inputs, pc, scope, context, signal, batch, orphans, ends>>

\* Pending messages are emitted one by one, whatever the signal says meanwhile.
Inject ==
  /\ pc = "inject" /\ pending # <<>>
  /\ messages' = Append(messages, Head(pending))
  /\ context' = Append(context, Head(pending))
  /\ pending' = Tail(pending)
  /\ UNCHANGED <<inputs, pc, scope, signal, batch, orphans, ends>>

\* The second check of the signal, then the model task is created.
CallModel ==
  /\ pc = "inject" /\ pending = <<>>
  /\ IF aborted THEN AbortTurn ELSE pc' = "model" /\ UNCHANGED <<messages, context, pending>>
  /\ UNCHANGED <<inputs, scope, signal, batch, orphans, ends>>

\* The model task returned a message, possibly just before it would be cancelled.
Reply(stop, n) ==
  /\ messages' = Append(messages, Assistant(stop, n))
  /\ context' = Append(context, Assistant(stop, n))
  /\ pc' = "reply"
  /\ UNCHANGED <<queue, scope, pending, signal, batch, orphans, ends>>
ModelReplies ==
  /\ pc = "model" /\ UNCHANGED budget
  /\ \/ Reply("stop", 0)
     \/ Reply("error", 0)
     \/ aborted /\ Reply("aborted", 0)
\* A reply that failed keeps the tool calls it had received.
ModelCallsTools(n) ==
  /\ pc = "model" /\ Spend("batches")
  /\ \/ Reply("toolUse", n)
     \/ Reply("error", n)
     \/ aborted /\ Reply("aborted", n)

\* The model task saw the abort, or the timer cancelled it.
ModelAborts ==
  /\ pc = "model" /\ aborted /\ AbortTurn
  /\ UNCHANGED <<inputs, scope, signal, batch, orphans, ends>>
\* The model task ends in a CancelledError of its own.
ModelCancelled ==
  /\ pc = "model" /\ ~aborted /\ Spend("faults") /\ CancelledRun
-----------------------------------------------------------------------------
(***************************************************************************)
(* The tool batch of one assistant message.                                *)
(***************************************************************************)

\* tool_execution_start of call i; its listeners and the before hook follow.
StartCall(i, st) ==
  /\ pc' = "prepare" /\ cur' = i
  /\ status' = [st EXCEPT ![i] = "preparing"]
  /\ pending_tool_calls' = pending_tool_calls \cup {i}

\* The listeners of the assistant message have returned.  A failed reply ends the
\* run, and its calls are never made.
ReplyEnded ==
  LET reply == Final(messages)
      fresh == [i \in 1..MaxTools |-> IF i <= reply.calls THEN "todo" ELSE "none"]
  IN /\ pc = "reply"
     /\ \/ /\ reply.stop \in {"error", "aborted"}
           /\ pc' = "lastTurn" /\ UNCHANGED <<messages, context, pending, batch>>
        \/ /\ reply.stop \notin {"error", "aborted"} /\ aborted
           /\ AbortTurn /\ UNCHANGED batch
        \/ /\ reply.stop = "stop" /\ ~aborted
           /\ pc' = "turnEnd" /\ UNCHANGED <<messages, context, pending, batch>>
        \/ /\ reply.stop = "toolUse" /\ ~aborted
           /\ mode' \in {"sequential", "parallel"}
           /\ StartCall(1, fresh)
           /\ UNCHANGED <<messages, context, pending, draining, reraise, tool_results>>
     /\ UNCHANGED <<inputs, scope, signal, orphans, ends>>

\* Mutant of Settle: tool_execution_end is not processed.
SettleStaysPending(i, kind, at) ==
  /\ messages' = Append(messages, Result(i, kind))
  /\ tool_results' = Append(tool_results, Result(i, kind))
  /\ status' = [status EXCEPT ![i] = "result"]
  /\ pc' = at /\ cur' = i
  /\ UNCHANGED <<context, pending_tool_calls>>

\* _emit_tool_call_outcome, up to the listeners of the result message.
Settle(i, kind, at) ==
  /\ messages' = Append(messages, Result(i, kind))
  /\ tool_results' = Append(tool_results, Result(i, kind))
  /\ pending_tool_calls' = pending_tool_calls \ {i}
  /\ status' = [status EXCEPT ![i] = "result"]
  /\ pc' = at /\ cur' = i
  /\ UNCHANGED context

\* _emit_aborted_tool_results: one per call without a result; then the collected
\* results enter the context and turn_end is emitted.
Cut == IF Open # {} THEN Settle(FirstOf(Open), "aborted", "cut")
       ELSE /\ context' = context \o tool_results
            /\ pc' = "batchEnd"
            /\ UNCHANGED <<messages, status, cur, tool_results, pending_tool_calls>>

\* A stretch of the coordinator that touches nothing outside the batch.
Coordinates == UNCHANGED <<queue, scope, pending, signal, orphans, ends>>

\* What follows a preparation or the listeners of a result: the next call of the
\* preparation loop, the launch of the prepared calls (cancelled at once under an
\* abort), the next task to await, the next completed task to save, or the end.
NextCall(st) ==
  LET is(s) == {i \in 1..MaxTools : st[i] = s}
      open == {i \in 1..MaxTools : st[i] \notin {"none", "result"}}
      launched == [i \in 1..MaxTools |->
                     IF st[i] = "ready" THEN IF aborted THEN "cancelled" ELSE "running" ELSE st[i]]
      batchDone == /\ context' = context \o tool_results
                   /\ pc' \in {"turnEnd", "lastTurn"}
  IN CASE draining ->
            IF is("done") # {}
            THEN /\ pc' = "after" /\ cur' = FirstOf(is("done"))
                 /\ UNCHANGED <<messages, context, status, tool_results, pending_tool_calls>>
            ELSE Cut
       [] ~draining /\ is("todo") # {} ->
            IF aborted THEN Cut
            ELSE StartCall(FirstOf(is("todo")), st) /\ UNCHANGED <<messages, context, tool_results>>
       [] ~draining /\ is("todo") = {} /\ open # {} ->
            /\ status' = launched /\ pc' = "exec" /\ cur' = FirstOf(open)
            /\ UNCHANGED <<messages, context, tool_results, pending_tool_calls>>
       [] ~draining /\ open = {} ->
            IF aborted THEN Cut
            ELSE batchDone /\ UNCHANGED <<messages, status, cur, tool_results, pending_tool_calls>>

\* _prepare_tool_call returned an immediate outcome (no such tool, arguments
\* rejected, blocked by the hook).
PreparedImmediate ==
  /\ pc = "prepare" /\ IF aborted THEN Cut ELSE Settle(cur, "final", "outcome")
  /\ Coordinates /\ UNCHANGED <<budget, mode, draining, reraise>>

\* _prepare_tool_call returned a call to execute: now if the batch is sequential.
PreparedCall ==
  /\ pc = "prepare"
  /\ IF aborted THEN Cut
     ELSE IF mode = "sequential"
     THEN /\ status' = [status EXCEPT ![cur] = "running"] /\ pc' = "exec"
          /\ UNCHANGED <<messages, context, cur, tool_results, pending_tool_calls>>
     ELSE NextCall([status EXCEPT ![cur] = "ready"])
  /\ Coordinates /\ UNCHANGED <<budget, mode, draining, reraise>>

OutcomeEnded ==
  /\ pc = "outcome" /\ NextCall(status)
  /\ Coordinates /\ UNCHANGED <<budget, mode, draining, reraise>>

\* The coordinator waits for every task of the batch, the running ones cancelled.
Gather == /\ pc' = "gather" /\ status' = Cancelling
          /\ UNCHANGED <<messages, context, cur, tool_results, pending_tool_calls>>

\* The task of call cur is done: the await returned, or raised CancelledError.
Awaited ==
  /\ pc = "exec" /\ status[cur] \in Terminal
  /\ IF mode = "parallel" /\ aborted
     THEN Gather /\ draining' = TRUE /\ UNCHANGED reraise
     ELSE IF status[cur] = "done"
     THEN /\ pc' = "after"
          /\ UNCHANGED <<messages, context, status, cur, draining, reraise, tool_results,
                         pending_tool_calls>>
     ELSE /\ reraise' = (status[cur] = "cancelled" /\ ~aborted)
          /\ IF mode = "parallel" THEN Gather ELSE Cut
          /\ UNCHANGED draining
  /\ Coordinates /\ UNCHANGED <<budget, mode>>

\* Mutant of Gathered: the cancelled tasks are not awaited.
GatheredEarly ==
  /\ pc = "gather"
  /\ IF reraise THEN Cut ELSE NextCall(status)
  /\ Coordinates /\ UNCHANGED <<budget, mode, draining, reraise>>

\* Every task has ended: completed ones are saved unless a CancelledError leaves.
Gathered ==
  /\ pc = "gather" /\ In("running") \cup In("cancelling") = {}
  /\ IF reraise THEN Cut ELSE NextCall(status)
  /\ Coordinates /\ UNCHANGED <<budget, mode, draining, reraise>>

\* The after hook returned (or raised, which only replaces the result).
AfterHook ==
  /\ pc = "after" /\ Settle(cur, "final", "outcome")
  /\ Coordinates /\ UNCHANGED <<budget, mode, draining, reraise>>

\* Mutant of HookCancelled: the error leaves the batch past the aborted results.
HookCancelledUncut ==
  /\ pc \in {"prepare", "after"} /\ Spend("faults")
  /\ reraise' = TRUE /\ pc' = "batchEnd"
  /\ UNCHANGED <<messages, context, status, cur, tool_results, pending_tool_calls>>
  /\ Coordinates /\ UNCHANGED <<mode, draining>>

\* A hook awaited something that was cancelled; the tools of the batch are cancelled.
HookCancelled ==
  /\ pc \in {"prepare", "after"} /\ Spend("faults")
  /\ reraise' = TRUE
  /\ IF pc = "after" /\ mode = "parallel" THEN Gather ELSE Cut
  /\ Coordinates /\ UNCHANGED <<mode, draining>>

\* A listener of a result was cancelled: the result is in the transcript but was not
\* collected, so its call is open again.  Tools that run are cancelled and waited for
\* (where none runs the code does not wait, and neither does Gathered).
OutcomeCancelled ==
  /\ pc = "outcome" /\ Spend("faults")
  /\ reraise' = TRUE /\ pc' = "gather"
  /\ status' = [Cancelling EXCEPT ![cur] = "todo"]
  /\ tool_results' = SubSeq(tool_results, 1, Len(tool_results) - 1)
  /\ torn' = torn \cup {Len(messages)}
  /\ UNCHANGED <<messages, queue, entry, deliver, context, pending, signal, mode, cur,
                 draining, pending_tool_calls, orphans, ends>>

CutNext ==
  /\ pc = "cut" /\ Cut
  /\ Coordinates /\ UNCHANGED <<budget, mode, draining, reraise>>

\* turn_end of an interrupted batch: the boundary message, or the CancelledError.
BatchEnded ==
  /\ pc = "batchEnd" /\ UNCHANGED budget
  /\ IF reraise THEN CancelledRun
     ELSE AbortTurn /\ UNCHANGED <<queue, scope, signal, batch, orphans, ends>>

\* turn_end of a turn: input polled at the boundary, a follow-up if the agent would
\* stop otherwise, or the end of the run.
TurnEnded ==
  LET now == Immediate(FALSE)
      follow == IF deliver THEN Taken("follow_up") ELSE <<>>
      next(input) == /\ EnterTurn(input, FALSE)
                     /\ status' = NoBatch /\ tool_results' = <<>>
                     /\ UNCHANGED <<budget, scope, signal, mode, cur, draining, reraise,
                                    pending_tool_calls, orphans, ends>>
  IN /\ pc = "turnEnd"
     /\ CASE Calls # {} \/ now # <<>> -> next(now) /\ queue' = AfterImmediate(FALSE)
          [] Calls = {} /\ now = <<>> /\ follow # <<>> ->
               next(follow) /\ queue' = [queue EXCEPT !["follow_up"] = Left("follow_up")]
          [] Calls = {} /\ now = <<>> /\ follow = <<>> -> EndAgent /\ UNCHANGED budget
-----------------------------------------------------------------------------
(***************************************************************************)
(* The tool tasks.                                                         *)
(***************************************************************************)
ToolStep(i, s) ==
  /\ status' = [status EXCEPT ![i] = s]
  /\ UNCHANGED <<messages, queue, pc, scope, context, pending, signal, mode, cur, draining,
                 reraise, tool_results, pending_tool_calls, orphans, ends>>

\* The tool returned or raised; completed_before_abort is sampled here.  A tool
\* asked to cancel may still return.
ToolCompletes(i) ==
  /\ status[i] \in {"running", "cancelling"}
  /\ ToolStep(i, IF aborted THEN "late" ELSE "done") /\ UNCHANGED budget

\* The tool unwinds with CancelledError, when asked to or by a fault of its own.
ToolCancelled(i) ==
  /\ \/ status[i] = "cancelling" /\ UNCHANGED budget
     \/ status[i] = "running" /\ Spend("faults")
  /\ ToolStep(i, "cancelled")

OrphanEnds ==
  /\ orphans > 0 /\ orphans' = orphans - 1
  /\ UNCHANGED <<messages, inputs, pc, scope, context, pending, signal, batch, ends>>
-----------------------------------------------------------------------------
Caller == \/ \E d \in Deliver : Prompt(d) \/ ContinueRun(d)
          \/ \E lane \in Lanes : Enqueue(lane)
          \/ ClearQueues
          \/ Abort

Run == \/ SetUp \/ EmitPrompt \/ FirstPoll \/ Inject \/ CallModel
       \/ ModelReplies \/ ModelAborts \/ ModelCancelled
       \/ \E n \in 1..MaxTools : ModelCallsTools(n)
       \/ ReplyEnded \/ PreparedImmediate \/ PreparedCall \/ OutcomeEnded
       \/ Awaited \/ Gathered \/ AfterHook \/ HookCancelled \/ OutcomeCancelled
       \/ CutNext \/ BatchEnded \/ TurnEnded
       \/ LastTurn \/ LastTurnEnded \/ RunEnded \/ Raises \/ ListenerCancelled

Tool == \/ \E i \in 1..MaxTools : ToolCompletes(i) \/ ToolCancelled(i)
        \/ OrphanEnds

\* An idle agent waits for its callers.
Idle == pc = "idle" /\ UNCHANGED vars

Next == Caller \/ ForceCancel \/ Run \/ Tool \/ Idle

Spec == Init /\ [][Next]_vars

(***************************************************************************)
(* Fairness, once the run is aborted.  Listeners and hooks return (they are*)
(* awaited without a timeout and are given the signal), the event loop runs*)
(* the timer, and a task that was cancelled ends.  Nothing is assumed of a *)
(* model or a tool that has not been cancelled.                            *)
(***************************************************************************)
Unwinds(i) == status[i] = "cancelling" /\ (ToolCompletes(i) \/ ToolCancelled(i))
RunAborts == aborted /\ (pc = "model" => timer = "fired") /\ Run
FairSpec == /\ Spec
            /\ WF_vars(RunAborts) /\ WF_vars(ForceCancel)
            /\ \A i \in 1..MaxTools : WF_vars(Unwinds(i))
-----------------------------------------------------------------------------
CallStatus == {"none", "todo", "preparing", "ready", "running", "cancelling", "result"} \cup Terminal
Suspended == {"setup", "prompts", "inject", "model", "reply", "prepare", "exec", "gather", "after",
              "outcome", "cut", "batchEnd", "turnEnd", "lastMessage", "lastTurn", "agentEnd",
              "failed"}

\* The type of every variable.
TypeOK ==
  /\ messages \in Seq(Message) /\ context \in Seq(Message) /\ pending \in Seq(UserMessage)
  /\ queue \in [Lanes -> Seq(UserMessage)]
  /\ pc \in Suspended \cup {"idle"}
  /\ entry \in Lanes \cup {"prompt", "continue", "retry"} /\ deliver \in BOOLEAN
  /\ aborted \in BOOLEAN /\ timer \in {"off", "armed", "fired"}
  /\ mode \in {"sequential", "parallel"}
  /\ status \in [1..MaxTools -> CallStatus] /\ cur \in 1..MaxTools
  /\ draining \in BOOLEAN /\ reraise \in BOOLEAN
  /\ tool_results \in Seq(ToolResult) /\ pending_tool_calls \subseteq 1..MaxTools
  /\ orphans \in Nat /\ ends \in Nat /\ torn \subseteq Nat
  /\ budget \in [{"inputs", "runs", "batches", "faults"} -> Nat]

\* What there is of a lane's input, oldest first: spoken, about to be spoken, queued.
Lane(lane) == messages \o pending \o queue[lane]
IsOf(m, lane) == m.role = "user" /\ m.lane = lane

\* Input of one lane reaches the transcript in the order it was accepted in, and
\* at most once, whatever drains it: an idle continuation, a poll, a follow-up.
LaneOrder ==
  \A lane \in Lanes : LET s == Lane(lane) IN
    \A i, j \in 1..Len(s) :
      i < j /\ IsOf(s[i], lane) /\ IsOf(s[j], lane) => s[i].id < s[j].id

\* The results that answer the calls of the assistant message at position k: the
\* run of result messages directly behind it.
Answers(s, k) ==
  {j \in k + 1 .. Len(s) : \A x \in k + 1 .. j : s[x].role = "result"}
Answered(s, k) == {s[j].call : j \in Answers(s, k)} = 1 .. s[k].calls
CallsAt(s) == {k \in 1..Len(s) : s[k].role = "assistant" /\ s[k].calls > 0}

\* Tool results directly follow the message that called for them.  Calls of a failed
\* reply have none.  A call has one at most, but for the call whose result was being
\* announced when a listener was cancelled: an aborted result follows that one.  And a
\* call has none only before the message that closes an interrupted run, where a
\* cancelled listener left the run, or while the batch is being executed.
CallsPaired ==
  /\ \A j \in 1..Len(messages) : messages[j].role = "result" =>
       \E k \in CallsAt(messages) : j \in Answers(messages, k)
  /\ \A k \in CallsAt(messages) :
       LET last == k + Cardinality(Answers(messages, k))
           next == last + 1
       IN /\ \A i, j \in Answers(messages, k) :
               i < j /\ messages[i].call = messages[j].call =>
                 i \in torn /\ messages[j].kind = "aborted"
          /\ \A j \in Answers(messages, k) : messages[j].call \in 1 .. messages[k].calls
          /\ \/ messages[k].stop # "toolUse" /\ last = k
             \/ messages[k].stop = "toolUse" /\ Answered(messages, k)
             \/ next > Len(messages) /\ pc # "idle"
             \/ next <= Len(messages) /\ messages[next].role = "assistant"
                                      /\ messages[next].stop \in {"error", "aborted"}
             \/ last \in torn

\* What the model is asked to continue is the transcript, without the failed
\* reply a retry leaves out.
ContextIsTranscript ==
  pc = "model" =>
    \/ context = messages
    \/ /\ entry = "retry"
       /\ \E k \in 1..Len(messages) :
            /\ messages[k].role = "assistant" /\ messages[k].stop = "error"
            /\ context = SubSeq(messages, 1, k - 1) \o SubSeq(messages, k + 1, Len(messages))

\* The calls the agent reports as pending are the ones started and not yet settled,
\* however the batch, or the run, was left.
Unsettled == {i \in Calls : status[i] \notin {"todo", "result"}}
PendingCallsExact == pending_tool_calls = Unsettled

\* A result is reported for a call only when its tool is no longer executing: the
\* coordinator has waited for the task, also for the tasks it has cancelled.
ToolOverBeforeResult ==
  [][\A i \in In("running") \cup In("cancelling") : status'[i] # "result"]_vars

\* Nothing new is started for an aborted run: no model call, no tool.
NothingStartsAborted ==
  [][/\ pc' = "model" /\ pc # "model" => ~aborted
     /\ \A i \in 1..MaxTools : status'[i] = "running" /\ status[i] # "running" => ~aborted]_vars

Held == UNION {{s[i] : i \in 1..Len(s)} : s \in {queue[lane] : lane \in Lanes} \cup {pending}}
Spoken == {messages[i] : i \in 1..Len(messages)}

\* Accepted input disappears only when the caller clears the queues, the run is
\* aborted, or the run failed, or was cancelled by a listener, while it was speaking
\* the input.
InputLostOnlyByAbort ==
  [][\/ Held \subseteq Held' \cup Spoken'
     \/ ClearQueues \/ ListenerCancelled \/ aborted \/ pc = "failed"]_vars

\* An aborted run ends: the force-cancel timer reaches whatever it is waiting for.
AbortEndsRun == aborted ~> pc = "idle"
=============================================================================
