-------------------------- MODULE AgentLoopProofs --------------------------
(***************************************************************************)
(* Proofs about AgentLoop, for every queue mode and every bound.           *)
(***************************************************************************)
EXTENDS AgentLoop, SequenceTheorems, FiniteSetTheorems, WellFoundedInduction, TLAPS

\* The order < of the naturals, as a set of pairs.
Below == {ss \in Nat \X Nat : ss[1] < ss[2]}

\* A nonempty set of naturals has a first element.
LEMMA FirstInSet ==
  ASSUME NEW S \in SUBSET Nat, S # {}
  PROVE  FirstOf(S) \in S
<1>1. IsWellFoundedOn(Below, Nat)
  BY NatLessThanWellFounded, Zenon DEF OpToRel, Below
<1>2. PICK x \in S : \A y \in S : ~ (<<y, x>> \in Below)
  BY <1>1, WFMin, Zenon
<1>3. ASSUME NEW y \in S PROVE x <= y
  <2>1. <<y, x>> \notin Below BY <1>2, Zenon
  <2>2. y \in Nat /\ x \in Nat OBVIOUS
  <2>3. ~ (y < x) BY <2>1, <2>2 DEF Below
  <2>. QED BY <2>2, <2>3
<1>. QED BY <1>3 DEF FirstOf

(***************************************************************************)
(* Type correctness.  An identifier is a natural number because the inputs *)
(* left never exceed the inputs allowed.                                   *)
(***************************************************************************)
TypeInv == TypeOK /\ budget.inputs <= MaxInputs

\* What an unchanged part of the state contributes to the type invariant.
QueueOK == queue \in [Lanes -> Seq(UserMessage)]
BudgetOK == /\ budget \in [{"inputs", "runs", "batches", "faults"} -> Nat]
            /\ budget.inputs <= MaxInputs
RunOK == /\ pc \in Suspended \cup {"idle"} /\ ends \in Nat /\ orphans \in Nat
         /\ entry \in Lanes \cup {"prompt", "continue", "retry"} /\ deliver \in BOOLEAN
         /\ aborted \in BOOLEAN /\ timer \in {"off", "armed", "fired"}
         /\ torn \subseteq Nat
TalkOK == messages \in Seq(Message) /\ context \in Seq(Message) /\ pending \in Seq(UserMessage)
BatchOK == /\ mode \in {"sequential", "parallel"}
           /\ status \in [1..MaxTools -> CallStatus] /\ cur \in 1..MaxTools
           /\ draining \in BOOLEAN /\ reraise \in BOOLEAN
           /\ tool_results \in Seq(ToolResult) /\ pending_tool_calls \subseteq 1..MaxTools

LEMMA TypeParts == TypeInv <=> QueueOK /\ BudgetOK /\ RunOK /\ TalkOK /\ BatchOK
BY DEF TypeInv, TypeOK, QueueOK, BudgetOK, RunOK, TalkOK, BatchOK

LEMMA Bounds ==
  /\ MaxTools \in Nat /\ 1 \in 1..MaxTools
  /\ MaxInputs \in Nat /\ MaxRuns \in Nat /\ MaxBatches \in Nat /\ MaxFaults \in Nat
BY LoopAssumption

LEMMA InitType == Init => TypeInv
<1>. SUFFICES ASSUME Init PROVE TypeInv OBVIOUS
<1>1. QueueOK BY DEF Init, QueueOK
<1>2. BudgetOK BY Bounds DEF Init, BudgetOK
<1>3. RunOK BY DEF Init, RunOK, Suspended
<1>4. TalkOK BY DEF Init, TalkOK
<1>5. BatchOK
  <2>1. NoBatch \in [1..MaxTools -> CallStatus] BY DEF NoBatch, CallStatus
  <2>2. <<>> \in Seq(ToolResult) OBVIOUS
  <2>. QED BY <2>1, <2>2, Bounds DEF Init, BatchOK
<1>. QED BY <1>1, <1>2, <1>3, <1>4, <1>5, TypeParts

\* A drain takes messages of the queue and leaves messages of the queue.
LEMMA DrainType ==
  ASSUME QueueOK, NEW lane \in Lanes
  PROVE  Taken(lane) \in Seq(UserMessage) /\ Left(lane) \in Seq(UserMessage)
<1>1. queue[lane] \in Seq(UserMessage) BY DEF QueueOK
<1>2. CASE DrainsAll(lane) \/ queue[lane] = <<>>
  BY <1>1, <1>2 DEF Taken, Left
<1>3. CASE ~ (DrainsAll(lane) \/ queue[lane] = <<>>)
  BY <1>1, <1>3, HeadTailProperties DEF Taken, Left
<1>. QED BY <1>2, <1>3

LEMMA NextIdType == BudgetOK => NextId \in Nat
BY LoopAssumption DEF BudgetOK, NextId

LEMMA MessageTypes ==
  /\ UserMessage \subseteq Message /\ ToolResult \subseteq Message
  /\ Seq(UserMessage) \subseteq Seq(Message) /\ Seq(ToolResult) \subseteq Seq(Message)
  /\ \A stop \in StopReason, n \in Nat : Assistant(stop, n) \in Message
  /\ \A i \in Nat, kind \in {"final", "aborted"} : Result(i, kind) \in ToolResult
  /\ \A lane \in Lanes \cup {"prompt"}, id \in Nat : User(lane, id) \in UserMessage
<1>1. UserMessage \subseteq Message /\ ToolResult \subseteq Message BY DEF Message
<1>2. Seq(UserMessage) \subseteq Seq(Message) BY <1>1, SeqMonotonic
<1>3. Seq(ToolResult) \subseteq Seq(Message) BY <1>1, SeqMonotonic
<1>4. \A stop \in StopReason, n \in Nat : Assistant(stop, n) \in Message
  BY DEF Assistant, Message, AssistantMessage
<1>5. \A i \in Nat, kind \in {"final", "aborted"} : Result(i, kind) \in ToolResult
  BY DEF Result, ToolResult
<1>6. \A lane \in Lanes \cup {"prompt"}, id \in Nat : User(lane, id) \in UserMessage
  BY DEF User, UserMessage
<1>. QED BY <1>1, <1>2, <1>3, <1>4, <1>5, <1>6

\* The part of the state the coordinator of a tool batch writes.
CoordinatorOK ==
  /\ messages \in Seq(Message) /\ context \in Seq(Message)
  /\ status \in [1..MaxTools -> CallStatus] /\ cur \in 1..MaxTools
  /\ tool_results \in Seq(ToolResult) /\ pending_tool_calls \subseteq 1..MaxTools
  /\ pc \in Suspended

LEMMA CoordinatorType ==
  ASSUME TypeInv, CoordinatorOK', Coordinates, BudgetOK', mode' \in {"sequential", "parallel"},
         draining' \in BOOLEAN, reraise' \in BOOLEAN
  PROVE  TypeInv'
<1>1. QueueOK' BY TypeParts DEF Coordinates, QueueOK
<1>2. RunOK' BY TypeParts DEF Coordinates, RunOK, CoordinatorOK, scope, signal
<1>3. TalkOK' BY TypeParts DEF Coordinates, TalkOK, CoordinatorOK
<1>4. BatchOK' BY DEF BatchOK, CoordinatorOK
<1>. QED BY <1>1, <1>2, <1>3, <1>4, TypeParts DEF TypeInv, TypeOK, QueueOK, BudgetOK, RunOK, TalkOK, BatchOK

LEMMA SpendType ==
  ASSUME BudgetOK, NEW bound \in {"inputs", "runs", "batches", "faults"}, Spend(bound)
  PROVE  BudgetOK'
BY Bounds DEF BudgetOK, Spend

LEMMA CoordinatorNow == TypeInv /\ pc # "idle" => CoordinatorOK
BY DEF TypeInv, TypeOK, CoordinatorOK

LEMMA SettleType ==
  ASSUME CoordinatorOK, NEW i \in 1..MaxTools, NEW kind \in {"final", "aborted"}, NEW at \in Suspended,
         Settle(i, kind, at)
  PROVE  CoordinatorOK'
<1>1. Result(i, kind) \in ToolResult /\ Result(i, kind) \in Message BY MessageTypes, Bounds
<1>2. messages' \in Seq(Message) /\ tool_results' \in Seq(ToolResult)
  BY <1>1, AppendProperties DEF Settle, CoordinatorOK
<1>3. context' \in Seq(Message) BY DEF Settle, CoordinatorOK
<1>4. status' \in [1..MaxTools -> CallStatus] BY DEF Settle, CoordinatorOK, CallStatus
<1>5. cur' \in 1..MaxTools /\ pending_tool_calls' \subseteq 1..MaxTools /\ pc' \in Suspended
  BY DEF Settle, CoordinatorOK
<1>. QED BY <1>2, <1>3, <1>4, <1>5 DEF CoordinatorOK

LEMMA ResultsToContext ==
  ASSUME CoordinatorOK
  PROVE  context \o tool_results \in Seq(Message)
BY MessageTypes, ConcatProperties DEF CoordinatorOK

LEMMA CutType ==
  ASSUME CoordinatorOK, Cut
  PROVE  CoordinatorOK'
<1>1. CASE Open # {}
  <2>1. Open \in SUBSET Nat BY Bounds DEF Open, Calls
  <2>2. FirstOf(Open) \in Open BY <1>1, <2>1, FirstInSet
  <2>3. FirstOf(Open) \in 1..MaxTools BY <2>2 DEF Open, Calls
  <2>4. Settle(FirstOf(Open), "aborted", "cut") BY <1>1 DEF Cut
  <2>. QED BY <2>3, <2>4, SettleType DEF Suspended
<1>2. CASE Open = {}
  BY <1>2, ResultsToContext DEF Cut, CoordinatorOK, Suspended
<1>. QED BY <1>1, <1>2

LEMMA StartCallType ==
  ASSUME CoordinatorOK, NEW i \in 1..MaxTools, NEW st \in [1..MaxTools -> CallStatus],
         StartCall(i, st), UNCHANGED <<messages, context, tool_results>>
  PROVE  CoordinatorOK'
BY Bounds DEF CoordinatorOK, StartCall, Suspended, CallStatus

LEMMA NextCallType ==
  ASSUME CoordinatorOK, NEW st \in [1..MaxTools -> CallStatus], NextCall(st)
  PROVE  CoordinatorOK'
<1>. DEFINE is(s) == {i \in 1..MaxTools : st[i] = s}
            open == {i \in 1..MaxTools : st[i] \notin {"none", "result"}}
            launched == [i \in 1..MaxTools |->
              IF st[i] = "ready" THEN IF aborted THEN "cancelled" ELSE "running" ELSE st[i]]
<1>1. \A S \in SUBSET (1..MaxTools) : S # {} => FirstOf(S) \in 1..MaxTools
  <2>. SUFFICES ASSUME NEW S \in SUBSET (1..MaxTools), S # {} PROVE FirstOf(S) \in 1..MaxTools
    OBVIOUS
  <2>1. S \in SUBSET Nat BY Bounds
  <2>. QED BY <2>1, FirstInSet
<1>2. CASE Cut BY <1>2, CutType
<1>3. CASE /\ is("done") # {} /\ pc' = "after" /\ cur' = FirstOf(is("done"))
           /\ UNCHANGED <<messages, context, status, tool_results, pending_tool_calls>>
  <2>1. is("done") \in SUBSET (1..MaxTools) OBVIOUS
  <2>2. cur' \in 1..MaxTools BY <1>1, <1>3, <2>1
  <2>. QED BY <1>3, <2>2 DEF CoordinatorOK, Suspended
<1>4. CASE /\ is("todo") # {} /\ StartCall(FirstOf(is("todo")), st)
           /\ UNCHANGED <<messages, context, tool_results>>
  BY <1>1, <1>4, StartCallType
<1>5. CASE /\ open # {} /\ status' = launched /\ pc' = "exec" /\ cur' = FirstOf(open)
           /\ UNCHANGED <<messages, context, tool_results, pending_tool_calls>>
  <2>1. launched \in [1..MaxTools -> CallStatus] BY DEF CallStatus, Terminal
  <2>2. open \in SUBSET (1..MaxTools) OBVIOUS
  <2>3. cur' \in 1..MaxTools BY <1>1, <1>5, <2>2
  <2>. QED BY <1>5, <2>1, <2>3 DEF CoordinatorOK, Suspended
<1>6. CASE /\ context' = context \o tool_results /\ pc' \in {"turnEnd", "lastTurn"}
           /\ UNCHANGED <<messages, status, cur, tool_results, pending_tool_calls>>
  BY <1>6, ResultsToContext DEF CoordinatorOK, Suspended
<1>. QED BY <1>2, <1>3, <1>4, <1>5, <1>6, Zenon DEF NextCall

-----------------------------------------------------------------------------
\* The ways a run ends, and the runs a caller starts.
LEMMA Keep ==
  ASSUME TypeInv
  PROVE  /\ UNCHANGED queue => QueueOK'
         /\ UNCHANGED budget => BudgetOK'
         /\ UNCHANGED <<messages, context, pending>> => TalkOK'
         /\ UNCHANGED batch => BatchOK'
         /\ UNCHANGED scope /\ UNCHANGED signal /\ UNCHANGED <<orphans, ends>>
              /\ pc' \in Suspended => RunOK'
BY TypeParts DEF QueueOK, BudgetOK, TalkOK, BatchOK, RunOK, batch, scope, signal

LEMMA Whole ==
  (QueueOK /\ BudgetOK /\ RunOK /\ TalkOK /\ BatchOK)' => TypeInv'
BY DEF TypeInv, TypeOK, QueueOK, BudgetOK, RunOK, TalkOK, BatchOK

LEMMA FinishRunType ==
  ASSUME TypeInv, FinishRun, UNCHANGED queue, BudgetOK', torn' \subseteq Nat
  PROVE  TypeInv'
<1>1. In("running") \cup In("cancelling") \in SUBSET (1..MaxTools) BY DEF In
<1>2. IsFiniteSet(1..MaxTools) BY Bounds, FS_Interval
<1>3. Cardinality(In("running") \cup In("cancelling")) \in Nat
  BY <1>1, <1>2, FS_Subset, FS_CardinalityType
<1>4. RunOK'
  <2>1. orphans \in Nat BY TypeParts DEF RunOK
  <2>2. orphans' \in Nat BY <1>3, <2>1 DEF FinishRun
  <2>. QED BY <2>2 DEF FinishRun, RunOK
<1>5. TalkOK'
  <2>1. <<>> \in Seq(Message) /\ <<>> \in Seq(UserMessage) OBVIOUS
  <2>. QED BY <2>1, TypeParts DEF FinishRun, TalkOK
<1>6. BatchOK'
  <2>1. NoBatch \in [1..MaxTools -> CallStatus] BY DEF NoBatch, CallStatus
  <2>2. <<>> \in Seq(ToolResult) OBVIOUS
  <2>. QED BY <2>1, <2>2, Bounds, TypeParts DEF FinishRun, BatchOK
<1>. QED BY <1>4, <1>5, <1>6, Keep, Whole

LEMMA FailRunType ==
  ASSUME TypeInv, FailRun, BudgetOK'
  PROVE  TypeInv'
<1>1. Assistant(IF aborted THEN "aborted" ELSE "error", 0) \in Message
  BY MessageTypes DEF StopReason
<1>2. messages' \in Seq(Message)
  BY <1>1, TypeParts, AppendProperties DEF FailRun, TalkOK
<1>3. TalkOK' BY <1>2, TypeParts DEF FailRun, TalkOK
<1>4. RunOK' BY TypeParts DEF FailRun, RunOK, Suspended, scope, signal
<1>5. QueueOK' /\ BatchOK' BY Keep DEF FailRun
<1>. QED BY <1>3, <1>4, <1>5, Whole

LEMMA CancelledRunType ==
  ASSUME TypeInv, CancelledRun, BudgetOK'
  PROVE  TypeInv'
<1>1. torn \subseteq Nat BY TypeParts DEF RunOK
<1>. QED BY <1>1, FinishRunType, FailRunType DEF CancelledRun

LEMMA AbortTurnType ==
  ASSUME TypeInv, AbortTurn
  PROVE  TalkOK' /\ pc' \in Suspended
<1>1. Assistant("aborted", 0) \in Message BY MessageTypes DEF StopReason
<1>2. messages' \in Seq(Message) /\ context' \in Seq(Message)
  BY <1>1, TypeParts, AppendProperties DEF AbortTurn, TalkOK
<1>3. pending' \in Seq(UserMessage) BY DEF AbortTurn
<1>. QED BY <1>2, <1>3 DEF AbortTurn, TalkOK, Suspended

LEMMA StartRunType ==
  ASSUME TypeInv, BudgetOK', NEW plan \in Lanes \cup {"prompt", "continue", "retry"},
         NEW prompts \in Seq(UserMessage), NEW d \in BOOLEAN, StartRun(plan, prompts, d)
  PROVE  TypeInv'
<1>1. TalkOK' BY TypeParts DEF StartRun, TalkOK
<1>2. RunOK' BY TypeParts DEF StartRun, RunOK, Suspended, signal
<1>. QED BY <1>1, <1>2, Keep, Whole DEF StartRun

LEMMA EndAgentType ==
  ASSUME TypeInv, EndAgent, UNCHANGED budget
  PROVE  TypeInv'
<1>1. RunOK' BY TypeParts DEF EndAgent, RunOK, Suspended, scope, signal
<1>. QED BY <1>1, Keep, Whole DEF EndAgent

-----------------------------------------------------------------------------
\* One lemma per group of actions.
LEMMA CallerType ==
  ASSUME TypeInv, Caller
  PROVE  TypeInv'
<1>1. ASSUME NEW d \in Deliver, Prompt(d) PROVE TypeInv'
  <2>1. BudgetOK'
    <3>1. BudgetOK BY TypeParts
    <3>2. budget.inputs - 1 \in Nat /\ budget.runs - 1 \in Nat BY <1>1, <3>1 DEF Prompt, BudgetOK
    <3>3. budget' \in [{"inputs", "runs", "batches", "faults"} -> Nat]
      BY <1>1, <3>1, <3>2 DEF Prompt, BudgetOK
    <3>4. budget'["inputs"] = budget.inputs - 1 BY <1>1, <3>1 DEF Prompt, BudgetOK
    <3>5. budget.inputs \in Nat /\ budget.inputs <= MaxInputs BY <3>1 DEF BudgetOK
    <3>. QED BY <3>3, <3>4, <3>5, Bounds DEF BudgetOK
  <2>2. User("prompt", NextId) \in UserMessage BY MessageTypes, TypeParts, NextIdType
  <2>3. <<User("prompt", NextId)>> \in Seq(UserMessage) BY <2>2
  <2>. QED BY <1>1, <2>1, <2>3, StartRunType, LoopAssumption DEF Prompt
<1>2. ASSUME NEW d \in Deliver, ContinueRun(d) PROVE TypeInv'
  <2>1. BudgetOK' BY <1>2, TypeParts, SpendType DEF ContinueRun
  <2>2. \E plan \in Lanes \cup {"prompt", "continue", "retry"} : StartRun(plan, <<>>, d)
    BY <1>2 DEF ContinueRun, Lanes
  <2>3. <<>> \in Seq(UserMessage) /\ d \in BOOLEAN BY LoopAssumption
  <2>. QED BY <2>1, <2>2, <2>3, StartRunType
<1>3. ASSUME NEW lane \in Lanes, Enqueue(lane) PROVE TypeInv'
  <2>1. BudgetOK' BY <1>3, TypeParts, SpendType DEF Enqueue
  <2>2. User(lane, NextId) \in UserMessage BY MessageTypes, TypeParts, NextIdType
  <2>3. queue[lane] \in Seq(UserMessage) BY TypeParts DEF QueueOK
  <2>4. Append(queue[lane], User(lane, NextId)) \in Seq(UserMessage)
    BY <2>2, <2>3, AppendProperties
  <2>5. QueueOK' BY <1>3, <2>4, TypeParts DEF Enqueue, QueueOK
  <2>6. RunOK' /\ TalkOK' /\ BatchOK' 
    BY <1>3, TypeParts, Keep DEF Enqueue, RunOK, scope, signal
  <2>. QED BY <2>1, <2>5, <2>6, Whole
<1>4. CASE ClearQueues
  <2>1. QueueOK' BY <1>4 DEF ClearQueues, QueueOK
  <2>2. RunOK' BY <1>4, TypeParts DEF ClearQueues, RunOK, scope, signal
  <2>. QED BY <1>4, <2>1, <2>2, Keep, Whole DEF ClearQueues
<1>5. CASE Abort
  <2>1. RunOK' BY <1>5, TypeParts DEF Abort, RunOK, scope
  <2>. QED BY <1>5, <2>1, Keep, Whole DEF Abort, inputs
<1>. QED BY <1>1, <1>2, <1>3, <1>4, <1>5 DEF Caller

LEMMA TaskType ==
  ASSUME TypeInv, Tool \/ ForceCancel
  PROVE  TypeInv'
<1>1. ASSUME NEW i \in 1..MaxTools, NEW s \in Terminal, ToolStep(i, s), BudgetOK' PROVE TypeInv'
  <2>1. BatchOK' BY <1>1, TypeParts DEF ToolStep, BatchOK, CallStatus
  <2>2. RunOK' BY <1>1, TypeParts DEF ToolStep, RunOK, scope, signal
  <2>. QED BY <1>1, <2>1, <2>2, Keep, Whole DEF ToolStep
<1>2. ASSUME NEW i \in 1..MaxTools, ToolCompletes(i) PROVE TypeInv'
  BY <1>1, <1>2, Keep DEF ToolCompletes, Terminal
<1>3. ASSUME NEW i \in 1..MaxTools, ToolCancelled(i) PROVE TypeInv'
  <2>1. BudgetOK' BY <1>3, TypeParts, Keep, SpendType DEF ToolCancelled
  <2>. QED BY <1>1, <1>3, <2>1 DEF ToolCancelled, Terminal
<1>4. CASE OrphanEnds
  <2>1. RunOK' BY <1>4, TypeParts DEF OrphanEnds, RunOK, scope, signal
  <2>. QED BY <1>4, <2>1, Keep, Whole DEF OrphanEnds, inputs
<1>5. CASE ForceCancel
  <2>1. BatchOK' BY <1>5, TypeParts DEF ForceCancel, BatchOK, Cancelling, CallStatus
  <2>2. RunOK' BY <1>5, TypeParts DEF ForceCancel, RunOK, scope
  <2>. QED BY <1>5, <2>1, <2>2, Keep, Whole DEF ForceCancel, inputs
<1>. QED BY <1>2, <1>3, <1>4, <1>5 DEF Tool

LEMMA PollType ==
  ASSUME QueueOK, NEW skip \in BOOLEAN
  PROVE  /\ Immediate(skip) \in Seq(UserMessage)
         /\ AfterImmediate(skip) \in [Lanes -> Seq(UserMessage)]
<1>1. queue["mailbox"] \in Seq(UserMessage) BY DEF QueueOK, Lanes
<1>2. Taken("steering") \in Seq(UserMessage) /\ Left("steering") \in Seq(UserMessage)
  BY DrainType DEF Lanes
<1>3. <<>> \in Seq(UserMessage) OBVIOUS
<1>4. (IF skip THEN <<>> ELSE Taken("steering")) \in Seq(UserMessage) BY <1>2, <1>3
<1>5. queue["mailbox"] \o (IF skip THEN <<>> ELSE Taken("steering")) \in Seq(UserMessage)
  BY <1>1, <1>4, ConcatProperties
<1>6. Immediate(skip) \in Seq(UserMessage) BY <1>3, <1>5 DEF Immediate
<1>7. AfterImmediate(skip) \in [Lanes -> Seq(UserMessage)]
  BY <1>2, <1>3 DEF AfterImmediate, QueueOK
<1>. QED BY <1>6, <1>7

LEMMA EnterTurnType ==
  ASSUME TypeInv, NEW input \in Seq(UserMessage), NEW first \in BOOLEAN, EnterTurn(input, first)
  PROVE  TalkOK' /\ pc' \in Suspended
<1>1. CASE aborted BY <1>1, AbortTurnType DEF EnterTurn
<1>2. CASE ~aborted BY <1>2, TypeParts DEF EnterTurn, TalkOK, Suspended
<1>. QED BY <1>1, <1>2

\* From the start of a run to the reply of the model.
LEMMA TurnType ==
  ASSUME TypeInv,
         \/ SetUp \/ EmitPrompt \/ FirstPoll \/ Inject \/ CallModel
         \/ ModelReplies \/ ModelAborts \/ ModelCancelled
         \/ \E n \in 1..MaxTools : ModelCallsTools(n)
  PROVE  TypeInv'
<1>. USE TypeParts
<1>1. CASE SetUp
  <2>. DEFINE lane == entry \in Lanes
              input == IF lane THEN Taken(entry) ELSE pending
              failed == entry = "retry" /\ Final(messages).role = "assistant"
                                        /\ Final(messages).stop = "error"
              history == IF failed THEN SubSeq(messages, 1, Len(messages) - 1) ELSE messages
              fresh == entry \in {"continue", "retry"}
  <2>1. BudgetOK' BY <1>1, Keep DEF SetUp
  <2>2. input \in Seq(UserMessage)
    <3>1. entry \in Lanes => Taken(entry) \in Seq(UserMessage) BY DrainType
    <3>. QED BY <3>1 DEF TalkOK
  <2>3. history \in Seq(Message)
    <3>1. SubSeq(messages, 1, Len(messages) - 1) \in Seq(Message)
      <4>1. messages \in Seq(Message) BY DEF TalkOK
      <4>2. Len(messages) \in Nat BY <4>1, LenProperties
      <4>3. \A i \in 1 .. Len(messages) - 1 : messages[i] \in Message
        BY <4>1, <4>2, ElementOfSeq
      <4>. QED BY <4>2, <4>3, SubSeqProperties
    <3>. QED BY <3>1 DEF TalkOK
  <2>4. CASE lane /\ input = <<>>
    <3>1. FinishRun /\ UNCHANGED <<queue, torn>> BY <1>1, <2>4, Zenon DEF SetUp
    <3>2. torn' \subseteq Nat BY <3>1 DEF RunOK
    <3>. QED BY <2>1, <3>1, <3>2, FinishRunType
  <2>5. CASE ~ (lane /\ input = <<>>) /\ fresh /\ (history = <<>> \/ Final(history).role = "assistant")
    <3>1. FailRun BY <1>1, <2>5, Zenon DEF SetUp
    <3>. QED BY <2>1, <3>1, FailRunType
  <2>6. CASE /\ ~ (lane /\ input = <<>>)
             /\ ~ (fresh /\ (history = <<>> \/ Final(history).role = "assistant"))
    <3>1. /\ pc' = "prompts" /\ context' = history \o input /\ pending' = input
          /\ queue' = IF lane THEN [queue EXCEPT ![entry] = Left(entry)] ELSE queue
          /\ UNCHANGED <<messages, scope, signal, batch, orphans, ends>>
      BY <1>1, <2>6 DEF SetUp
    <3>2. input \in Seq(Message) BY <2>2, MessageTypes
    <3>3. context' \in Seq(Message) BY <2>3, <3>1, <3>2, ConcatProperties
    <3>4. TalkOK' BY <2>2, <3>1, <3>3 DEF TalkOK
    <3>5. QueueOK' 
      <4>1. lane => Left(entry) \in Seq(UserMessage) BY DrainType
      <4>. QED BY <3>1, <4>1 DEF QueueOK
    <3>. QED BY <2>1, <3>1, <3>4, <3>5, Keep, Whole DEF Suspended
  <2>. QED BY <2>4, <2>5, <2>6
<1>2. CASE EmitPrompt
  <2>1. Head(pending) \in UserMessage /\ Tail(pending) \in Seq(UserMessage)
    BY <1>2, HeadTailProperties DEF EmitPrompt, TalkOK
  <2>2. Append(messages, Head(pending)) \in Seq(Message)
    BY <2>1, MessageTypes, AppendProperties DEF TalkOK
  <2>3. TalkOK' BY <1>2, <2>1, <2>2 DEF EmitPrompt, TalkOK
  <2>. QED BY <1>2, <2>3, Keep, Whole DEF EmitPrompt, inputs, Suspended
<1>3. CASE FirstPoll
  <2>. DEFINE skip == entry = "steering"
  <2>1. Immediate(skip) \in Seq(UserMessage) /\ AfterImmediate(skip) \in [Lanes -> Seq(UserMessage)]
    BY PollType
  <2>2. TalkOK' /\ pc' \in Suspended BY <1>3, <2>1, EnterTurnType DEF FirstPoll
  <2>3. QueueOK' BY <1>3, <2>1 DEF FirstPoll, QueueOK
  <2>. QED BY <1>3, <2>2, <2>3, Keep, Whole DEF FirstPoll
<1>4. CASE Inject
  <2>1. Head(pending) \in UserMessage /\ Tail(pending) \in Seq(UserMessage)
    BY <1>4, HeadTailProperties DEF Inject, TalkOK
  <2>2. Append(messages, Head(pending)) \in Seq(Message) /\ Append(context, Head(pending)) \in Seq(Message)
    BY <2>1, MessageTypes, AppendProperties DEF TalkOK
  <2>3. TalkOK' BY <1>4, <2>1, <2>2 DEF Inject, TalkOK
  <2>. QED BY <1>4, <2>3, Keep, Whole DEF Inject, inputs, Suspended
<1>5. CASE CallModel
  <2>1. TalkOK' /\ pc' \in Suspended
    <3>1. CASE aborted BY <1>5, <3>1, AbortTurnType DEF CallModel
    <3>2. CASE ~aborted BY <1>5, <3>2, Keep DEF CallModel, Suspended
    <3>. QED BY <3>1, <3>2
  <2>. QED BY <1>5, <2>1, Keep, Whole DEF CallModel, inputs
<1>6. ASSUME NEW stop \in StopReason, NEW n \in Nat, Reply(stop, n), BudgetOK' PROVE TypeInv'
  <2>1. Assistant(stop, n) \in Message BY MessageTypes
  <2>2. Append(messages, Assistant(stop, n)) \in Seq(Message)
        /\ Append(context, Assistant(stop, n)) \in Seq(Message)
    BY <2>1, AppendProperties DEF TalkOK
  <2>3. TalkOK' BY <1>6, <2>2 DEF Reply, TalkOK
  <2>. QED BY <1>6, <2>3, Keep, Whole DEF Reply, Suspended
<1>7. CASE ModelReplies BY <1>6, <1>7, Keep DEF ModelReplies, StopReason
<1>8. CASE ModelAborts BY <1>8, AbortTurnType, Keep, Whole DEF ModelAborts, inputs
<1>9. CASE ModelCancelled
  BY <1>9, SpendType, CancelledRunType DEF ModelCancelled
<1>10. ASSUME NEW n \in 1..MaxTools, ModelCallsTools(n) PROVE TypeInv'
  <2>1. BudgetOK' BY <1>10, SpendType DEF ModelCallsTools
  <2>2. n \in Nat BY Bounds
  <2>. QED BY <1>6, <1>10, <2>1, <2>2 DEF ModelCallsTools, StopReason
<1>. QED BY <1>1, <1>2, <1>3, <1>4, <1>5, <1>7, <1>8, <1>9, <1>10

\* The tool batch.
LEMMA BatchType ==
  ASSUME TypeInv,
         \/ ReplyEnded \/ PreparedImmediate \/ PreparedCall \/ OutcomeEnded
         \/ Awaited \/ Gathered \/ AfterHook \/ HookCancelled \/ OutcomeCancelled
         \/ CutNext
  PROVE  TypeInv'
<1>. USE TypeParts
<1>1. CASE ReplyEnded
  <2>. DEFINE reply == Final(messages)
              fresh == [i \in 1..MaxTools |-> IF i <= reply.calls THEN "todo" ELSE "none"]
  <2>1. /\ UNCHANGED <<inputs, scope, signal, orphans, ends>>
        /\ \/ pc' = "lastTurn" /\ UNCHANGED <<messages, context, pending, batch>>
           \/ AbortTurn /\ UNCHANGED batch
           \/ pc' = "turnEnd" /\ UNCHANGED <<messages, context, pending, batch>>
           \/ /\ mode' \in {"sequential", "parallel"} /\ StartCall(1, fresh)
              /\ UNCHANGED <<messages, context, pending, draining, reraise, tool_results>>
    BY <1>1 DEF ReplyEnded
  <2>2. CASE pc' \in {"lastTurn", "turnEnd"} /\ UNCHANGED <<messages, context, pending, batch>>
    BY <2>1, <2>2, Keep, Whole DEF inputs, Suspended
  <2>3. CASE AbortTurn /\ UNCHANGED batch
    BY <2>1, <2>3, AbortTurnType, Keep, Whole DEF inputs
  <2>4. CASE /\ mode' \in {"sequential", "parallel"} /\ StartCall(1, fresh)
             /\ UNCHANGED <<messages, context, pending, draining, reraise, tool_results>>
    <3>1. fresh \in [1..MaxTools -> CallStatus] BY DEF CallStatus
    <3>2. pc # "idle" BY <1>1 DEF ReplyEnded
    <3>3. CoordinatorOK' BY <2>4, <3>1, <3>2, CoordinatorNow, StartCallType, Bounds
    <3>4. BudgetOK' BY <2>1, Keep DEF inputs
    <3>5. Coordinates BY <2>1, <2>4 DEF Coordinates, inputs
    <3>6. draining' \in BOOLEAN /\ reraise' \in BOOLEAN BY <2>4 DEF BatchOK
    <3>. QED BY <2>4, <3>3, <3>4, <3>5, <3>6, CoordinatorType
  <2>. QED BY <2>1, <2>2, <2>3, <2>4
<1>. DEFINE Flags == /\ mode' \in {"sequential", "parallel"} /\ draining' \in BOOLEAN
                     /\ reraise' \in BOOLEAN
<1>2. ASSUME NEW kind \in {"final", "aborted"}, NEW at \in Suspended, NEW i \in 1..MaxTools,
             pc # "idle", Settle(i, kind, at)
      PROVE  CoordinatorOK'
  BY <1>2, CoordinatorNow, SettleType
<1>3. ASSUME pc # "idle", Cut PROVE CoordinatorOK'
  BY <1>3, CoordinatorNow, CutType
<1>4. ASSUME NEW st \in [1..MaxTools -> CallStatus], pc # "idle", NextCall(st) PROVE CoordinatorOK'
  BY <1>4, CoordinatorNow, NextCallType
<1>5. ASSUME pc # "idle", Gather PROVE CoordinatorOK'
  <2>1. Cancelling \in [1..MaxTools -> CallStatus] BY DEF Cancelling, BatchOK, CallStatus
  <2>. QED BY <1>5, <2>1, CoordinatorNow DEF Gather, CoordinatorOK, Suspended
<1>6. ASSUME CoordinatorOK', Coordinates, BudgetOK', Flags PROVE TypeInv'
  BY <1>6, CoordinatorType
<1>7. UNCHANGED <<mode, draining, reraise>> => Flags BY DEF BatchOK
<1>8. cur \in 1..MaxTools /\ status \in [1..MaxTools -> CallStatus] BY DEF BatchOK
<1>9. CASE PreparedImmediate
  <2>1. CoordinatorOK' BY <1>2, <1>3, <1>8, <1>9 DEF PreparedImmediate, Suspended
  <2>. QED BY <1>6, <1>7, <1>9, <2>1, Keep DEF PreparedImmediate
<1>10. CASE PreparedCall
  <2>1. CASE aborted BY <1>3, <1>6, <1>7, <1>10, <2>1, Keep DEF PreparedCall
  <2>2. CASE ~aborted /\ mode = "sequential"
    <3>1. CoordinatorOK
      BY <1>10, CoordinatorNow DEF PreparedCall
    <3>2. CoordinatorOK'
      BY <1>10, <2>2, <3>1 DEF PreparedCall, CoordinatorOK, Suspended, CallStatus
    <3>. QED BY <1>6, <1>7, <1>10, <3>2, Keep DEF PreparedCall
  <2>3. CASE ~aborted /\ mode # "sequential"
    <3>1. [status EXCEPT ![cur] = "ready"] \in [1..MaxTools -> CallStatus] BY <1>8 DEF CallStatus
    <3>2. NextCall([status EXCEPT ![cur] = "ready"]) /\ pc # "idle"
      BY <1>10, <2>3 DEF PreparedCall
    <3>3. CoordinatorOK' BY <1>4, <3>1, <3>2
    <3>. QED BY <1>6, <1>7, <1>10, <3>3, Keep DEF PreparedCall
  <2>. QED BY <2>1, <2>2, <2>3
<1>11. CASE OutcomeEnded
  <2>1. CoordinatorOK' BY <1>4, <1>8, <1>11 DEF OutcomeEnded
  <2>. QED BY <1>6, <1>7, <1>11, <2>1, Keep DEF OutcomeEnded
<1>12. CASE Awaited
  <2>1. CoordinatorOK'
    <3>1. CASE Gather BY <1>5, <1>12, <3>1 DEF Awaited
    <3>2. CASE Cut BY <1>3, <1>12, <3>2 DEF Awaited
    <3>3. CASE /\ pc' = "after"
               /\ UNCHANGED <<messages, context, status, cur, tool_results, pending_tool_calls>>
      <4>1. CoordinatorOK BY <1>12, CoordinatorNow DEF Awaited
      <4>. QED BY <3>3, <4>1 DEF CoordinatorOK, Suspended
    <3>. QED BY <1>12, <3>1, <3>2, <3>3 DEF Awaited
  <2>2. Flags
    <3>1. draining \in BOOLEAN /\ reraise \in BOOLEAN /\ mode \in {"sequential", "parallel"}
      BY DEF BatchOK
    <3>2. mode' = mode BY <1>12 DEF Awaited
    <3>3. draining' \in BOOLEAN BY <1>12, <3>1 DEF Awaited
    <3>4. reraise' \in BOOLEAN BY <1>12, <3>1 DEF Awaited
    <3>. QED BY <3>1, <3>2, <3>3, <3>4
  <2>. QED BY <1>6, <1>12, <2>1, <2>2, Keep DEF Awaited
<1>13. CASE Gathered
  <2>1. CoordinatorOK' BY <1>3, <1>4, <1>8, <1>13 DEF Gathered
  <2>. QED BY <1>6, <1>7, <1>13, <2>1, Keep DEF Gathered
<1>14. CASE AfterHook
  <2>1. CoordinatorOK' BY <1>2, <1>8, <1>14 DEF AfterHook, Suspended
  <2>. QED BY <1>6, <1>7, <1>14, <2>1, Keep DEF AfterHook
<1>15. CASE HookCancelled
  <2>1. CoordinatorOK' BY <1>3, <1>5, <1>15 DEF HookCancelled
  <2>2. BudgetOK' BY <1>15, SpendType DEF HookCancelled
  <2>3. Flags BY <1>15 DEF HookCancelled, BatchOK
  <2>. QED BY <1>6, <1>15, <2>1, <2>2, <2>3 DEF HookCancelled
<1>16. CASE CutNext
  <2>1. CoordinatorOK' BY <1>3, <1>16 DEF CutNext
  <2>. QED BY <1>6, <1>7, <1>16, <2>1, Keep DEF CutNext
<1>17. CASE OutcomeCancelled
  <2>1. QueueOK' /\ BudgetOK' BY <1>17, Keep, SpendType DEF OutcomeCancelled
  <2>2. torn \cup {Len(messages)} \subseteq Nat BY LenProperties DEF RunOK, TalkOK
  <2>3. RunOK' BY <1>17, <2>2 DEF OutcomeCancelled, RunOK, Suspended, signal
  <2>4. TalkOK' BY <1>17, Keep DEF OutcomeCancelled
  <2>5. status' \in [1..MaxTools -> CallStatus]
    <3>1. Cancelling \in [1..MaxTools -> CallStatus] BY <1>8 DEF Cancelling, CallStatus
    <3>. QED BY <1>17, <3>1 DEF OutcomeCancelled, CallStatus
  <2>6. tool_results' \in Seq(ToolResult)
    <3>1. tool_results \in Seq(ToolResult) BY DEF BatchOK
    <3>. HIDE DEF ToolResult
    <3>. QED BY <1>17, <3>1 DEF OutcomeCancelled
  <2>7. BatchOK' BY <1>17, <2>5, <2>6 DEF OutcomeCancelled, BatchOK
  <2>. QED BY <2>1, <2>3, <2>4, <2>7, Whole
<1>. QED BY <1>1, <1>9, <1>10, <1>11, <1>12, <1>13, <1>14, <1>15, <1>16, <1>17

\* The end of a turn and of a run.
LEMMA EndType ==
  ASSUME TypeInv,
         \/ BatchEnded \/ TurnEnded \/ LastTurn \/ LastTurnEnded \/ RunEnded \/ Raises
         \/ ListenerCancelled
  PROVE  TypeInv'
<1>. USE TypeParts
<1>1. CASE BatchEnded
  <2>1. BudgetOK' BY <1>1, Keep DEF BatchEnded
  <2>2. CASE reraise BY <1>1, <2>1, <2>2, CancelledRunType DEF BatchEnded
  <2>3. CASE ~reraise BY <1>1, <2>1, <2>3, AbortTurnType, Keep, Whole DEF BatchEnded
  <2>. QED BY <2>2, <2>3
<1>2. CASE TurnEnded
  <2>. DEFINE now == Immediate(FALSE)
              follow == IF deliver THEN Taken("follow_up") ELSE <<>>
              next(input) == /\ EnterTurn(input, FALSE)
                             /\ status' = NoBatch /\ tool_results' = <<>>
                             /\ UNCHANGED <<budget, scope, signal, mode, cur, draining, reraise,
                                            pending_tool_calls, orphans, ends>>
  <2>1. now \in Seq(UserMessage) /\ AfterImmediate(FALSE) \in [Lanes -> Seq(UserMessage)]
    BY PollType
  <2>2. follow \in Seq(UserMessage) /\ Left("follow_up") \in Seq(UserMessage)
    <3>1. Taken("follow_up") \in Seq(UserMessage) /\ Left("follow_up") \in Seq(UserMessage)
      BY DrainType DEF Lanes
    <3>2. <<>> \in Seq(UserMessage) OBVIOUS
    <3>. QED BY <3>1, <3>2
  <2>3. ASSUME NEW input \in Seq(UserMessage), next(input), QueueOK' PROVE TypeInv'
    <3>1. TalkOK' /\ pc' \in Suspended BY <2>3, EnterTurnType
    <3>2. NoBatch \in [1..MaxTools -> CallStatus] BY DEF NoBatch, CallStatus
    <3>3. <<>> \in Seq(ToolResult) OBVIOUS
    <3>4. BatchOK' BY <2>3, <3>2, <3>3 DEF BatchOK
    <3>5. BudgetOK' BY <2>3, Keep
    <3>. QED BY <2>3, <3>1, <3>4, <3>5, Keep, Whole
  <2>4. CASE next(now) /\ queue' = AfterImmediate(FALSE)
    BY <2>1, <2>3, <2>4 DEF QueueOK
  <2>5. CASE next(follow) /\ queue' = [queue EXCEPT !["follow_up"] = Left("follow_up")]
    BY <2>2, <2>3, <2>5 DEF QueueOK
  <2>6. CASE EndAgent /\ UNCHANGED budget BY <2>6, EndAgentType
  <2>7. \/ next(now) /\ queue' = AfterImmediate(FALSE)
        \/ next(follow) /\ queue' = [queue EXCEPT !["follow_up"] = Left("follow_up")]
        \/ EndAgent /\ UNCHANGED budget
    BY <1>2, Zenon DEF TurnEnded
  <2>. QED BY <2>4, <2>5, <2>6, <2>7
<1>3. CASE LastTurn BY <1>3, Keep, Whole DEF LastTurn, inputs, Suspended
<1>4. CASE LastTurnEnded BY <1>4, EndAgentType DEF LastTurnEnded
<1>5. CASE RunEnded BY <1>5, FinishRunType, Keep DEF RunEnded, inputs, RunOK
<1>6. CASE Raises BY <1>6, SpendType, FailRunType DEF Raises
<1>7. CASE ListenerCancelled
  <2>1. BudgetOK' BY <1>7, SpendType DEF ListenerCancelled
  <2>2. torn \cup {Len(messages)} \subseteq Nat BY LenProperties DEF RunOK, TalkOK
  <2>. QED BY <1>7, <2>1, <2>2, FinishRunType, FailRunType DEF ListenerCancelled
<1>. QED BY <1>1, <1>2, <1>3, <1>4, <1>5, <1>6, <1>7

\* A stutter keeps the invariant.
LEMMA IdleType == TypeInv /\ UNCHANGED vars => TypeInv'
BY DEF TypeInv, TypeOK, vars

LEMMA NextType == TypeInv /\ [Next]_vars => TypeInv'
<1>. SUFFICES ASSUME TypeInv, [Next]_vars PROVE TypeInv' OBVIOUS
<1>1. CASE Run BY <1>1, TurnType, BatchType, EndType DEF Run
<1>. QED BY <1>1, CallerType, TaskType, IdleType DEF Next, Idle

\* Every variable of the agent keeps its type: in particular no call outside the
\* batch is ever reported as pending, and no queue ever holds anything but input.
THEOREM TypeCorrect == Spec => []TypeOK
<1>1. TypeInv => TypeOK BY DEF TypeInv
<1>. QED BY <1>1, NextType, InitType, PTL DEF Spec

-----------------------------------------------------------------------------
(***************************************************************************)
(* An aborted run starts nothing.                                          *)
(***************************************************************************)
Starts == \/ pc' = "model" /\ pc # "model"
          \/ \E i \in 1..MaxTools : status'[i] = "running" /\ status[i] # "running"

LEMMA AbortedCut ==
  ASSUME TypeInv, Cut
  PROVE  ~ Starts
<1>. status \in [1..MaxTools -> CallStatus] BY TypeParts DEF BatchOK
<1>. QED BY DEF Cut, Settle, Starts

LEMMA AbortedNextCall ==
  ASSUME TypeInv, aborted, NEW st \in [1..MaxTools -> CallStatus], NextCall(st),
         \A i \in 1..MaxTools : st[i] = "running" => status[i] = "running"
  PROVE  ~ Starts
<1>1. CASE Cut BY <1>1, AbortedCut
<1>2. CASE pc' = "after" /\ UNCHANGED status BY <1>2 DEF Starts
<1>3. CASE /\ pc' = "exec"
           /\ status' = [i \in 1..MaxTools |->
                IF st[i] = "ready" THEN IF aborted THEN "cancelled" ELSE "running" ELSE st[i]]
  BY <1>3 DEF Starts
<1>4. CASE pc' \in {"turnEnd", "lastTurn"} /\ UNCHANGED status BY <1>4 DEF Starts
<1>. QED BY <1>1, <1>2, <1>3, <1>4, Zenon DEF NextCall

LEMMA AbortedEnds ==
  /\ FinishRun => ~ Starts
  /\ FailRun => ~ Starts
  /\ CancelledRun => ~ Starts
  /\ AbortTurn /\ UNCHANGED batch => ~ Starts
<1>1. FinishRun => ~ Starts BY DEF FinishRun, NoBatch, Starts
<1>2. FailRun => ~ Starts BY DEF FailRun, batch, Starts
<1>3. AbortTurn /\ UNCHANGED batch => ~ Starts BY DEF AbortTurn, batch, Starts
<1>. QED BY <1>1, <1>2, <1>3 DEF CancelledRun

LEMMA AbortedStartsNothing ==
  ASSUME TypeInv, aborted, [Next]_vars
  PROVE  ~ Starts
<1>1. status \in [1..MaxTools -> CallStatus] BY TypeParts DEF BatchOK
<1>2. CASE UNCHANGED vars BY <1>2 DEF vars, Starts
<1>3. CASE Caller
  BY <1>3 DEF Caller, Prompt, ContinueRun, StartRun, Enqueue, ClearQueues, Abort, batch, Starts
<1>4. CASE Tool \/ ForceCancel
  <2>1. CASE ForceCancel BY <2>1 DEF ForceCancel, Cancelling, Starts
  <2>2. CASE OrphanEnds BY <2>2 DEF OrphanEnds, batch, Starts
  <2>3. ASSUME NEW i \in 1..MaxTools, NEW s \in Terminal, ToolStep(i, s) PROVE ~ Starts
    BY <1>1, <2>3 DEF ToolStep, Terminal, Starts
  <2>4. ASSUME NEW i \in 1..MaxTools, ToolCompletes(i) \/ ToolCancelled(i) PROVE ~ Starts
    BY <2>3, <2>4 DEF ToolCompletes, ToolCancelled, Terminal
  <2>. QED BY <1>4, <2>1, <2>2, <2>4 DEF Tool
<1>5. CASE SetUp BY <1>5, AbortedEnds DEF SetUp, batch, Starts
<1>6. CASE EmitPrompt \/ FirstPoll \/ Inject \/ CallModel
  BY <1>6, AbortedEnds DEF EmitPrompt, FirstPoll, EnterTurn, Inject, CallModel, batch, Starts
<1>7. CASE ModelReplies \/ ModelAborts \/ ModelCancelled \/ \E n \in 1..MaxTools : ModelCallsTools(n)
  BY <1>7, AbortedEnds
  DEF ModelReplies, Reply, ModelAborts, ModelCancelled, ModelCallsTools, batch, Starts
<1>8. CASE ReplyEnded BY <1>8, AbortedEnds DEF ReplyEnded, batch, Starts
<1>9. CASE PreparedImmediate \/ PreparedCall
  BY <1>9, AbortedCut DEF PreparedImmediate, PreparedCall
<1>10. CASE OutcomeEnded \/ Gathered
  BY <1>1, <1>10, AbortedCut, AbortedNextCall DEF OutcomeEnded, Gathered
<1>11. CASE Awaited \/ HookCancelled
  <2>1. Gather => ~ Starts BY <1>1 DEF Gather, Cancelling, Starts
  <2>2. pc' = "after" /\ UNCHANGED status => ~ Starts BY DEF Starts
  <2>. QED BY <1>11, <2>1, <2>2, AbortedCut DEF Awaited, HookCancelled
<1>17. CASE OutcomeCancelled BY <1>1, <1>17 DEF OutcomeCancelled, Cancelling, Starts
<1>12. CASE AfterHook BY <1>1, <1>12 DEF AfterHook, Settle, Starts
<1>13. CASE CutNext BY <1>13, AbortedCut DEF CutNext
<1>14. CASE BatchEnded BY <1>14, AbortedEnds DEF BatchEnded
<1>15. CASE TurnEnded
  BY <1>15 DEF TurnEnded, EnterTurn, AbortTurn, EndAgent, NoBatch, batch, Starts
<1>16. CASE LastTurn \/ LastTurnEnded \/ RunEnded \/ Raises \/ ListenerCancelled
  BY <1>16, AbortedEnds
  DEF LastTurn, LastTurnEnded, EndAgent, RunEnded, Raises, ListenerCancelled, batch, Starts
<1>. QED
  BY <1>2, <1>3, <1>4, <1>5, <1>6, <1>7, <1>8, <1>9, <1>10, <1>11, <1>12, <1>13, <1>14, <1>15,
     <1>16, <1>17 DEF Next, Run, Idle

\* Once a run is aborted it makes no further model call and starts no further tool,
\* at whatever suspension point the abort found it.
THEOREM AbortStopsStarts == Spec => NothingStartsAborted
<1>. DEFINE A == /\ pc' = "model" /\ pc # "model" => ~aborted
                 /\ \A i \in 1..MaxTools :
                      status'[i] = "running" /\ status[i] # "running" => ~aborted
<1>1. TypeInv /\ [Next]_vars => [A]_vars
  BY AbortedStartsNothing DEF Starts
<1>2. TypeInv /\ [Next]_vars => TypeInv'
  BY NextType
<1>. QED BY <1>1, <1>2, InitType, PTL DEF Spec, NothingStartsAborted
-----------------------------------------------------------------------------
(***************************************************************************)
(* The tool batch: a result is reported for a call only when its tool is   *)
(* over.  The property is an action property; the invariant below says,    *)
(* for each suspension point, which tools can be executing there.          *)
(***************************************************************************)

Flight == {i \in 1..MaxTools : status[i] \in {"running", "cancelling"}}

\* In a sequential batch only the awaited call executes; a parallel batch prepares
\* every call before it launches one (a call is open again only while the tasks are
\* waited for); and once the completed tasks are being saved, every task has been
\* waited for.
FlightInv ==
  /\ pc \notin {"exec", "gather", "after", "outcome", "failed"} => Flight = {}
  /\ mode = "sequential" =>
       /\ \A i \in 1..MaxTools : status[i] # "ready"
       /\ pc = "exec" => Flight \subseteq {cur}
       /\ pc \in {"after", "outcome"} => Flight = {}
  /\ mode = "parallel" /\ pc \notin {"gather", "failed"} /\ (\E i \in 1..MaxTools : status[i] = "todo")
       => Flight = {}
  /\ draining /\ pc \notin {"gather", "failed"} => Flight = {}
  /\ pc = "after" => cur \in 1..MaxTools /\ status[cur] = "done"

\* What the theorem says of one step.
SettlesOver == \A i \in Flight : status'[i] # "result"

LEMMA InitFlight == Init => FlightInv
BY DEF Init, FlightInv, Flight, NoBatch

\* Steps that leave the batch alone.
LEMMA SameBatch ==
  ASSUME TypeInv, FlightInv, UNCHANGED <<mode, status, cur, draining>>,
         pc' = pc \/ pc' = "failed" \/ (Flight = {} /\ pc' # "after")
  PROVE  FlightInv' /\ SettlesOver
<1>1. Flight' = Flight /\ SettlesOver BY DEF Flight, SettlesOver
<1>2. CASE pc' = pc BY <1>1, <1>2 DEF FlightInv
<1>3. CASE pc' = "failed" BY <1>1, <1>3 DEF FlightInv
<1>4. CASE Flight = {} /\ pc' # "after" BY <1>1, <1>4 DEF FlightInv
<1>. QED BY <1>2, <1>3, <1>4

\* Steps that leave no batch.
LEMMA EmptyBatch ==
  ASSUME status' = NoBatch, pc' # "after"
  PROVE  FlightInv' /\ SettlesOver
BY DEF FlightInv, Flight, SettlesOver, NoBatch

LEMMA StatusType == TypeInv => /\ status \in [1..MaxTools -> CallStatus]
                               /\ mode \in {"sequential", "parallel"}
BY TypeParts DEF BatchOK

\* With no tool executing, no batch step can go wrong but one that starts a tool.
LEMMA NoFlight ==
  ASSUME TypeInv, FlightInv, Flight = {}, mode' \in {mode, "sequential"}, 
         mode' = "sequential" => \A i \in 1..MaxTools : status'[i] # "ready",
         \A i \in 1..MaxTools : status'[i] \notin {"running", "cancelling"},
         pc' = "after" => cur' \in 1..MaxTools /\ status'[cur'] = "done"
  PROVE  FlightInv' /\ SettlesOver
BY DEF FlightInv, Flight, SettlesOver

LEMMA CutFlight ==
  ASSUME TypeInv, FlightInv, Flight = {}, Cut, UNCHANGED mode
  PROVE  FlightInv' /\ SettlesOver
<1>1. status \in [1..MaxTools -> CallStatus] BY StatusType
<1>2. \A i \in 1..MaxTools : status'[i] \in {status[i], "result"} BY <1>1 DEF Cut, Settle
<1>3. pc' # "after" BY DEF Cut, Settle
<1>4. mode = "sequential" => \A i \in 1..MaxTools : status[i] # "ready" BY DEF FlightInv
<1>5. \A i \in 1..MaxTools : status[i] \notin {"running", "cancelling"} BY DEF Flight
<1>. QED BY <1>2, <1>3, <1>4, <1>5, NoFlight

\* NextCall, from a state in which a batch that still prepares calls, or that is
\* being drained, executes nothing.
LEMMA NextCallFlight ==
  ASSUME TypeInv, FlightInv, NEW st \in [1..MaxTools -> CallStatus], NextCall(st),
         UNCHANGED <<mode, draining>>,
         \A i \in 1..MaxTools : st[i] \in {"running", "cancelling"} => i \in Flight,
         \A i \in Flight : st[i] = status[i],
         mode = "sequential" => Flight = {} /\ \A i \in 1..MaxTools : st[i] # "ready",
         draining => Flight = {} /\ st = status,
         (\E i \in 1..MaxTools : st[i] = "todo") => Flight = {}
  PROVE  FlightInv' /\ SettlesOver
<1>. DEFINE is(s) == {i \in 1..MaxTools : st[i] = s}
            open == {i \in 1..MaxTools : st[i] \notin {"none", "result"}}
            launched == [i \in 1..MaxTools |->
              IF st[i] = "ready" THEN IF aborted THEN "cancelled" ELSE "running" ELSE st[i]]
<1>0. Flight \subseteq open BY DEF Flight
<1>1. \A S \in SUBSET (1..MaxTools) : S # {} => FirstOf(S) \in S
  <2>. SUFFICES ASSUME NEW S \in SUBSET (1..MaxTools), S # {} PROVE FirstOf(S) \in S
    OBVIOUS
  <2>1. S \in SUBSET Nat BY Bounds
  <2>. QED BY <2>1, FirstInSet
<1>2. CASE Cut /\ (draining \/ is("todo") # {} \/ open = {})
  <2>1. Flight = {} BY <1>0, <1>2
  <2>. QED BY <1>2, <2>1, CutFlight
<1>3. CASE /\ draining /\ is("done") # {} /\ pc' = "after" /\ cur' = FirstOf(is("done"))
           /\ UNCHANGED status
  <2>1. is("done") \in SUBSET (1..MaxTools) OBVIOUS
  <2>2. cur' \in is("done") BY <1>1, <1>3, <2>1
  <2>3. cur' \in 1..MaxTools /\ status'[cur'] = "done" BY <1>3, <2>2
  <2>4. Flight = {} /\ (mode = "sequential" => \A i \in 1..MaxTools : status[i] # "ready")
    BY <1>3
  <2>. QED BY <1>3, <2>3, <2>4, NoFlight DEF Flight
<1>4. CASE is("todo") # {} /\ StartCall(FirstOf(is("todo")), st)
  <2>1. Flight = {} BY <1>4
  <2>2. \A i \in 1..MaxTools : status'[i] \in {st[i], "preparing"} BY <1>4 DEF StartCall
  <2>3. pc' # "after" BY <1>4 DEF StartCall
  <2>. QED BY <2>1, <2>2, <2>3, NoFlight
<1>5. CASE ~draining /\ is("todo") = {} /\ status' = launched /\ pc' = "exec"
  <2>1. \A i \in Flight : status'[i] # "result" BY <1>5 DEF Flight
  <2>2. \A i \in 1..MaxTools : status'[i] \notin {"ready", "todo"} BY <1>5
  <2>3. mode = "sequential" => Flight' = {} BY <1>5 DEF Flight
  <2>. QED BY <1>5, <2>1, <2>2, <2>3 DEF FlightInv, SettlesOver
<1>6. CASE open = {} /\ pc' \in {"turnEnd", "lastTurn"} /\ UNCHANGED status
  <2>1. Flight = {} BY <1>0, <1>6
  <2>. QED BY <1>6, <2>1, NoFlight DEF Flight, FlightInv
<1>7. \/ Cut /\ (draining \/ is("todo") # {} \/ open = {})
      \/ /\ draining /\ is("done") # {} /\ pc' = "after" /\ cur' = FirstOf(is("done"))
         /\ UNCHANGED status
      \/ is("todo") # {} /\ StartCall(FirstOf(is("todo")), st)
      \/ ~draining /\ is("todo") = {} /\ status' = launched /\ pc' = "exec"
      \/ open = {} /\ pc' \in {"turnEnd", "lastTurn"} /\ UNCHANGED status
  BY Zenon DEF NextCall
<1>. QED BY <1>2, <1>3, <1>4, <1>5, <1>6, <1>7

\* The ways a run ends.
LEMMA EndsFlight ==
  ASSUME TypeInv, FlightInv
  PROVE  /\ FinishRun => FlightInv' /\ SettlesOver
         /\ FailRun => FlightInv' /\ SettlesOver
         /\ CancelledRun => FlightInv' /\ SettlesOver
         /\ AbortTurn /\ UNCHANGED batch /\ Flight = {} => FlightInv' /\ SettlesOver
<1>1. FinishRun => FlightInv' /\ SettlesOver BY EmptyBatch DEF FinishRun
<1>2. FailRun => FlightInv' /\ SettlesOver BY SameBatch DEF FailRun, batch
<1>3. AbortTurn /\ UNCHANGED batch /\ Flight = {} => FlightInv' /\ SettlesOver
  BY SameBatch DEF AbortTurn, batch
<1>. QED BY <1>1, <1>2, <1>3 DEF CancelledRun

\* Steps outside a batch, of a caller or of the run.
LEMMA OutsideFlight ==
  ASSUME TypeInv, FlightInv,
         \/ Caller \/ OrphanEnds \/ SetUp \/ EmitPrompt \/ FirstPoll \/ Inject \/ CallModel
         \/ ModelReplies \/ ModelAborts \/ ModelCancelled
         \/ \E n \in 1..MaxTools : ModelCallsTools(n)
         \/ BatchEnded \/ TurnEnded \/ LastTurn \/ LastTurnEnded \/ RunEnded \/ Raises
         \/ ListenerCancelled
  PROVE  FlightInv' /\ SettlesOver
<1>1. pc \notin {"exec", "gather", "after", "outcome", "failed"} => Flight = {}
  BY DEF FlightInv
<1>2. CASE Caller
  BY <1>1, <1>2, SameBatch
  DEF Caller, Prompt, ContinueRun, StartRun, Enqueue, ClearQueues, Abort, batch
<1>3. CASE OrphanEnds BY <1>3, SameBatch DEF OrphanEnds, batch
<1>4. CASE SetUp BY <1>1, <1>4, EndsFlight, SameBatch DEF SetUp, batch
<1>5. CASE EmitPrompt \/ FirstPoll \/ Inject \/ CallModel
  BY <1>1, <1>5, EndsFlight, SameBatch
  DEF EmitPrompt, FirstPoll, EnterTurn, Inject, CallModel, batch
<1>6. CASE ModelReplies \/ ModelAborts \/ ModelCancelled \/ \E n \in 1..MaxTools : ModelCallsTools(n)
  BY <1>1, <1>6, EndsFlight, SameBatch
  DEF ModelReplies, Reply, ModelAborts, ModelCancelled, ModelCallsTools, batch
<1>7. CASE BatchEnded BY <1>1, <1>7, EndsFlight DEF BatchEnded
<1>8. CASE TurnEnded
  <2>1. CASE status' = NoBatch
    <3>1. pc' # "after" BY <1>8, <2>1 DEF TurnEnded, EnterTurn, AbortTurn, EndAgent
    <3>. QED BY <2>1, <3>1, EmptyBatch
  <2>2. CASE EndAgent BY <1>1, <1>8, <2>2, SameBatch DEF EndAgent, TurnEnded, batch
  <2>. QED BY <1>8, <2>1, <2>2, Zenon DEF TurnEnded
<1>9. CASE LastTurn \/ LastTurnEnded \/ RunEnded \/ Raises \/ ListenerCancelled
  BY <1>1, <1>9, EndsFlight, SameBatch
  DEF LastTurn, LastTurnEnded, EndAgent, RunEnded, Raises, ListenerCancelled, batch
<1>. QED BY <1>2, <1>3, <1>4, <1>5, <1>6, <1>7, <1>8, <1>9

\* Steps of the tool tasks and of the timer.
LEMMA TaskFlight ==
  ASSUME TypeInv, FlightInv,
         ForceCancel \/ \E i \in 1..MaxTools : ToolCompletes(i) \/ ToolCancelled(i)
  PROVE  FlightInv' /\ SettlesOver
<1>1. status \in [1..MaxTools -> CallStatus] BY StatusType
<1>2. CASE ForceCancel
  <2>1. \A i \in 1..MaxTools :
          status'[i] = IF status[i] = "running" THEN "cancelling" ELSE status[i]
    BY <1>2 DEF ForceCancel, Cancelling
  <2>2. UNCHANGED <<pc, mode, cur, draining>> BY <1>2 DEF ForceCancel
  <2>. QED BY <2>1, <2>2 DEF FlightInv, Flight, SettlesOver
<1>3. ASSUME NEW i \in 1..MaxTools, ToolCompletes(i) \/ ToolCancelled(i)
      PROVE  FlightInv' /\ SettlesOver
  <2>1. status[i] \in {"running", "cancelling"} /\ UNCHANGED <<pc, mode, cur, draining>>
    BY <1>3 DEF ToolCompletes, ToolCancelled, ToolStep
  <2>2. status' = [status EXCEPT ![i] = status'[i]] /\ status'[i] \in Terminal
    BY <1>1, <1>3 DEF ToolCompletes, ToolCancelled, ToolStep, Terminal
  <2>3. \A j \in 1..MaxTools : j # i => status'[j] = status[j] BY <1>1, <2>2
  <2>4. status'[i] \notin {"running", "cancelling", "ready", "todo", "result"} 
    BY <2>2 DEF Terminal
  <2>. QED BY <2>1, <2>3, <2>4 DEF FlightInv, Flight, SettlesOver
<1>. QED BY <1>2, <1>3

\* The completed tasks of a batch are saved in an aborted run only.
DrainInv == draining => aborted

LEMMA DrainStep == TypeInv /\ DrainInv /\ [Next]_vars => DrainInv'
<1>. SUFFICES ASSUME TypeInv, DrainInv, [Next]_vars PROVE DrainInv' OBVIOUS
<1>1. UNCHANGED <<draining, signal>> => DrainInv' BY DEF DrainInv, signal
<1>2. FinishRun => DrainInv' BY DEF FinishRun, DrainInv
<1>3. FailRun => DrainInv' BY <1>1 DEF FailRun, batch
<1>4. CancelledRun => DrainInv' BY <1>2, <1>3 DEF CancelledRun
<1>5. CASE UNCHANGED vars BY <1>1, <1>5 DEF vars, signal
<1>6. CASE Caller
  <2>1. Abort => DrainInv' BY DEF Abort, DrainInv
  <2>. QED BY <1>1, <1>6, <2>1 DEF Caller, Prompt, ContinueRun, StartRun, Enqueue, ClearQueues, batch
<1>7. CASE ForceCancel \/ Tool
  <2>1. ForceCancel => DrainInv' BY DEF ForceCancel, DrainInv
  <2>. QED BY <1>1, <1>7, <2>1 DEF Tool, ToolCompletes, ToolCancelled, ToolStep, OrphanEnds, batch
<1>8. CASE SetUp \/ EmitPrompt \/ FirstPoll \/ Inject \/ CallModel
  BY <1>1, <1>2, <1>3, <1>8 DEF SetUp, EmitPrompt, FirstPoll, Inject, CallModel, batch
<1>9. CASE ModelReplies \/ ModelAborts \/ ModelCancelled \/ \E n \in 1..MaxTools : ModelCallsTools(n)
  BY <1>1, <1>4, <1>9 DEF ModelReplies, Reply, ModelAborts, ModelCancelled, ModelCallsTools, batch
<1>10. CASE ReplyEnded BY <1>1, <1>10 DEF ReplyEnded, batch
<1>11. CASE PreparedImmediate \/ PreparedCall \/ OutcomeEnded \/ Gathered \/ AfterHook \/ HookCancelled
            \/ OutcomeCancelled \/ CutNext
  BY <1>1, <1>11 DEF PreparedImmediate, PreparedCall, OutcomeEnded, Gathered, AfterHook,
                     HookCancelled, OutcomeCancelled, CutNext, Coordinates
<1>12. CASE Awaited BY <1>1, <1>12 DEF Awaited, Coordinates, DrainInv, signal
<1>13. CASE BatchEnded BY <1>1, <1>4, <1>13 DEF BatchEnded, batch
<1>14. CASE TurnEnded BY <1>1, <1>14 DEF TurnEnded, EndAgent, batch
<1>15. CASE LastTurn \/ LastTurnEnded \/ RunEnded \/ Raises \/ ListenerCancelled
  BY <1>1, <1>2, <1>3, <1>15
  DEF LastTurn, LastTurnEnded, EndAgent, RunEnded, Raises, ListenerCancelled, batch
<1>. QED
  BY <1>5, <1>6, <1>7, <1>8, <1>9, <1>10, <1>11, <1>12, <1>13, <1>14, <1>15 DEF Next, Run, Idle

\* A CancelledError that leaves a batch passes the cleanup of the batch only.
ReraiseInv == reraise => pc \in {"gather", "cut", "batchEnd", "failed"}

LEMMA ReraiseStep == ReraiseInv /\ [Next]_vars => ReraiseInv'
<1>. SUFFICES ASSUME ReraiseInv, [Next]_vars PROVE ReraiseInv' OBVIOUS
<1>1. UNCHANGED <<reraise, pc>> => ReraiseInv' BY DEF ReraiseInv
<1>2. ~reraise' => ReraiseInv' BY DEF ReraiseInv
<1>3. FinishRun => ReraiseInv' BY <1>2 DEF FinishRun
<1>4. FailRun => ReraiseInv' BY DEF FailRun, ReraiseInv
<1>5. CancelledRun => ReraiseInv' BY <1>3, <1>4 DEF CancelledRun
<1>6. UNCHANGED reraise /\ Cut => ReraiseInv'
  <2>1. Cut => pc' \in {"cut", "batchEnd"} BY DEF Cut, Settle
  <2>. QED BY <2>1 DEF ReraiseInv
<1>7. UNCHANGED reraise /\ pc \notin {"gather", "cut", "batchEnd", "failed"} => ReraiseInv'
  BY DEF ReraiseInv
<1>8. CASE UNCHANGED vars BY <1>1, <1>8 DEF vars
<1>9. CASE Caller
  BY <1>1, <1>7, <1>9 DEF Caller, Prompt, ContinueRun, StartRun, Enqueue, ClearQueues, Abort, batch
<1>10. CASE ForceCancel \/ Tool
  BY <1>1, <1>10 DEF ForceCancel, Tool, ToolCompletes, ToolCancelled, ToolStep, OrphanEnds, batch
<1>11. CASE SetUp \/ EmitPrompt \/ FirstPoll \/ Inject \/ CallModel
  BY <1>3, <1>4, <1>7, <1>11 DEF SetUp, EmitPrompt, FirstPoll, Inject, CallModel, batch
<1>12. CASE ModelReplies \/ ModelAborts \/ ModelCancelled \/ \E n \in 1..MaxTools : ModelCallsTools(n)
  BY <1>5, <1>7, <1>12 DEF ModelReplies, Reply, ModelAborts, ModelCancelled, ModelCallsTools, batch
<1>13. CASE ReplyEnded BY <1>7, <1>13 DEF ReplyEnded, batch
<1>14. CASE PreparedImmediate \/ PreparedCall \/ OutcomeEnded \/ AfterHook
  BY <1>7, <1>14 DEF PreparedImmediate, PreparedCall, OutcomeEnded, AfterHook
<1>15. CASE Gathered
  <2>1. CASE reraise BY <1>6, <1>15, <2>1 DEF Gathered
  <2>2. CASE ~reraise BY <1>2, <1>15, <2>2 DEF Gathered
  <2>. QED BY <2>1, <2>2
<1>16. CASE CutNext BY <1>6, <1>16 DEF CutNext
<1>17. CASE Awaited
  <2>1. Gather => ReraiseInv' BY DEF Gather, ReraiseInv
  <2>2. Cut => ReraiseInv' BY DEF Cut, Settle, ReraiseInv
  <2>. QED BY <1>7, <1>17, <2>1, <2>2 DEF Awaited
<1>18. CASE HookCancelled \/ OutcomeCancelled
  BY <1>18 DEF HookCancelled, OutcomeCancelled, Gather, Cut, Settle, ReraiseInv
<1>19. CASE BatchEnded BY <1>2, <1>5, <1>19 DEF BatchEnded, batch
<1>20. CASE TurnEnded BY <1>7, <1>20 DEF TurnEnded, EndAgent, batch
<1>21. CASE LastTurn \/ LastTurnEnded \/ RunEnded \/ Raises \/ ListenerCancelled
  BY <1>3, <1>4, <1>7, <1>21
  DEF LastTurn, LastTurnEnded, EndAgent, RunEnded, Raises, ListenerCancelled, batch
<1>. QED
  BY <1>8, <1>9, <1>10, <1>11, <1>12, <1>13, <1>14, <1>15, <1>16, <1>17, <1>18, <1>19, <1>20,
     <1>21 DEF Next, Run, Idle

\* Steps of the coordinator of the batch.
LEMMA BatchFlight ==
  ASSUME TypeInv, FlightInv, draining => aborted,
         \/ ReplyEnded \/ PreparedImmediate \/ PreparedCall \/ OutcomeEnded
         \/ Awaited \/ Gathered \/ AfterHook \/ HookCancelled \/ OutcomeCancelled
         \/ CutNext
  PROVE  FlightInv' /\ SettlesOver
<1>1. status \in [1..MaxTools -> CallStatus] /\ mode \in {"sequential", "parallel"} BY StatusType
<1>2. pc \notin {"exec", "gather", "after", "outcome", "failed"} => Flight = {}
  BY DEF FlightInv
<1>3. CASE ReplyEnded
  <2>1. Flight = {} BY <1>2, <1>3 DEF ReplyEnded
  <2>2. CASE pc' \in {"lastTurn", "turnEnd"} /\ UNCHANGED batch BY <2>1, <2>2, SameBatch DEF batch
  <2>3. CASE AbortTurn /\ UNCHANGED batch BY <2>1, <2>3, EndsFlight
  <2>4. CASE mode' \in {"sequential", "parallel"}
             /\ StartCall(1, [i \in 1..MaxTools |->
                                IF i <= Final(messages).calls THEN "todo" ELSE "none"])
    BY <2>4 DEF StartCall, FlightInv, Flight, SettlesOver
  <2>. QED BY <1>3, <2>2, <2>3, <2>4 DEF ReplyEnded
<1>4. ASSUME NEW kind, pc \in {"prepare", "after"}, Settle(cur, kind, "outcome"),
             status[cur] \notin {"running", "cancelling"}, UNCHANGED <<mode, draining>>
      PROVE  FlightInv' /\ SettlesOver
  <2>1. \A j \in 1..MaxTools : status'[j] = IF j = cur THEN "result" ELSE status[j]
    BY <1>1, <1>4 DEF Settle
  <2>2. pc' = "outcome" BY <1>4 DEF Settle
  <2>3. pc = "prepare" => Flight = {} BY <1>2
  <2>. QED BY <1>4, <2>1, <2>2, <2>3 DEF FlightInv, Flight, SettlesOver
<1>5. ASSUME Gather, mode = "parallel", UNCHANGED mode
      PROVE  FlightInv' /\ SettlesOver
  <2>1. \A i \in 1..MaxTools :
          status'[i] = IF status[i] = "running" THEN "cancelling" ELSE status[i]
    BY <1>5 DEF Gather, Cancelling
  <2>2. pc' = "gather" BY <1>5 DEF Gather
  <2>. QED BY <1>5, <2>1, <2>2 DEF FlightInv, Flight, SettlesOver
<1>6. CASE PreparedImmediate
  <2>1. Flight = {} BY <1>2, <1>6 DEF PreparedImmediate
  <2>2. status[cur] \notin {"running", "cancelling"}
    BY <2>1, TypeParts DEF Flight, BatchOK
  <2>. QED BY <1>4, <1>6, <2>1, <2>2, CutFlight DEF PreparedImmediate
<1>7. CASE PreparedCall
  <2>1. Flight = {} BY <1>2, <1>7 DEF PreparedCall
  <2>2. CASE aborted BY <1>7, <2>1, <2>2, CutFlight DEF PreparedCall
  <2>3. CASE ~aborted /\ mode = "sequential"
    <3>1. /\ status' = [status EXCEPT ![cur] = "running"] /\ pc' = "exec"
          /\ UNCHANGED <<mode, cur, draining>>
      BY <1>7, <2>3 DEF PreparedCall
    <3>2. \A i \in 1..MaxTools : status'[i] = IF i = cur THEN "running" ELSE status[i]
      BY <1>1, <3>1
    <3>3. ~draining BY <2>3
    <3>. QED BY <2>1, <2>3, <3>1, <3>2, <3>3 DEF FlightInv, Flight, SettlesOver
  <2>4. CASE ~aborted /\ mode # "sequential"
    <3>. DEFINE st == [status EXCEPT ![cur] = "ready"]
    <3>1. NextCall(st) /\ UNCHANGED <<mode, draining>> BY <1>7, <2>4 DEF PreparedCall
    <3>2. st \in [1..MaxTools -> CallStatus] BY <1>1 DEF CallStatus
    <3>3. \A i \in 1..MaxTools : st[i] = IF i = cur THEN "ready" ELSE status[i] BY <1>1
    <3>4. ~draining BY <2>4
    <3>5. \A i \in 1..MaxTools : st[i] \in {"running", "cancelling"} => i \in Flight
      BY <3>3 DEF Flight
    <3>. QED BY <2>1, <2>4, <3>1, <3>2, <3>4, <3>5, NextCallFlight
  <2>. QED BY <2>2, <2>3, <2>4
<1>8. CASE OutcomeEnded
  <2>1. pc = "outcome" /\ NextCall(status) /\ UNCHANGED <<mode, draining>>
    BY <1>8 DEF OutcomeEnded
  <2>2. mode = "sequential" => Flight = {} /\ \A i \in 1..MaxTools : status[i] # "ready"
    BY <2>1 DEF FlightInv
  <2>3. (\E i \in 1..MaxTools : status[i] = "todo") => Flight = {}
    BY <2>1, <2>2, TypeParts DEF FlightInv, BatchOK
  <2>4. draining => Flight = {} BY <2>1 DEF FlightInv
  <2>. QED BY <1>1, <2>1, <2>2, <2>3, <2>4, NextCallFlight DEF Flight
<1>9. CASE Gathered
  <2>1. Flight = {} BY <1>9 DEF Gathered, In, Flight
  <2>2. mode = "sequential" => \A i \in 1..MaxTools : status[i] # "ready" BY DEF FlightInv
  <2>3. CASE reraise BY <1>9, <2>1, <2>3, CutFlight DEF Gathered
  <2>4. CASE ~reraise
    <3>1. NextCall(status) /\ UNCHANGED <<mode, draining>> BY <1>9, <2>4 DEF Gathered
    <3>. QED BY <1>1, <2>1, <2>2, <3>1, NextCallFlight DEF Flight
  <2>. QED BY <2>3, <2>4
<1>10. CASE Awaited
  <2>1. UNCHANGED mode /\ pc = "exec" /\ status[cur] \in Terminal BY <1>10 DEF Awaited
  <2>2. CASE Gather /\ mode = "parallel" BY <1>5, <2>1, <2>2
  <2>3. CASE Cut /\ mode # "parallel"
    <3>1. Flight \subseteq {cur} BY <1>1, <2>1, <2>3 DEF FlightInv
    <3>2. cur \notin Flight BY <2>1 DEF Flight, Terminal
    <3>3. Flight = {} BY <3>1, <3>2
    <3>. QED BY <2>1, <2>3, <3>3, CutFlight
  <2>4. CASE /\ status[cur] = "done" /\ ~ (mode = "parallel" /\ aborted) /\ pc' = "after"
             /\ UNCHANGED <<status, cur, draining>>
    <3>1. cur \in 1..MaxTools BY TypeParts DEF BatchOK
    <3>2. cur \notin Flight BY <2>4 DEF Flight
    <3>. QED BY <2>1, <2>4, <3>1, <3>2 DEF FlightInv, Flight, SettlesOver
  <2>. QED BY <1>10, <2>2, <2>3, <2>4 DEF Awaited
<1>11. CASE AfterHook
  <2>1. status[cur] = "done" BY <1>11 DEF AfterHook, FlightInv
  <2>. QED BY <1>4, <1>11, <2>1 DEF AfterHook
<1>12. CASE HookCancelled
  <2>1. UNCHANGED mode /\ pc \in {"prepare", "after"} BY <1>12 DEF HookCancelled
  <2>2. CASE Gather /\ mode = "parallel" BY <1>5, <2>1, <2>2
  <2>3. CASE Cut /\ ~ (pc = "after" /\ mode = "parallel")
    <3>1. Flight = {} BY <1>1, <1>2, <2>1, <2>3 DEF FlightInv
    <3>. QED BY <2>1, <2>3, <3>1, CutFlight
  <2>. QED BY <1>12, <2>2, <2>3 DEF HookCancelled
<1>13. CASE CutNext
  <2>1. Flight = {} BY <1>2, <1>13 DEF CutNext
  <2>. QED BY <1>13, <2>1, CutFlight DEF CutNext
<1>14. CASE OutcomeCancelled
  <2>1. UNCHANGED <<mode, draining>> /\ pc = "outcome" /\ pc' = "gather"
    BY <1>14 DEF OutcomeCancelled
  <2>2. \A i \in 1..MaxTools :
          status'[i] = IF i = cur THEN "todo"
                       ELSE IF status[i] = "running" THEN "cancelling" ELSE status[i]
    BY <1>14 DEF OutcomeCancelled, Cancelling
  <2>3. \A i \in Flight : status'[i] # "result" BY <2>2 DEF Flight
  <2>4. \A i \in 1..MaxTools : status[i] # "ready" => status'[i] # "ready" BY <2>2
  <2>. QED BY <2>1, <2>3, <2>4 DEF FlightInv, SettlesOver
<1>. QED BY <1>3, <1>6, <1>7, <1>8, <1>9, <1>10, <1>11, <1>12, <1>13, <1>14

LEMMA FlightStep ==
  TypeInv /\ DrainInv /\ FlightInv /\ [Next]_vars => FlightInv' /\ SettlesOver
<1>. SUFFICES ASSUME TypeInv, DrainInv, FlightInv, [Next]_vars PROVE FlightInv' /\ SettlesOver
  OBVIOUS
<1>1. CASE UNCHANGED vars
  <2>1. SettlesOver BY <1>1, StatusType DEF vars, Flight, SettlesOver
  <2>2. FlightInv' BY <1>1 DEF vars, Flight, FlightInv
  <2>. QED BY <2>1, <2>2
<1>2. CASE Next
  BY <1>1, <1>2, OutsideFlight, TaskFlight, BatchFlight DEF Next, Run, Tool, Idle, DrainInv
<1>. QED BY <1>1, <1>2

\* The result of a call, an aborted one included, is reported only after its tool
\* task is over: however abort, timer, faults and completions interleave, for every
\* number of calls in a batch.
THEOREM ToolsOverFirst == Spec => ToolOverBeforeResult
<1>. DEFINE Inv == TypeInv /\ DrainInv /\ FlightInv
<1>1. Init => Inv
  BY InitType, InitFlight DEF Init, DrainInv
<1>2. Inv /\ [Next]_vars => FlightInv' /\ SettlesOver BY FlightStep
<1>3. Inv /\ [Next]_vars => Inv' BY <1>2, NextType, DrainStep
<1>4. Inv /\ [Next]_vars => [\A i \in In("running") \cup In("cancelling") : status'[i] # "result"]_vars
  BY <1>2 DEF SettlesOver, Flight, In
<1>. QED BY <1>1, <1>3, <1>4, PTL DEF Spec, ToolOverBeforeResult

-----------------------------------------------------------------------------
(***************************************************************************)
(* The calls reported as pending.  TurnEnded forgets the batch and leaves  *)
(* the report alone, and ReplyEnded starts a batch on top of it: both are  *)
(* right because no call is unsettled at the suspension points of Apart.   *)
(***************************************************************************)
Apart == {"idle", "setup", "prompts", "inject", "model", "reply", "turnEnd"}
UnsettledIn(st) == {i \in 1..MaxTools : st[i] \notin {"none", "todo", "result"}}
PendingInv ==
  /\ pending_tool_calls = UnsettledIn(status)
  /\ pc \in Apart => pending_tool_calls = {}
  /\ pc = "prepare" => status[cur] = "preparing"
  /\ pc = "outcome" => status[cur] = "result"

LEMMA InitPending == Init => PendingInv
BY DEF Init, PendingInv, UnsettledIn, NoBatch

\* Steps that leave the batch alone.
LEMMA SamePending ==
  ASSUME PendingInv, UNCHANGED <<status, cur, pending_tool_calls>>,
         pc' = pc \/ (pc' \notin {"prepare", "outcome"} /\ (pc' \in Apart => pc \in Apart))
  PROVE  PendingInv'
BY DEF PendingInv, UnsettledIn

LEMMA SettlePending ==
  ASSUME TypeInv, PendingInv, NEW i \in 1..MaxTools, NEW kind, NEW at \in {"cut", "outcome"},
         Settle(i, kind, at)
  PROVE  PendingInv'
<1>1. status \in [1..MaxTools -> CallStatus] BY StatusType
<1>2. \A j \in 1..MaxTools : status'[j] = IF j = i THEN "result" ELSE status[j]
  BY <1>1 DEF Settle
<1>3. pc' \notin Apart \cup {"prepare"} /\ cur' = i BY DEF Settle, Apart
<1>. QED BY <1>2, <1>3 DEF PendingInv, UnsettledIn, Settle

LEMMA CutPending ==
  ASSUME TypeInv, PendingInv, Cut
  PROVE  PendingInv'
<1>1. CASE Open # {}
  <2>1. Open \in SUBSET Nat BY Bounds DEF Open, Calls
  <2>2. FirstOf(Open) \in 1..MaxTools BY <1>1, <2>1, FirstInSet DEF Open, Calls
  <2>. QED BY <1>1, <2>2, SettlePending DEF Cut
<1>2. CASE Open = {}
  BY <1>2, SamePending DEF Cut, Apart
<1>. QED BY <1>1, <1>2

\* Steps after which the same calls are unsettled, only further on.
LEMMA FurtherPending ==
  ASSUME PendingInv, UNCHANGED pending_tool_calls, pc' \notin Apart \cup {"prepare", "outcome"},
         UnsettledIn(status') = UnsettledIn(status)
  PROVE  PendingInv'
BY DEF PendingInv

LEMMA StartCallPending ==
  ASSUME NEW st \in [1..MaxTools -> CallStatus], NEW i \in 1..MaxTools, StartCall(i, st),
         UnsettledIn(st) = pending_tool_calls
  PROVE  PendingInv'
<1>1. \A j \in 1..MaxTools : status'[j] = IF j = i THEN "preparing" ELSE st[j]
  BY DEF StartCall
<1>2. UnsettledIn(status') = UnsettledIn(st) \cup {i} BY <1>1 DEF UnsettledIn
<1>. QED BY <1>1, <1>2 DEF StartCall, PendingInv, Apart

LEMMA NextCallPending ==
  ASSUME TypeInv, PendingInv, NEW st \in [1..MaxTools -> CallStatus], NextCall(st),
         UnsettledIn(st) = UnsettledIn(status)
  PROVE  PendingInv'
<1>. DEFINE is(s) == {i \in 1..MaxTools : st[i] = s}
            open == {i \in 1..MaxTools : st[i] \notin {"none", "result"}}
            launched == [i \in 1..MaxTools |->
              IF st[i] = "ready" THEN IF aborted THEN "cancelled" ELSE "running" ELSE st[i]]
<1>1. CASE Cut BY <1>1, CutPending
<1>2. CASE pc' = "after" /\ UNCHANGED <<status, pending_tool_calls>>
  BY <1>2, FurtherPending DEF Apart
<1>3. CASE is("todo") # {} /\ StartCall(FirstOf(is("todo")), st)
  <2>1. is("todo") \in SUBSET Nat BY Bounds
  <2>2. FirstOf(is("todo")) \in 1..MaxTools BY <1>3, <2>1, FirstInSet
  <2>. QED BY <1>3, <2>2, StartCallPending DEF PendingInv
<1>4. CASE is("todo") = {} /\ status' = launched /\ pc' = "exec" /\ UNCHANGED pending_tool_calls
  <2>1. UnsettledIn(status') = UnsettledIn(st) BY <1>4 DEF UnsettledIn
  <2>. QED BY <1>4, <2>1, FurtherPending DEF Apart
<1>5. CASE /\ open = {} /\ pc' \in {"turnEnd", "lastTurn"}
           /\ UNCHANGED <<status, cur, pending_tool_calls>>
  <2>1. UnsettledIn(st) = {} BY <1>5 DEF UnsettledIn
  <2>. QED BY <1>5, <2>1 DEF PendingInv, Apart
<1>6. \/ Cut
      \/ pc' = "after" /\ UNCHANGED <<status, pending_tool_calls>>
      \/ is("todo") # {} /\ StartCall(FirstOf(is("todo")), st)
      \/ is("todo") = {} /\ status' = launched /\ pc' = "exec" /\ UNCHANGED pending_tool_calls
      \/ /\ open = {} /\ pc' \in {"turnEnd", "lastTurn"}
         /\ UNCHANGED <<status, cur, pending_tool_calls>>
  BY Zenon DEF NextCall
<1>. QED BY <1>1, <1>2, <1>3, <1>4, <1>5, <1>6

\* The ways a run ends.
LEMMA EndsPending ==
  ASSUME PendingInv
  PROVE  /\ FinishRun => PendingInv'
         /\ FailRun => PendingInv'
         /\ CancelledRun => PendingInv'
         /\ AbortTurn /\ UNCHANGED batch => PendingInv'
<1>1. FinishRun => PendingInv' BY DEF FinishRun, PendingInv, UnsettledIn, NoBatch
<1>2. FailRun => PendingInv' BY SamePending DEF FailRun, batch, Apart
<1>3. AbortTurn /\ UNCHANGED batch => PendingInv' BY SamePending DEF AbortTurn, batch, Apart
<1>. QED BY <1>1, <1>2, <1>3 DEF CancelledRun

LEMMA OutsidePending ==
  ASSUME PendingInv,
         \/ Caller \/ OrphanEnds \/ SetUp \/ EmitPrompt \/ FirstPoll \/ Inject \/ CallModel
         \/ ModelReplies \/ ModelAborts \/ ModelCancelled
         \/ \E n \in 1..MaxTools : ModelCallsTools(n)
         \/ BatchEnded \/ TurnEnded \/ LastTurn \/ LastTurnEnded \/ RunEnded \/ Raises
         \/ ListenerCancelled
  PROVE  PendingInv'
<1>1. CASE Caller
  BY <1>1, SamePending
  DEF Caller, Prompt, ContinueRun, StartRun, Enqueue, ClearQueues, Abort, batch, Apart
<1>2. CASE OrphanEnds BY <1>2, SamePending DEF OrphanEnds, batch
<1>3. CASE SetUp BY <1>3, EndsPending, SamePending DEF SetUp, batch, Apart
<1>4. CASE EmitPrompt \/ FirstPoll \/ Inject \/ CallModel
  BY <1>4, EndsPending, SamePending
  DEF EmitPrompt, FirstPoll, EnterTurn, Inject, CallModel, batch, Apart
<1>5. CASE ModelReplies \/ ModelAborts \/ ModelCancelled \/ \E n \in 1..MaxTools : ModelCallsTools(n)
  BY <1>5, EndsPending, SamePending
  DEF ModelReplies, Reply, ModelAborts, ModelCancelled, ModelCallsTools, batch, Apart
<1>6. CASE BatchEnded BY <1>6, EndsPending DEF BatchEnded
<1>7. CASE TurnEnded
  <2>1. pending_tool_calls = {} BY <1>7 DEF TurnEnded, PendingInv, Apart
  <2>2. CASE status' = NoBatch /\ UNCHANGED pending_tool_calls
    <3>1. pc' \notin {"prepare", "outcome"}
      BY <1>7, <2>2 DEF TurnEnded, EnterTurn, AbortTurn, EndAgent
    <3>. QED BY <2>1, <2>2, <3>1 DEF PendingInv, UnsettledIn, NoBatch
  <2>3. CASE EndAgent BY <2>3, SamePending DEF EndAgent, batch, Apart
  <2>. QED BY <1>7, <2>2, <2>3, Zenon DEF TurnEnded
<1>8. CASE LastTurn \/ LastTurnEnded \/ RunEnded \/ Raises \/ ListenerCancelled
  BY <1>8, EndsPending, SamePending
  DEF LastTurn, LastTurnEnded, EndAgent, RunEnded, Raises, ListenerCancelled, batch, Apart
<1>. QED BY <1>1, <1>2, <1>3, <1>4, <1>5, <1>6, <1>7, <1>8

\* Steps of the tool tasks and of the timer: a call that executes goes on to be unsettled.
LEMMA TaskPending ==
  ASSUME TypeInv, PendingInv,
         ForceCancel \/ \E i \in 1..MaxTools : ToolCompletes(i) \/ ToolCancelled(i)
  PROVE  PendingInv'
<1>1. status \in [1..MaxTools -> CallStatus] /\ cur \in 1..MaxTools
  BY StatusType, TypeParts DEF BatchOK
<1>2. CASE ForceCancel
  BY <1>1, <1>2 DEF ForceCancel, Cancelling, PendingInv, UnsettledIn
<1>3. ASSUME NEW i \in 1..MaxTools, ToolCompletes(i) \/ ToolCancelled(i)
      PROVE  PendingInv'
  <2>1. /\ status[i] \in {"running", "cancelling"} /\ UNCHANGED <<pc, cur, pending_tool_calls>>
        /\ status'[i] \in Terminal /\ \A j \in 1..MaxTools : j # i => status'[j] = status[j]
    BY <1>1, <1>3 DEF ToolCompletes, ToolCancelled, ToolStep, Terminal
  <2>. QED BY <1>1, <2>1 DEF PendingInv, UnsettledIn, Terminal
<1>. QED BY <1>2, <1>3

\* Steps of the coordinator of the batch.
LEMMA BatchPending ==
  ASSUME TypeInv, PendingInv,
         \/ ReplyEnded \/ PreparedImmediate \/ PreparedCall \/ OutcomeEnded
         \/ Awaited \/ Gathered \/ AfterHook \/ HookCancelled \/ OutcomeCancelled
         \/ CutNext
  PROVE  PendingInv'
<1>1. status \in [1..MaxTools -> CallStatus] /\ cur \in 1..MaxTools
  BY StatusType, TypeParts DEF BatchOK
<1>2. Gather => PendingInv'
  <2>. SUFFICES ASSUME Gather PROVE PendingInv' OBVIOUS
  <2>1. UnsettledIn(status') = UnsettledIn(status) BY <1>1 DEF Gather, Cancelling, UnsettledIn
  <2>. QED BY <2>1, FurtherPending DEF Gather, Apart
<1>3. CASE ReplyEnded
  <2>. DEFINE fresh == [i \in 1..MaxTools |-> IF i <= Final(messages).calls THEN "todo" ELSE "none"]
  <2>1. CASE StartCall(1, fresh)
    <3>1. fresh \in [1..MaxTools -> CallStatus] BY DEF CallStatus
    <3>2. UnsettledIn(fresh) = {} BY DEF UnsettledIn
    <3>3. pending_tool_calls = {} BY <1>3 DEF ReplyEnded, PendingInv, Apart
    <3>. QED BY <2>1, <3>1, <3>2, <3>3, StartCallPending, Bounds
  <2>2. CASE pc' \in {"lastTurn", "turnEnd"} /\ UNCHANGED batch
    BY <1>3, <2>2, SamePending DEF ReplyEnded, batch, Apart
  <2>3. CASE AbortTurn /\ UNCHANGED batch BY <2>3, EndsPending
  <2>. QED BY <1>3, <2>1, <2>2, <2>3 DEF ReplyEnded
<1>4. CASE PreparedImmediate
  BY <1>1, <1>4, CutPending, SettlePending DEF PreparedImmediate
<1>5. CASE PreparedCall
  <2>1. status[cur] = "preparing" BY <1>5 DEF PreparedCall, PendingInv
  <2>2. CASE aborted BY <1>5, <2>2, CutPending DEF PreparedCall
  <2>3. CASE ~aborted /\ mode = "sequential"
    <3>1. UnsettledIn(status') = UnsettledIn(status) 
      BY <1>1, <1>5, <2>1, <2>3 DEF PreparedCall, UnsettledIn
    <3>. QED BY <1>5, <2>3, <3>1, FurtherPending DEF PreparedCall, Apart
  <2>4. CASE ~aborted /\ mode # "sequential"
    <3>. DEFINE st == [status EXCEPT ![cur] = "ready"]
    <3>1. st \in [1..MaxTools -> CallStatus] BY <1>1 DEF CallStatus
    <3>2. UnsettledIn(st) = UnsettledIn(status) /\ cur \in UnsettledIn(st)
      BY <1>1, <2>1 DEF UnsettledIn
    <3>3. NextCall(st) BY <1>5, <2>4 DEF PreparedCall
    <3>. QED BY <3>1, <3>2, <3>3, NextCallPending
  <2>. QED BY <2>2, <2>3, <2>4
<1>6. CASE OutcomeEnded BY <1>1, <1>6, NextCallPending DEF OutcomeEnded
<1>7. CASE Gathered BY <1>1, <1>7, CutPending, NextCallPending DEF Gathered
<1>8. CASE Awaited
  <2>1. CASE pc' = "after" /\ UNCHANGED <<status, cur, pending_tool_calls>>
    BY <2>1, FurtherPending DEF Apart
  <2>. QED BY <1>2, <1>8, <2>1, CutPending DEF Awaited
<1>9. CASE AfterHook BY <1>1, <1>9, SettlePending DEF AfterHook
<1>10. CASE HookCancelled BY <1>2, <1>10, CutPending DEF HookCancelled
<1>11. CASE CutNext BY <1>11, CutPending DEF CutNext
<1>12. CASE OutcomeCancelled
  <2>1. status[cur] = "result" BY <1>12 DEF OutcomeCancelled, PendingInv
  <2>2. UnsettledIn(status') = UnsettledIn(status)
    BY <1>1, <1>12, <2>1 DEF OutcomeCancelled, Cancelling, UnsettledIn
  <2>. QED BY <1>12, <2>2, FurtherPending DEF OutcomeCancelled, Apart
<1>. QED BY <1>3, <1>4, <1>5, <1>6, <1>7, <1>8, <1>9, <1>10, <1>11, <1>12

LEMMA PendingStep == TypeInv /\ PendingInv /\ [Next]_vars => PendingInv'
<1>. SUFFICES ASSUME TypeInv, PendingInv, [Next]_vars PROVE PendingInv' OBVIOUS
<1>1. CASE UNCHANGED vars BY <1>1, SamePending DEF vars
<1>2. CASE Next
  BY <1>1, <1>2, OutsidePending, TaskPending, BatchPending DEF Next, Run, Tool, Idle
<1>. QED BY <1>1, <1>2

\* The calls the agent reports as pending are the ones started and not yet settled,
\* for any number of calls, whatever cuts the batch short, and a run that was left in
\* the middle of a batch leaves none behind for the next.
THEOREM PendingCallsAreExact == Spec => []PendingCallsExact
<1>1. PendingInv => PendingCallsExact
  BY DEF PendingInv, PendingCallsExact, UnsettledIn, Unsettled, Calls
<1>. QED BY <1>1, InitType, NextType, InitPending, PendingStep, PTL DEF Spec

-----------------------------------------------------------------------------
(***************************************************************************)
(* What the model is asked to continue.  The context holds the prompts     *)
(* before they are spoken and gets the results of a batch after they are   *)
(* spoken, so the invariant relates the transcript with what is about to   *)
(* be spoken to the context with what it is about to be given -- but for a *)
(* batch that a CancelledError leaves, since the results it speaks may not *)
(* all be collected, and no turn follows it.                               *)
(***************************************************************************)

\* c is the transcript m, or m without the failed reply that a retry leaves out.
Follows(m, c) ==
  \/ c = m
  \/ /\ entry = "retry"
     /\ \E a, b \in Seq(Message), x \in Message :
          x.role = "assistant" /\ x.stop = "error" /\ m = (a \o <<x>>) \o b /\ c = a \o b

Turn == {"inject", "model", "reply"}
Batch == {"prepare", "exec", "gather", "after", "outcome", "cut"}
ContextInv ==
  /\ pc = "prompts" => Follows(messages \o pending, context)
  /\ pc \in Turn => Follows(messages, context)
  /\ pc \in Batch /\ ~reraise => Follows(messages, context \o tool_results)
  /\ pc = "turnEnd" => Follows(messages, context)
  /\ pc \in {"idle", "setup", "prompts"} \cup Turn => tool_results = <<>>
  /\ pc = "setup" /\ entry = "retry" => messages # <<>>

\* Both grow by the same messages.
LEMMA FollowsGrows ==
  ASSUME NEW m \in Seq(Message), NEW c \in Seq(Message), NEW s \in Seq(Message), Follows(m, c)
  PROVE  Follows(m \o s, c \o s)
<1>1. CASE c = m BY <1>1 DEF Follows
<1>2. CASE c # m
  <2>1. PICK a \in Seq(Message), b \in Seq(Message), x \in Message :
          x.role = "assistant" /\ x.stop = "error" /\ m = (a \o <<x>>) \o b /\ c = a \o b
    BY <1>2 DEF Follows
  <2>2. <<x>> \in Seq(Message) /\ a \o <<x>> \in Seq(Message) BY ConcatProperties
  <2>3. m \o s = (a \o <<x>>) \o (b \o s) BY <2>1, <2>2, ConcatAssociative
  <2>4. c \o s = a \o (b \o s) BY <2>1, ConcatAssociative
  <2>5. b \o s \in Seq(Message) BY ConcatProperties
  <2>6. entry = "retry" BY <1>2 DEF Follows
  <2>. QED BY <2>1, <2>3, <2>4, <2>5, <2>6 DEF Follows
<1>. QED BY <1>1, <1>2

LEMMA FollowsAppend ==
  ASSUME NEW m \in Seq(Message), NEW c \in Seq(Message), NEW x \in Message, Follows(m, c)
  PROVE  Follows(Append(m, x), Append(c, x))
<1>1. <<x>> \in Seq(Message) OBVIOUS
<1>2. Append(m, x) = m \o <<x>> /\ Append(c, x) = c \o <<x>> BY AppendIsConcat
<1>. QED BY <1>1, <1>2, FollowsGrows

\* A message spoken from a list leaves the transcript with the rest of it the same.
LEMMA SpokenFirst ==
  ASSUME NEW m \in Seq(Message), NEW p \in Seq(Message), p # <<>>
  PROVE  Append(m, Head(p)) \o Tail(p) = m \o p
<1>1. Head(p) \in Message /\ Tail(p) \in Seq(Message) BY HeadTailProperties
<1>2. <<Head(p)>> \in Seq(Message) BY <1>1
<1>3. p = <<Head(p)>> \o Tail(p)
  <2>1. Len(p) \in Nat \ {0} BY EmptySeq
  <2>2. SubSeq(p, 1, Len(p)) = <<p[1]>> \o SubSeq(p, 2, Len(p)) 
    BY <2>1, SubSeqRecursiveFirst
  <2>3. SubSeq(p, 1, Len(p)) = p BY SubSeqFull
  <2>4. Tail(p) = SubSeq(p, 2, Len(p)) BY TailIsSubSeq
  <2>5. Head(p) = p[1] BY HeadTailOfSubSeq, <2>1, <2>3
  <2>. QED BY <2>2, <2>3, <2>4, <2>5
<1>4. Append(m, Head(p)) = m \o <<Head(p)>> BY <1>1, AppendIsConcat
<1>. QED BY <1>1, <1>2, <1>3, <1>4, ConcatAssociative

\* A retry continues the transcript without its last message, a failed reply.
LEMMA RetryFollows ==
  ASSUME NEW m \in Seq(Message), m # <<>>, entry = "retry", NEW s \in Seq(Message),
         Final(m).role = "assistant", Final(m).stop = "error"
  PROVE  Follows(m \o s, SubSeq(m, 1, Len(m) - 1) \o s)
<1>. DEFINE a == SubSeq(m, 1, Len(m) - 1)
<1>1. Len(m) \in Nat \ {0} BY EmptySeq
<1>2. Final(m) \in Message BY <1>1, ElementOfSeq DEF Final
<1>3. m = a \o <<Final(m)>>
  <2>1. SubSeq(m, 1, Len(m)) = a \o <<m[Len(m)]>> BY <1>1, SubSeqRecursiveSecond
  <2>2. SubSeq(m, 1, Len(m)) = m BY SubSeqFull
  <2>. QED BY <2>1, <2>2 DEF Final
<1>4. a \in Seq(Message)
  <2>1. \A i \in 1 .. Len(m) - 1 : m[i] \in Message BY <1>1, ElementOfSeq
  <2>. QED BY <1>1, <2>1, SubSeqProperties
<1>5. m \o s = (a \o <<Final(m)>>) \o s BY <1>3
<1>. QED BY <1>2, <1>4, <1>5 DEF Follows

\* What Follows says of the model's question is what the property says.
LEMMA FollowsIsTranscript ==
  ASSUME NEW m \in Seq(Message), NEW c \in Seq(Message), Follows(m, c)
  PROVE  \/ c = m
         \/ /\ entry = "retry"
            /\ \E k \in 1..Len(m) :
                 /\ m[k].role = "assistant" /\ m[k].stop = "error"
                 /\ c = SubSeq(m, 1, k - 1) \o SubSeq(m, k + 1, Len(m))
<1>. SUFFICES ASSUME c # m
     PROVE  /\ entry = "retry"
            /\ \E k \in 1..Len(m) :
                 /\ m[k].role = "assistant" /\ m[k].stop = "error"
                 /\ c = SubSeq(m, 1, k - 1) \o SubSeq(m, k + 1, Len(m))
  OBVIOUS
<1>1. PICK a \in Seq(Message), b \in Seq(Message), x \in Message :
        x.role = "assistant" /\ x.stop = "error" /\ m = (a \o <<x>>) \o b /\ c = a \o b
  BY DEF Follows
<1>. DEFINE k == Len(a) + 1
<1>2. <<x>> \in Seq(Message) /\ Len(<<x>>) = 1 /\ <<x>>[1] = x OBVIOUS
<1>3. /\ a \o <<x>> \in Seq(Message) /\ Len(a \o <<x>>) = k
      /\ (a \o <<x>>)[k] = x /\ \A i \in 1..Len(a) : (a \o <<x>>)[i] = a[i]
      /\ Len(a) \in Nat /\ Len(b) \in Nat
  BY <1>2, ConcatProperties, LenProperties
<1>4. Len(m) = k + Len(b) /\ m[k] = x /\ (\A i \in 1..Len(a) : m[i] = a[i])
      /\ \A i \in 1..Len(b) : m[k + i] = b[i]
  BY <1>1, <1>3, ConcatProperties
<1>5. SubSeq(m, 1, k - 1) = a
  <2>1. \A i \in 1 .. k - 1 : m[i] \in Message BY <1>3, <1>4, ElementOfSeq
  <2>2. /\ SubSeq(m, 1, k - 1) \in Seq(Message) /\ Len(SubSeq(m, 1, k - 1)) = Len(a)
        /\ \A i \in 1..Len(a) : SubSeq(m, 1, k - 1)[i] = m[i]
    BY <1>3, <2>1, SubSeqProperties
  <2>. QED BY <1>4, <2>2, SeqEqual
<1>6. SubSeq(m, k + 1, Len(m)) = b
  <2>1. \A i \in k + 1 .. Len(m) : m[i] \in Message BY <1>3, <1>4, ElementOfSeq
  <2>2. /\ SubSeq(m, k + 1, Len(m)) \in Seq(Message) /\ Len(SubSeq(m, k + 1, Len(m))) = Len(b)
        /\ \A i \in 1..Len(b) : SubSeq(m, k + 1, Len(m))[i] = m[k + i]
    BY <1>3, <1>4, <2>1, SubSeqProperties
  <2>. QED BY <1>4, <2>2, SeqEqual
<1>7. k \in 1..Len(m) BY <1>3, <1>4
<1>8. entry = "retry" BY DEF Follows
<1>. QED BY <1>1, <1>4, <1>5, <1>6, <1>7, <1>8

LEMMA InitContext == Init => ContextInv
BY DEF Init, ContextInv, Turn, Batch

\* Steps that touch none of it, and steps that leave the turns for good.
LEMMA SameContext ==
  ASSUME ContextInv, UNCHANGED <<pc, messages, context, pending, tool_results, entry, reraise>>
  PROVE  ContextInv'
BY DEF ContextInv, Follows

LEMMA LeftContext ==
  ASSUME pc' \in {"lastMessage", "lastTurn", "agentEnd", "failed", "batchEnd"}
  PROVE  ContextInv'
BY DEF ContextInv, Turn, Batch

LEMMA EndsContext ==
  /\ FinishRun => ContextInv'
  /\ FailRun => ContextInv'
  /\ CancelledRun => ContextInv'
  /\ AbortTurn => ContextInv'
  /\ EndAgent => ContextInv'
<1>1. FinishRun => ContextInv' BY DEF FinishRun, ContextInv, Turn, Batch
<1>2. FailRun => ContextInv' BY LeftContext DEF FailRun
<1>. QED BY <1>1, <1>2, LeftContext DEF CancelledRun, AbortTurn, EndAgent

\* A step into the turn proper, or within it.
LEMMA TurnContext ==
  ASSUME pc' \in Turn, tool_results' = <<>>, entry' = entry, Follows(messages', context')
  PROVE  ContextInv'
BY DEF ContextInv, Turn, Batch, Follows

LEMMA CallerContext ==
  ASSUME TypeInv, ContextInv, Caller
  PROVE  ContextInv'
<1>1. ASSUME NEW plan, NEW prompts, NEW d, StartRun(plan, prompts, d),
             plan = "retry" => messages # <<>>
      PROVE  ContextInv'
  <2>1. tool_results = <<>> BY <1>1 DEF StartRun, ContextInv
  <2>. QED BY <1>1, <2>1 DEF StartRun, ContextInv, batch, Turn, Batch
<1>2. ASSUME NEW d \in Deliver, Prompt(d) PROVE ContextInv'
  BY <1>1, <1>2 DEF Prompt
<1>3. ASSUME NEW d \in Deliver, ContinueRun(d) PROVE ContextInv'
  <2>1. messages # <<>> BY <1>3 DEF ContinueRun
  <2>2. \E plan \in Lanes \cup {"prompt", "continue", "retry"} : StartRun(plan, <<>>, d)
    BY <1>3 DEF ContinueRun, Lanes
  <2>. QED BY <1>1, <2>1, <2>2
<1>4. CASE \E lane \in Lanes : Enqueue(lane)
  BY <1>4, SameContext DEF Enqueue, scope, batch
<1>5. CASE ClearQueues \/ Abort
  BY <1>5, SameContext DEF ClearQueues, Abort, scope, batch
<1>. QED BY <1>2, <1>3, <1>4, <1>5 DEF Caller

LEMMA TaskContext ==
  ASSUME ContextInv, Tool \/ ForceCancel
  PROVE  ContextInv'
BY SameContext DEF Tool, ToolCompletes, ToolCancelled, ToolStep, OrphanEnds, ForceCancel, scope, batch

LEMMA SetUpContext ==
  ASSUME TypeInv, ContextInv, SetUp
  PROVE  ContextInv'
<1>. DEFINE input == IF entry \in Lanes THEN Taken(entry) ELSE pending
            failed == entry = "retry" /\ Final(messages).role = "assistant"
                                      /\ Final(messages).stop = "error"
            history == IF failed THEN SubSeq(messages, 1, Len(messages) - 1) ELSE messages
<1>1. CASE FinishRun \/ FailRun BY <1>1, EndsContext
<1>2. CASE /\ pc = "setup" /\ pc' = "prompts" /\ context' = history \o input /\ pending' = input
           /\ UNCHANGED <<messages, scope, batch>>
  <2>1. messages \in Seq(Message) BY TypeParts DEF TalkOK
  <2>2. input \in Seq(Message)
    <3>1. entry \in Lanes => Taken(entry) \in Seq(UserMessage) BY TypeParts, DrainType
    <3>2. pending \in Seq(UserMessage) BY TypeParts DEF TalkOK
    <3>. QED BY <3>1, <3>2, MessageTypes
  <2>3. Follows(messages \o input, history \o input)
    <3>1. CASE failed
      <4>1. messages # <<>> BY <1>2, <3>1 DEF ContextInv
      <4>. QED BY <2>1, <2>2, <3>1, <4>1, RetryFollows
    <3>2. CASE ~failed BY <3>2 DEF Follows
    <3>. QED BY <3>1, <3>2
  <2>4. tool_results' = <<>> BY <1>2 DEF ContextInv, batch
  <2>. QED BY <1>2, <2>3, <2>4 DEF ContextInv, Turn, Batch, Follows, scope
<1>. QED BY <1>1, <1>2 DEF SetUp

\* From the prompts to the reply of the model.
LEMMA TalkContext ==
  ASSUME TypeInv, ContextInv,
         \/ EmitPrompt \/ FirstPoll \/ Inject \/ CallModel
         \/ ModelReplies \/ ModelAborts \/ ModelCancelled
         \/ \E n \in 1..MaxTools : ModelCallsTools(n)
  PROVE  ContextInv'
<1>1. messages \in Seq(Message) /\ context \in Seq(Message) /\ pending \in Seq(Message)
  BY TypeParts, MessageTypes DEF TalkOK
<1>2. CASE EmitPrompt
  <2>1. messages' \o pending' = messages \o pending BY <1>1, <1>2, SpokenFirst DEF EmitPrompt
  <2>2. Follows(messages' \o pending', context') BY <1>2, <2>1 DEF EmitPrompt, ContextInv
  <2>3. UNCHANGED <<pc, entry, tool_results>> /\ pc = "prompts" BY <1>2 DEF EmitPrompt, scope, batch
  <2>. QED BY <2>2, <2>3 DEF ContextInv, Turn, Batch, Follows
<1>3. CASE FirstPoll
  <2>1. CASE aborted BY <1>3, <2>1, EndsContext DEF FirstPoll, EnterTurn
  <2>2. CASE ~aborted
    <3>1. Follows(messages, context)
      BY <1>1, <1>3, ConcatEmptySeq DEF FirstPoll, ContextInv
    <3>2. tool_results' = <<>> BY <1>3 DEF FirstPoll, ContextInv, batch
    <3>. QED BY <1>3, <2>2, <3>1, <3>2, TurnContext DEF FirstPoll, EnterTurn, Turn, scope
  <2>. QED BY <2>1, <2>2
<1>4. CASE Inject
  <2>1. Head(pending) \in Message BY <1>1, <1>4, HeadTailProperties DEF Inject
  <2>2. Follows(messages', context')
    BY <1>1, <1>4, <2>1, FollowsAppend DEF Inject, ContextInv, Turn
  <2>. QED BY <1>4, <2>2, TurnContext DEF Inject, ContextInv, Turn, scope, batch
<1>5. CASE CallModel
  <2>1. CASE aborted BY <1>5, <2>1, EndsContext DEF CallModel
  <2>2. CASE ~aborted
    BY <1>5, <2>2, TurnContext DEF CallModel, ContextInv, Turn, scope, batch
  <2>. QED BY <2>1, <2>2
<1>6. ASSUME NEW stop \in StopReason, NEW n \in Nat, pc = "model", Reply(stop, n) PROVE ContextInv'
  <2>1. Assistant(stop, n) \in Message BY MessageTypes
  <2>2. Follows(messages', context')
    BY <1>1, <1>6, <2>1, FollowsAppend DEF Reply, ContextInv, Turn
  <2>. QED BY <1>6, <2>2, TurnContext DEF Reply, ContextInv, Turn, scope, batch
<1>7. CASE ModelReplies BY <1>6, <1>7 DEF ModelReplies, StopReason
<1>8. CASE ModelAborts \/ ModelCancelled BY <1>8, EndsContext DEF ModelAborts, ModelCancelled
<1>9. ASSUME NEW n \in 1..MaxTools, ModelCallsTools(n) PROVE ContextInv'
  BY <1>6, <1>9, Bounds DEF ModelCallsTools, StopReason
<1>. QED BY <1>2, <1>3, <1>4, <1>5, <1>7, <1>8, <1>9

\* Steps that stay in the batch and speak nothing.
LEMMA BatchContext ==
  ASSUME ContextInv, pc \in Batch, pc' \in Batch, ~reraise' => ~reraise,
         UNCHANGED <<messages, context, tool_results, entry>>
  PROVE  ContextInv'
BY DEF ContextInv, Turn, Batch, Follows

LEMMA SettleContext ==
  ASSUME TypeInv, ContextInv, pc \in Batch, entry' = entry, ~reraise' => ~reraise,
         NEW i \in 1..MaxTools, NEW kind \in {"final", "aborted"}, NEW at \in Batch, Settle(i, kind, at)
  PROVE  ContextInv'
<1>1. /\ messages \in Seq(Message) /\ context \in Seq(Message)
      /\ tool_results \in Seq(Message)
  BY TypeParts, MessageTypes DEF TalkOK, BatchOK
<1>2. Result(i, kind) \in Message /\ <<Result(i, kind)>> \in Seq(Message) BY MessageTypes, Bounds
<1>3. context \o Append(tool_results, Result(i, kind)) = Append(context \o tool_results, Result(i, kind))
  BY <1>1, <1>2, AppendIsConcat, ConcatAssociative, ConcatProperties
<1>4. context \o tool_results \in Seq(Message) BY <1>1, ConcatProperties
<1>5. ~reraise' => Follows(messages, context \o tool_results) BY DEF ContextInv
<1>6. ~reraise' => Follows(messages', context' \o tool_results')
  BY <1>1, <1>2, <1>3, <1>4, <1>5, FollowsAppend DEF Settle
<1>. QED BY <1>6 DEF Settle, ContextInv, Turn, Batch, Follows

LEMMA CutContext ==
  ASSUME TypeInv, ContextInv, pc \in Batch, entry' = entry, ~reraise' => ~reraise, Cut
  PROVE  ContextInv'
<1>1. CASE Open # {}
  <2>1. Open \in SUBSET Nat BY Bounds DEF Open, Calls
  <2>2. FirstOf(Open) \in 1..MaxTools BY <1>1, <2>1, FirstInSet DEF Open, Calls
  <2>. QED BY <1>1, <2>2, SettleContext DEF Cut, Batch
<1>2. CASE Open = {}
  BY <1>2, LeftContext DEF Cut
<1>. QED BY <1>1, <1>2

LEMMA NextCallContext ==
  ASSUME TypeInv, ContextInv, ~reraise, pc \in Batch, entry' = entry, NEW st, NextCall(st)
  PROVE  ContextInv'
<1>1. CASE Cut BY <1>1, CutContext
<1>2. CASE pc' \in {"prepare", "exec", "after"} /\ UNCHANGED <<messages, context, tool_results>>
  BY <1>2, BatchContext DEF Batch
<1>3. CASE /\ context' = context \o tool_results /\ pc' \in {"turnEnd", "lastTurn"}
           /\ UNCHANGED messages
  BY <1>3 DEF ContextInv, Turn, Batch, Follows
<1>4. \/ Cut
      \/ pc' \in {"prepare", "exec", "after"} /\ UNCHANGED <<messages, context, tool_results>>
      \/ /\ context' = context \o tool_results /\ pc' \in {"turnEnd", "lastTurn"}
         /\ UNCHANGED messages
  BY Zenon DEF NextCall, StartCall
<1>. QED BY <1>1, <1>2, <1>3, <1>4

LEMMA CoordinatorContext ==
  ASSUME TypeInv, ContextInv, ReraiseInv,
         \/ ReplyEnded \/ PreparedImmediate \/ PreparedCall \/ OutcomeEnded
         \/ Awaited \/ Gathered \/ AfterHook \/ HookCancelled \/ OutcomeCancelled
         \/ CutNext
  PROVE  ContextInv'
<1>1. cur \in 1..MaxTools BY TypeParts DEF BatchOK
<1>2. CASE ReplyEnded
  <2>1. pc = "reply" /\ entry' = entry BY <1>2 DEF ReplyEnded, scope
  <2>2. Follows(messages, context) /\ tool_results = <<>> BY <2>1 DEF ContextInv, Turn
  <2>3. CASE pc' = "lastTurn" BY <2>3, LeftContext
  <2>4. CASE AbortTurn BY <2>4, EndsContext
  <2>5. CASE pc' = "turnEnd" /\ UNCHANGED <<messages, context>>
    BY <2>1, <2>2, <2>5 DEF ContextInv, Turn, Batch, Follows
  <2>6. CASE pc' = "prepare" /\ UNCHANGED <<messages, context, tool_results>>
    <3>1. context \o tool_results = context
      BY <2>2, ConcatEmptySeq, TypeParts DEF TalkOK
    <3>. QED BY <2>1, <2>2, <2>6, <3>1 DEF ContextInv, Turn, Batch, Follows
  <2>. QED BY <1>2, <2>3, <2>4, <2>5, <2>6 DEF ReplyEnded, StartCall
<1>3. Coordinates => entry' = entry BY DEF Coordinates, scope
<1>4. CASE PreparedImmediate
  BY <1>1, <1>3, <1>4, CutContext, SettleContext DEF PreparedImmediate, Batch
<1>5. CASE PreparedCall
  <2>1. pc \in Batch /\ entry' = entry /\ ~reraise /\ ~reraise'
    BY <1>3, <1>5 DEF PreparedCall, Batch, ReraiseInv
  <2>2. CASE pc' = "exec" /\ UNCHANGED <<messages, context, tool_results>>
    BY <2>1, <2>2, BatchContext DEF Batch
  <2>. QED BY <1>5, <2>1, <2>2, CutContext, NextCallContext DEF PreparedCall
<1>6. CASE OutcomeEnded \/ Gathered
  <2>1. pc \in Batch /\ entry' = entry /\ reraise' = reraise /\ (reraise => Gathered)
    BY <1>3, <1>6 DEF OutcomeEnded, Gathered, Batch, ReraiseInv
  <2>. QED BY <1>6, <2>1, CutContext, NextCallContext DEF OutcomeEnded, Gathered
<1>7. CASE Awaited \/ HookCancelled
  <2>1. pc \in Batch /\ entry' = entry /\ ~reraise
    BY <1>3, <1>7 DEF Awaited, HookCancelled, Batch, ReraiseInv
  <2>2. Gather => ContextInv' BY <2>1, BatchContext DEF Gather, Batch
  <2>3. pc' = "after" /\ UNCHANGED <<messages, context, tool_results>> => ContextInv'
    BY <2>1, BatchContext DEF Batch
  <2>. QED BY <1>7, <2>1, <2>2, <2>3, CutContext DEF Awaited, HookCancelled
<1>8. CASE AfterHook BY <1>1, <1>3, <1>8, SettleContext DEF AfterHook, Batch
<1>9. CASE CutNext BY <1>3, <1>9, CutContext DEF CutNext, Batch
<1>10. CASE OutcomeCancelled
  BY <1>10 DEF OutcomeCancelled, ContextInv, Turn, Batch
<1>. QED BY <1>2, <1>4, <1>5, <1>6, <1>7, <1>8, <1>9, <1>10

LEMMA EndContext ==
  ASSUME TypeInv, ContextInv,
         \/ BatchEnded \/ TurnEnded \/ LastTurn \/ LastTurnEnded \/ RunEnded \/ Raises
         \/ ListenerCancelled
  PROVE  ContextInv'
<1>1. CASE BatchEnded BY <1>1, EndsContext DEF BatchEnded
<1>2. CASE TurnEnded
  <2>1. CASE EndAgent BY <2>1, EndsContext
  <2>2. CASE /\ \E input : EnterTurn(input, FALSE)
             /\ tool_results' = <<>> /\ UNCHANGED scope
    <3>1. Follows(messages, context) BY <1>2 DEF TurnEnded, ContextInv
    <3>2. CASE AbortTurn BY <3>2, EndsContext
    <3>3. CASE pc' \in Turn /\ UNCHANGED <<messages, context>>
      BY <2>2, <3>1, <3>3, TurnContext DEF scope
    <3>. QED BY <2>2, <3>2, <3>3 DEF EnterTurn, Turn
  <2>. QED BY <1>2, <2>1, <2>2, Zenon DEF TurnEnded
<1>3. CASE LastTurn \/ LastTurnEnded \/ RunEnded \/ Raises \/ ListenerCancelled
  BY <1>3, EndsContext, LeftContext DEF LastTurn, LastTurnEnded, RunEnded, Raises, ListenerCancelled
<1>. QED BY <1>1, <1>2, <1>3

LEMMA ContextStep == TypeInv /\ ContextInv /\ ReraiseInv /\ [Next]_vars => ContextInv'
<1>. SUFFICES ASSUME TypeInv, ContextInv, ReraiseInv, [Next]_vars PROVE ContextInv' OBVIOUS
<1>1. CASE UNCHANGED vars BY <1>1, SameContext DEF vars
<1>2. CASE Next
  BY <1>1, <1>2, CallerContext, TaskContext, SetUpContext, TalkContext, CoordinatorContext, EndContext
  DEF Next, Run, Idle
<1>. QED BY <1>1, <1>2

\* What the model is asked to continue is the transcript, without the failed reply a
\* retry leaves out, in every turn of a run, whatever its batches returned or how many
\* messages were injected before it.
THEOREM ModelSeesTranscript == Spec => []ContextIsTranscript
<1>1. TypeInv /\ ContextInv => ContextIsTranscript
  <2>. SUFFICES ASSUME TypeInv, ContextInv, pc = "model"
       PROVE  \/ context = messages
              \/ /\ entry = "retry"
                 /\ \E k \in 1..Len(messages) :
                      /\ messages[k].role = "assistant" /\ messages[k].stop = "error"
                      /\ context = SubSeq(messages, 1, k - 1)
                                     \o SubSeq(messages, k + 1, Len(messages))
    BY DEF ContextIsTranscript
  <2>1. Follows(messages, context) BY DEF ContextInv, Turn
  <2>2. messages \in Seq(Message) /\ context \in Seq(Message) BY TypeParts DEF TalkOK
  <2>. QED BY <2>1, <2>2, FollowsIsTranscript
<1>2. Init => ReraiseInv BY DEF Init, ReraiseInv
<1>. QED BY <1>1, <1>2, InitType, NextType, InitContext, ReraiseStep, ContextStep, PTL DEF Spec

-----------------------------------------------------------------------------
(***************************************************************************)
(* The order of input.  A drain moves the front of a lane behind what was  *)
(* spoken and in front of what is left of the lane, a listener's exception *)
(* puts a closing message in front of what was about to be spoken, and an  *)
(* abort drops it: the order of each lane has to survive all three.        *)
(***************************************************************************)

\* Identifiers of a lane increase within s; they do from s to t; s holds none of them.
Ordered(s, lane) ==
  \A i, j \in 1..Len(s) :
    i < j /\ IsOf(s[i], lane) /\ IsOf(s[j], lane) => s[i].id < s[j].id
Before(s, t, lane) ==
  \A i \in 1..Len(s), j \in 1..Len(t) :
    IsOf(s[i], lane) /\ IsOf(t[j], lane) => s[i].id < t[j].id
Foreign(s, lane) == \A i \in 1..Len(s) : ~ IsOf(s[i], lane)
\* Every input in s was accepted before the next one, which gets the identifier n.
Accepted(s, n) == \A i \in 1..Len(s) : s[i].role = "user" => s[i].id < n

\* m is spoken, p about to be spoken, and q is what the lane still holds.
InLane(m, p, q, lane, n) ==
  /\ Ordered(m, lane) /\ Ordered(p, lane) /\ Ordered(q, lane)
  /\ Before(m, p, lane) /\ Before(m, q, lane) /\ Before(p, q, lane)
  /\ Accepted(m, n) /\ Accepted(p, n) /\ Accepted(q, n)
  /\ \A i \in 1..Len(q) : q[i].lane = lane

LaneInv == \A lane \in Lanes : InLane(messages, pending, queue[lane], lane, NextId)

\* The relations of a concatenation are those of its parts.
LEMMA OrderedConcat ==
  ASSUME NEW s \in Seq(Message), NEW t \in Seq(Message), NEW lane
  PROVE  Ordered(s \o t, lane) <=> Ordered(s, lane) /\ Ordered(t, lane) /\ Before(s, t, lane)
<1>1. /\ Len(s) \in Nat /\ Len(t) \in Nat /\ Len(s \o t) = Len(s) + Len(t)
      /\ \A i \in 1..Len(s) : (s \o t)[i] = s[i]
      /\ \A i \in 1..Len(t) : (s \o t)[Len(s) + i] = t[i]
  BY ConcatProperties, LenProperties
<1>2. ASSUME Ordered(s \o t, lane)
      PROVE  Ordered(s, lane) /\ Ordered(t, lane) /\ Before(s, t, lane)
  <2>1. Ordered(s, lane)
    <3>. SUFFICES ASSUME NEW i \in 1..Len(s), NEW j \in 1..Len(s), i < j,
                         IsOf(s[i], lane), IsOf(s[j], lane)
         PROVE s[i].id < s[j].id
      BY DEF Ordered
    <3>1. i \in 1..Len(s \o t) /\ j \in 1..Len(s \o t) BY <1>1
    <3>. QED BY <1>1, <1>2, <3>1 DEF Ordered
  <2>2. Ordered(t, lane)
    <3>. SUFFICES ASSUME NEW i \in 1..Len(t), NEW j \in 1..Len(t), i < j,
                         IsOf(t[i], lane), IsOf(t[j], lane)
         PROVE t[i].id < t[j].id
      BY DEF Ordered
    <3>1. Len(s) + i \in 1..Len(s \o t) /\ Len(s) + j \in 1..Len(s \o t) /\ Len(s) + i < Len(s) + j
      BY <1>1
    <3>. QED BY <1>1, <1>2, <3>1 DEF Ordered
  <2>3. Before(s, t, lane)
    <3>. SUFFICES ASSUME NEW i \in 1..Len(s), NEW j \in 1..Len(t),
                         IsOf(s[i], lane), IsOf(t[j], lane)
         PROVE s[i].id < t[j].id
      BY DEF Before
    <3>1. i \in 1..Len(s \o t) /\ Len(s) + j \in 1..Len(s \o t) /\ i < Len(s) + j BY <1>1
    <3>. QED BY <1>1, <1>2, <3>1 DEF Ordered
  <2>. QED BY <2>1, <2>2, <2>3
<1>3. ASSUME Ordered(s, lane), Ordered(t, lane), Before(s, t, lane)
      PROVE  Ordered(s \o t, lane)
  <2>. SUFFICES ASSUME NEW i \in 1..Len(s) + Len(t), NEW j \in 1..Len(s) + Len(t), i < j,
                       IsOf((s \o t)[i], lane), IsOf((s \o t)[j], lane)
       PROVE (s \o t)[i].id < (s \o t)[j].id
    BY <1>1 DEF Ordered
  <2>1. CASE j <= Len(s)
    <3>1. i \in 1..Len(s) /\ j \in 1..Len(s) BY <1>1, <2>1
    <3>. QED BY <1>1, <1>3, <3>1 DEF Ordered
  <2>2. CASE i > Len(s)
    <3>1. i - Len(s) \in 1..Len(t) /\ j - Len(s) \in 1..Len(t) /\ i - Len(s) < j - Len(s)
      BY <1>1, <2>2
    <3>2. (s \o t)[i] = t[i - Len(s)] /\ (s \o t)[j] = t[j - Len(s)] 
      BY <1>1, <2>2, ConcatProperties
    <3>. QED BY <1>3, <3>1, <3>2 DEF Ordered
  <2>3. CASE i <= Len(s) /\ j > Len(s)
    <3>1. i \in 1..Len(s) /\ j - Len(s) \in 1..Len(t) BY <1>1, <2>3
    <3>2. (s \o t)[i] = s[i] /\ (s \o t)[j] = t[j - Len(s)]
      BY <1>1, <2>3, ConcatProperties
    <3>. QED BY <1>3, <3>1, <3>2 DEF Before
  <2>. QED BY <1>1, <2>1, <2>2, <2>3
<1>. QED BY <1>2, <1>3

LEMMA BeforeConcat ==
  ASSUME NEW s \in Seq(Message), NEW t \in Seq(Message), NEW u \in Seq(Message), NEW lane
  PROVE  /\ Before(s \o t, u, lane) <=> Before(s, u, lane) /\ Before(t, u, lane)
         /\ Before(u, s \o t, lane) <=> Before(u, s, lane) /\ Before(u, t, lane)
<1>1. /\ Len(s) \in Nat /\ Len(t) \in Nat /\ Len(s \o t) = Len(s) + Len(t)
      /\ \A i \in 1..Len(s) : (s \o t)[i] = s[i]
      /\ \A i \in 1..Len(t) : (s \o t)[Len(s) + i] = t[i]
  BY ConcatProperties, LenProperties
<1>2. \A i \in 1..Len(s \o t) : i \in 1..Len(s) \/ \E k \in 1..Len(t) : i = Len(s) + k
  <2>. SUFFICES ASSUME NEW i \in 1..Len(s \o t), i \notin 1..Len(s)
       PROVE \E k \in 1..Len(t) : i = Len(s) + k
    OBVIOUS
  <2>1. i - Len(s) \in 1..Len(t) /\ i = Len(s) + (i - Len(s)) BY <1>1
  <2>. QED BY <2>1
<1>3. \A i \in 1..Len(s) : i \in 1..Len(s \o t) BY <1>1
<1>4. \A i \in 1..Len(t) : Len(s) + i \in 1..Len(s \o t) BY <1>1
<1>5. Before(s \o t, u, lane) <=> Before(s, u, lane) /\ Before(t, u, lane)
  BY <1>1, <1>2, <1>3, <1>4, Zenon DEF Before
<1>6. Before(u, s \o t, lane) <=> Before(u, s, lane) /\ Before(u, t, lane)
  BY <1>1, <1>2, <1>3, <1>4, Zenon DEF Before
<1>. QED BY <1>5, <1>6

LEMMA AcceptedConcat ==
  ASSUME NEW s \in Seq(Message), NEW t \in Seq(Message), NEW n
  PROVE  Accepted(s \o t, n) <=> Accepted(s, n) /\ Accepted(t, n)
<1>1. /\ Len(s) \in Nat /\ Len(t) \in Nat /\ Len(s \o t) = Len(s) + Len(t)
      /\ \A i \in 1..Len(s) : (s \o t)[i] = s[i]
      /\ \A i \in 1..Len(t) : (s \o t)[Len(s) + i] = t[i]
  BY ConcatProperties, LenProperties
<1>2. \A i \in 1..Len(s \o t) : i \in 1..Len(s) \/ \E k \in 1..Len(t) : i = Len(s) + k
  <2>. SUFFICES ASSUME NEW i \in 1..Len(s \o t), i \notin 1..Len(s)
       PROVE \E k \in 1..Len(t) : i = Len(s) + k
    OBVIOUS
  <2>1. i - Len(s) \in 1..Len(t) /\ i = Len(s) + (i - Len(s)) BY <1>1
  <2>. QED BY <2>1
<1>3. \A i \in 1..Len(s) : i \in 1..Len(s \o t) BY <1>1
<1>4. \A i \in 1..Len(t) : Len(s) + i \in 1..Len(s \o t) BY <1>1
<1>. QED BY <1>1, <1>2, <1>3, <1>4, Zenon DEF Accepted

\* A sequence that holds nothing of a lane is in order with any other.
LEMMA ForeignFits ==
  ASSUME NEW s, NEW t, NEW lane, Foreign(s, lane)
  PROVE  Ordered(s, lane) /\ Before(s, t, lane) /\ Before(t, s, lane)
BY Zenon DEF Foreign, Ordered, Before

LEMMA NothingFits ==
  ASSUME NEW lane, NEW n
  PROVE  Foreign(<<>>, lane) /\ Accepted(<<>>, n)
BY DEF Foreign, Accepted

\* What is about to be spoken is dropped, or spoken next; a closing message is spoken.
LEMMA LaneDrops ==
  ASSUME NEW m, NEW p, NEW q, NEW lane, NEW n, InLane(m, p, q, lane, n)
  PROVE  InLane(m, <<>>, q, lane, n) /\ InLane(m, p, <<>>, lane, n)
<1>1. \A i \in 1..Len(<<>>) : <<>>[i].lane = lane OBVIOUS
<1>. QED BY <1>1, NothingFits, ForeignFits DEF InLane

LEMMA LaneCloses ==
  ASSUME NEW m \in Seq(Message), NEW p \in Seq(Message), NEW q \in Seq(Message), NEW lane, NEW n,
         NEW x \in Message, x.role # "user", InLane(m, p, q, lane, n)
  PROVE  InLane(Append(m, x), p, q, lane, n)
<1>1. <<x>> \in Seq(Message) /\ Append(m, x) = m \o <<x>> BY AppendIsConcat
<1>2. Foreign(<<x>>, lane) /\ Accepted(<<x>>, n) BY DEF Foreign, Accepted, IsOf
<1>3. Ordered(m \o <<x>>, lane)
  BY <1>1, <1>2, OrderedConcat, ForeignFits DEF InLane
<1>4. Before(m \o <<x>>, p, lane) /\ Before(m \o <<x>>, q, lane)
  <2>1. Before(<<x>>, p, lane) /\ Before(<<x>>, q, lane) BY <1>2, ForeignFits
  <2>2. Before(m, p, lane) /\ Before(m, q, lane) BY DEF InLane
  <2>3. <<x>> \in Seq(Message) BY <1>1
  <2>. QED BY <2>1, <2>2, <2>3, BeforeConcat
<1>5. Accepted(m \o <<x>>, n) BY <1>1, <1>2, AcceptedConcat DEF InLane
<1>. QED BY <1>1, <1>3, <1>4, <1>5 DEF InLane

LEMMA FirstApart ==
  ASSUME NEW p \in Seq(Message), p # <<>>
  PROVE  /\ Head(p) \in Message /\ Tail(p) \in Seq(Message) /\ <<Head(p)>> \in Seq(Message)
         /\ p = <<Head(p)>> \o Tail(p)
<1>1. Head(p) \in Message /\ Tail(p) \in Seq(Message) BY HeadTailProperties
<1>2. <<Head(p)>> \in Seq(Message) BY <1>1
<1>3. <<>> \in Seq(Message) OBVIOUS
<1>4. Append(<<>>, Head(p)) = <<Head(p)>> BY <1>1, <1>3
<1>5. <<>> \o p = p BY ConcatEmptySeq
<1>. QED BY <1>1, <1>2, <1>3, <1>4, <1>5, SpokenFirst

LEMMA LaneSpeaks ==
  ASSUME NEW m \in Seq(Message), NEW p \in Seq(Message), NEW q \in Seq(Message), NEW lane, NEW n,
         p # <<>>, InLane(m, p, q, lane, n)
  PROVE  InLane(Append(m, Head(p)), Tail(p), q, lane, n)
<1>1. /\ Head(p) \in Message /\ Tail(p) \in Seq(Message) /\ <<Head(p)>> \in Seq(Message)
      /\ p = <<Head(p)>> \o Tail(p)
  BY FirstApart
<1>2. Append(m, Head(p)) = m \o <<Head(p)>> BY <1>1, AppendIsConcat
<1>. DEFINE h == <<Head(p)>>  t == Tail(p)
<1>3. Ordered(h, lane) /\ Ordered(t, lane) /\ Before(h, t, lane)
  BY <1>1, OrderedConcat DEF InLane
<1>4. Before(m, h, lane) /\ Before(m, t, lane) /\ Before(h, q, lane) /\ Before(t, q, lane)
  <2>1. Before(m, h \o t, lane) /\ Before(h \o t, q, lane) BY <1>1 DEF InLane
  <2>2. h \in Seq(Message) /\ t \in Seq(Message) BY <1>1
  <2>3. Before(m, h, lane) /\ Before(m, t, lane) BY <2>1, <2>2, BeforeConcat
  <2>4. Before(h, q, lane) /\ Before(t, q, lane) BY <2>1, <2>2, BeforeConcat
  <2>. QED BY <2>3, <2>4
<1>5. Accepted(h, n) /\ Accepted(t, n) BY <1>1, AcceptedConcat DEF InLane
<1>6. Ordered(m \o h, lane) /\ Before(m \o h, t, lane) /\ Before(m \o h, q, lane) /\ Accepted(m \o h, n)
  BY <1>1, <1>3, <1>4, <1>5, OrderedConcat, BeforeConcat, AcceptedConcat DEF InLane
<1>. QED BY <1>2, <1>3, <1>4, <1>5, <1>6 DEF InLane

\* A drain of the lane: t is taken and r is left.
LEMMA LaneTakes ==
  ASSUME NEW m \in Seq(Message), NEW p, NEW t \in Seq(Message), NEW r \in Seq(Message), NEW lane, NEW n,
         InLane(m, p, t \o r, lane, n)
  PROVE  InLane(m, t, r, lane, n)
<1>1. Ordered(t, lane) /\ Ordered(r, lane) /\ Before(t, r, lane)
  BY OrderedConcat DEF InLane
<1>2. Before(m, t, lane) /\ Before(m, r, lane) BY BeforeConcat DEF InLane
<1>3. Accepted(t, n) /\ Accepted(r, n) BY AcceptedConcat DEF InLane
<1>4. ASSUME NEW i \in 1..Len(r) PROVE r[i].lane = lane
  <2>1. /\ Len(t) \in Nat /\ Len(r) \in Nat /\ Len(t \o r) = Len(t) + Len(r)
        /\ (t \o r)[Len(t) + i] = r[i]
    BY ConcatProperties, LenProperties
  <2>2. Len(t) + i \in 1..Len(t \o r) BY <2>1
  <2>. QED BY <2>1, <2>2 DEF InLane
<1>. QED BY <1>1, <1>2, <1>3, <1>4 DEF InLane

\* A drain of another lane, alone or around a drain of this one.
LEMMA LaneForeign ==
  ASSUME NEW m, NEW p, NEW q, NEW lane, NEW n, InLane(m, p, q, lane, n),
         NEW t, Foreign(t, lane), Accepted(t, n)
  PROVE  InLane(m, t, q, lane, n)
BY ForeignFits DEF InLane

LEMMA LaneAround ==
  ASSUME NEW m \in Seq(Message), NEW t \in Seq(Message), NEW q \in Seq(Message), NEW lane, NEW n,
         InLane(m, t, q, lane, n), NEW s \in Seq(Message), Foreign(s, lane), Accepted(s, n)
  PROVE  InLane(m, s \o t, q, lane, n) /\ InLane(m, t \o s, q, lane, n)
<1>1. /\ Ordered(s, lane) /\ Before(s, t, lane) /\ Before(t, s, lane)
      /\ Before(m, s, lane) /\ Before(s, q, lane)
  BY ForeignFits
<1>2. Ordered(s \o t, lane) /\ Ordered(t \o s, lane) BY <1>1, OrderedConcat DEF InLane
<1>3. /\ Before(m, s \o t, lane) /\ Before(m, t \o s, lane)
      /\ Before(s \o t, q, lane) /\ Before(t \o s, q, lane)
  BY <1>1, BeforeConcat DEF InLane
<1>4. Accepted(s \o t, n) /\ Accepted(t \o s, n) BY AcceptedConcat DEF InLane
<1>. QED BY <1>2, <1>3, <1>4 DEF InLane

\* An input is accepted: into the lane, into another lane, or as a prompt.
LEMMA AcceptedLater ==
  ASSUME NEW s \in Seq(Message), NEW n \in Int, NEW k \in Int, n <= k, Accepted(s, n)
  PROVE  Accepted(s, k)
<1>. SUFFICES ASSUME NEW i \in 1..Len(s), s[i].role = "user" PROVE s[i].id < k BY DEF Accepted
<1>1. s[i] \in Message BY ElementOfSeq
<1>2. s[i].id \in Nat BY <1>1 DEF Message, UserMessage, AssistantMessage, ToolResult
<1>3. s[i].id < n BY DEF Accepted
<1>. QED BY <1>2, <1>3

LEMMA LaneLater ==
  ASSUME NEW m \in Seq(Message), NEW p \in Seq(Message), NEW q \in Seq(Message), NEW lane,
         NEW n \in Int, NEW k \in Int, n <= k, InLane(m, p, q, lane, n)
  PROVE  InLane(m, p, q, lane, k)
BY AcceptedLater DEF InLane

LEMMA LaneAccepts ==
  ASSUME NEW m \in Seq(Message), NEW p \in Seq(Message), NEW q \in Seq(Message), NEW lane,
         NEW n \in Nat, NEW x \in Message, x.lane = lane, x.id = n, InLane(m, p, q, lane, n)
  PROVE  InLane(m, p, Append(q, x), lane, n + 1)
<1>1. <<x>> \in Seq(Message) /\ Append(q, x) = q \o <<x>> BY AppendIsConcat
<1>2. ASSUME NEW s \in Seq(Message), Accepted(s, n) PROVE Before(s, <<x>>, lane)
  BY <1>2 DEF Before, Accepted, IsOf
<1>3. Ordered(<<x>>, lane) /\ Accepted(<<x>>, n + 1) BY DEF Ordered, Accepted
<1>4. InLane(m, p, q, lane, n + 1) BY LaneLater
<1>5. Before(m, <<x>>, lane) /\ Before(p, <<x>>, lane) /\ Before(q, <<x>>, lane)
  BY <1>2 DEF InLane
<1>6. Ordered(q \o <<x>>, lane) /\ Before(m, q \o <<x>>, lane) /\ Before(p, q \o <<x>>, lane)
      /\ Accepted(q \o <<x>>, n + 1)
  <2>1. Ordered(q, lane) /\ Before(m, q, lane) /\ Before(p, q, lane) /\ Accepted(q, n + 1)
    BY <1>4 DEF InLane
  <2>2. <<x>> \in Seq(Message) BY <1>1
  <2>3. Ordered(q \o <<x>>, lane) BY <1>3, <1>5, <2>1, <2>2, OrderedConcat
  <2>4. Before(m, q \o <<x>>, lane) /\ Before(p, q \o <<x>>, lane)
    BY <1>5, <2>1, <2>2, BeforeConcat
  <2>5. Accepted(q \o <<x>>, n + 1) BY <1>3, <2>1, <2>2, AcceptedConcat
  <2>. QED BY <2>3, <2>4, <2>5
<1>7. \A i \in 1..Len(Append(q, x)) : Append(q, x)[i].lane = lane
  BY AppendProperties, LenProperties DEF InLane
<1>. QED BY <1>1, <1>4, <1>6, <1>7 DEF InLane

\* A drain splits the lane, and takes input of that lane only.
LEMMA DrainSplits ==
  ASSUME TypeInv, LaneInv, NEW lane \in Lanes
  PROVE  /\ Taken(lane) \in Seq(Message) /\ Left(lane) \in Seq(Message)
         /\ InLane(messages, Taken(lane), Left(lane), lane, NextId)
         /\ InLane(messages, queue[lane], <<>>, lane, NextId)
         /\ Accepted(Taken(lane), NextId) /\ Accepted(queue[lane], NextId)
         /\ \A other \in Lanes \ {lane} :
              Foreign(Taken(lane), other) /\ Foreign(queue[lane], other)
<1>1. /\ messages \in Seq(Message) /\ queue[lane] \in Seq(Message)
      /\ Taken(lane) \in Seq(Message) /\ Left(lane) \in Seq(Message)
  BY TypeParts, DrainType, MessageTypes DEF TalkOK, QueueOK
<1>2. <<>> \in Seq(Message) OBVIOUS
<1>3. queue[lane] = Taken(lane) \o Left(lane)
  <2>1. CASE DrainsAll(lane) \/ queue[lane] = <<>>
    BY <1>1, <2>1, ConcatEmptySeq DEF Taken, Left
  <2>2. CASE ~ (DrainsAll(lane) \/ queue[lane] = <<>>)
    BY <1>1, <2>2, FirstApart DEF Taken, Left
  <2>. QED BY <2>1, <2>2
<1>4. InLane(messages, pending, queue[lane], lane, NextId) BY DEF LaneInv
<1>5. InLane(messages, Taken(lane), Left(lane), lane, NextId)
  BY <1>1, <1>3, <1>4, LaneTakes
<1>6. InLane(messages, queue[lane], <<>>, lane, NextId)
  <2>1. queue[lane] \o <<>> = queue[lane] BY <1>1, ConcatEmptySeq
  <2>2. InLane(messages, pending, queue[lane] \o <<>>, lane, NextId) BY <1>4, <2>1
  <2>. HIDE <2>1
  <2>. QED BY <1>1, <1>2, <2>2, LaneTakes
<1>7. \A i \in 1..Len(queue[lane]) : queue[lane][i].lane = lane BY <1>4 DEF InLane
<1>8. \A i \in 1..Len(Taken(lane)) : Taken(lane)[i].lane = lane
  <2>1. CASE Taken(lane) = queue[lane] BY <1>7, <2>1
  <2>2. CASE Taken(lane) = <<Head(queue[lane])>> /\ queue[lane] # <<>>
    <3>1. Len(queue[lane]) \in Nat \ {0} BY <1>1, <2>2, EmptySeq
    <3>2. Head(queue[lane]) = queue[lane][1] BY <1>1, <3>1
    <3>3. Len(Taken(lane)) = 1 /\ Taken(lane)[1] = queue[lane][1] BY <2>2, <3>2
    <3>. QED BY <1>7, <3>1, <3>3
  <2>. QED BY <2>1, <2>2 DEF Taken
<1>9. ASSUME NEW other \in Lanes \ {lane}
      PROVE  Foreign(Taken(lane), other) /\ Foreign(queue[lane], other)
  BY <1>7, <1>8 DEF Foreign, IsOf
<1>. QED BY <1>1, <1>4, <1>5, <1>6, <1>9 DEF InLane

\* What a step makes of the lanes: some input is about to be spoken or dropped, and a
\* message that closes a turn, a run, or a call may be spoken in front of it.
LEMMA LaneStep ==
  ASSUME TypeInv, NEW input \in Seq(UserMessage), queue' \in [Lanes -> Seq(UserMessage)],
         NextId' = NextId, pending' \in {input, <<>>},
         \A lane \in Lanes : InLane(messages, input, queue'[lane], lane, NextId),
         \/ messages' = messages
         \/ \E x \in Message : x.role # "user" /\ messages' = Append(messages, x)
  PROVE  LaneInv'
<1>1. messages \in Seq(Message) /\ input \in Seq(Message) /\ <<>> \in Seq(Message)
  BY TypeParts, MessageTypes DEF TalkOK
<1>2. \A lane \in Lanes : queue'[lane] \in Seq(Message) BY MessageTypes
<1>3. \A lane \in Lanes : InLane(messages, pending', queue'[lane], lane, NextId)
  BY LaneDrops
<1>4. \A lane \in Lanes : InLane(messages', pending', queue'[lane], lane, NextId)
  BY <1>1, <1>2, <1>3, LaneCloses
<1>. QED BY <1>4 DEF LaneInv

LEMMA LaneQuiet ==
  ASSUME TypeInv, LaneInv, NextId' = NextId, queue' = queue, pending' \in {pending, <<>>},
         \/ messages' = messages
         \/ \E x \in Message : x.role # "user" /\ messages' = Append(messages, x)
  PROVE  LaneInv'
BY TypeParts, LaneStep DEF TalkOK, QueueOK, LaneInv

LEMMA SameId ==
  /\ UNCHANGED budget => NextId' = NextId
  /\ TypeInv => \A bound \in {"runs", "batches", "faults"} : Spend(bound) => NextId' = NextId
<1>1. UNCHANGED budget => NextId' = NextId BY DEF NextId
<1>2. ASSUME TypeInv, NEW bound \in {"runs", "batches", "faults"}, Spend(bound)
      PROVE  NextId' = NextId
  <2>1. budget'.inputs = budget.inputs BY <1>2, TypeParts DEF Spend, BudgetOK
  <2>. QED BY <2>1 DEF NextId
<1>. QED BY <1>1, <1>2

LEMMA LaneDrained ==
  ASSUME TypeInv, LaneInv, NEW from \in Lanes
  PROVE  \A lane \in Lanes :
           InLane(messages, Taken(from), [queue EXCEPT ![from] = Left(from)][lane], lane, NextId)
<1>. SUFFICES ASSUME NEW lane \in Lanes
     PROVE InLane(messages, Taken(from), [queue EXCEPT ![from] = Left(from)][lane], lane, NextId)
  OBVIOUS
<1>1. queue \in [Lanes -> Seq(UserMessage)] BY TypeParts DEF QueueOK
<1>2. CASE lane = from BY <1>1, <1>2, DrainSplits
<1>3. CASE lane # from
  <2>1. InLane(messages, pending, queue[lane], lane, NextId) BY DEF LaneInv
  <2>2. Foreign(Taken(from), lane) /\ Accepted(Taken(from), NextId) BY <1>3, DrainSplits
  <2>. QED BY <1>1, <1>3, <2>1, <2>2, LaneForeign
<1>. QED BY <1>2, <1>3

LEMMA LanePolled ==
  ASSUME TypeInv, LaneInv, NEW skip \in BOOLEAN
  PROVE  \A lane \in Lanes :
           InLane(messages, Immediate(skip), AfterImmediate(skip)[lane], lane, NextId)
<1>. SUFFICES ASSUME NEW lane \in Lanes
     PROVE InLane(messages, Immediate(skip), AfterImmediate(skip)[lane], lane, NextId)
  OBVIOUS
<1>. DEFINE mail == queue["mailbox"]
            steer == IF skip THEN <<>> ELSE Taken("steering")
<1>1. queue \in [Lanes -> Seq(UserMessage)] BY TypeParts DEF QueueOK
<1>2. InLane(messages, pending, queue[lane], lane, NextId) BY DEF LaneInv
<1>3. CASE ~deliver BY <1>2, <1>3, LaneDrops DEF Immediate, AfterImmediate
<1>4. CASE deliver
  <2>1. messages \in Seq(Message) /\ mail \in Seq(Message) /\ steer \in Seq(Message)
        /\ \A l \in Lanes : queue[l] \in Seq(Message)
    <3>1. Taken("steering") \in Seq(Message) BY DrainSplits DEF Lanes
    <3>2. <<>> \in Seq(Message) OBVIOUS
    <3>. QED BY <1>1, <3>1, <3>2, TypeParts, MessageTypes DEF TalkOK, Lanes
  <2>2. Accepted(mail, NextId) /\ Accepted(steer, NextId)
    BY DrainSplits, NothingFits DEF Lanes
  <2>3. Immediate(skip) = mail \o steer BY <1>4 DEF Immediate
  <2>4. AfterImmediate(skip)[lane] =
          CASE lane = "mailbox" -> <<>>
            [] lane = "steering" -> IF skip THEN queue[lane] ELSE Left("steering")
            [] lane = "follow_up" -> queue[lane]
    BY <1>1, <1>4 DEF AfterImmediate, Lanes
  <2>5. lane # "mailbox" => Foreign(mail, lane) BY DrainSplits DEF Lanes
  <2>6. lane # "steering" => Foreign(steer, lane) BY DrainSplits, NothingFits DEF Lanes
  <2>7. CASE lane = "mailbox"
    <3>1. InLane(messages, mail, <<>>, lane, NextId) BY <2>7, DrainSplits
    <3>2. <<>> \in Seq(Message) OBVIOUS
    <3>3. InLane(messages, mail \o steer, <<>>, lane, NextId)
      BY <2>1, <2>2, <2>6, <2>7, <3>1, <3>2, LaneAround
    <3>. QED BY <2>3, <2>4, <2>7, <3>3
  <2>8. CASE lane = "steering"
    <3>. DEFINE left == IF skip THEN queue[lane] ELSE Left("steering")
    <3>1. InLane(messages, steer, left, lane, NextId)
      BY <1>2, <2>8, DrainSplits, LaneDrops
    <3>2. left \in Seq(Message) BY <2>1, <2>8, DrainSplits
    <3>3. InLane(messages, mail \o steer, left, lane, NextId)
      BY <2>1, <2>2, <2>5, <2>8, <3>1, <3>2, LaneAround
    <3>. QED BY <2>3, <2>4, <2>8, <3>3
  <2>9. CASE lane = "follow_up"
    <3>1. InLane(messages, steer, queue[lane], lane, NextId)
      BY <1>2, <2>2, <2>6, <2>9, LaneForeign
    <3>2. InLane(messages, mail \o steer, queue[lane], lane, NextId)
      BY <2>1, <2>2, <2>5, <2>9, <3>1, LaneAround
    <3>. QED BY <2>3, <2>4, <2>9, <3>2
  <2>. QED BY <2>7, <2>8, <2>9 DEF Lanes
<1>. QED BY <1>3, <1>4

LEMMA InitLanes == Init => LaneInv
<1>. SUFFICES ASSUME Init, NEW lane \in Lanes
     PROVE InLane(messages, pending, queue[lane], lane, NextId)
  BY DEF LaneInv
<1>1. messages = <<>> /\ pending = <<>> /\ queue[lane] = <<>> BY DEF Init
<1>2. InLane(<<>>, <<>>, <<>>, lane, NextId) BY DEF InLane, Ordered, Before, Accepted
<1>. QED BY <1>1, <1>2

\* The messages that close a turn, a run or a call are not input.
LEMMA Closing ==
  ASSUME NEW stop, NEW n, NEW i, NEW kind
  PROVE  Assistant(stop, n).role # "user" /\ Result(i, kind).role # "user"
BY DEF Assistant, Result

LEMMA EndsLanes ==
  ASSUME TypeInv, LaneInv, NextId' = NextId
  PROVE  /\ FinishRun /\ UNCHANGED queue => LaneInv'
         /\ FailRun => LaneInv'
         /\ CancelledRun => LaneInv'
         /\ AbortTurn /\ UNCHANGED queue => LaneInv'
<1>1. FinishRun /\ UNCHANGED queue => LaneInv' BY LaneQuiet DEF FinishRun
<1>2. Assistant("aborted", 0) \in Message /\ Assistant("error", 0) \in Message
  BY MessageTypes DEF StopReason
<1>3. FailRun => LaneInv' BY <1>2, LaneQuiet, Closing DEF FailRun
<1>4. AbortTurn /\ UNCHANGED queue => LaneInv' BY <1>2, LaneQuiet, Closing DEF AbortTurn
<1>. QED BY <1>1, <1>3, <1>4 DEF CancelledRun

LEMMA CallerLanes ==
  ASSUME TypeInv, LaneInv, Caller
  PROVE  LaneInv'
<1>1. messages \in Seq(Message) /\ pending \in Seq(Message)
      /\ queue \in [Lanes -> Seq(UserMessage)] /\ \A lane \in Lanes : queue[lane] \in Seq(Message)
  BY TypeParts, MessageTypes DEF TalkOK, QueueOK
<1>2. NextId \in Nat BY TypeParts, NextIdType
<1>3. \A lane \in Lanes : InLane(messages, pending, queue[lane], lane, NextId) BY DEF LaneInv
<1>4. ASSUME budget'.inputs = budget.inputs - 1 PROVE NextId' = NextId + 1
  <2>1. budget.inputs \in Nat /\ MaxInputs \in Nat BY TypeParts, Bounds DEF BudgetOK
  <2>. QED BY <1>4, <2>1 DEF NextId
<1>5. ASSUME NEW d \in Deliver, Prompt(d) PROVE LaneInv'
  <2>. DEFINE x == User("prompt", NextId)
  <2>1. budget'.inputs = budget.inputs - 1 BY <1>5, TypeParts DEF Prompt, BudgetOK
  <2>2. NextId' = NextId + 1 BY <1>4, <2>1
  <2>3. \A lane \in Lanes : Foreign(<<x>>, lane) /\ Accepted(<<x>>, NextId + 1)
    BY <1>2 DEF Foreign, Accepted, IsOf, User, Lanes
  <2>4. \A lane \in Lanes : InLane(messages, pending, queue[lane], lane, NextId + 1)
    BY <1>1, <1>2, <1>3, LaneLater
  <2>5. \A lane \in Lanes : InLane(messages, <<x>>, queue[lane], lane, NextId + 1)
    BY <2>3, <2>4, LaneForeign
  <2>. QED BY <1>5, <2>2, <2>5 DEF Prompt, StartRun, LaneInv
<1>6. ASSUME NEW d \in Deliver, ContinueRun(d) PROVE LaneInv'
  <2>1. Spend("runs") BY <1>6 DEF ContinueRun
  <2>2. UNCHANGED <<messages, queue>> /\ pending' = <<>> BY <1>6 DEF ContinueRun, StartRun
  <2>. QED BY <2>1, <2>2, SameId, LaneQuiet
<1>7. ASSUME NEW to \in Lanes, Enqueue(to) PROVE LaneInv'
  <2>. DEFINE x == User(to, NextId)
  <2>1. x \in Message /\ x.lane = to /\ x.id = NextId
    BY <1>2, MessageTypes DEF User
  <2>2. NextId' = NextId + 1
    <3>1. budget'.inputs = budget.inputs - 1 BY <1>7, TypeParts DEF Enqueue, Spend, BudgetOK
    <3>. QED BY <1>4, <3>1
  <2>3. ASSUME NEW lane \in Lanes
        PROVE  InLane(messages, pending, queue'[lane], lane, NextId + 1)
    <3>1. CASE lane = to
      <4>1. queue'[lane] = Append(queue[lane], x) BY <1>1, <1>7, <3>1 DEF Enqueue
      <4>2. InLane(messages, pending, Append(queue[lane], x), lane, NextId + 1)
        BY <1>1, <1>2, <1>3, <2>1, <3>1, LaneAccepts
      <4>. QED BY <4>1, <4>2
    <3>2. CASE lane # to
      <4>1. queue'[lane] = queue[lane] BY <1>1, <1>7, <3>2 DEF Enqueue
      <4>. QED BY <1>1, <1>2, <1>3, <4>1, LaneLater
    <3>. QED BY <3>1, <3>2
  <2>. QED BY <1>7, <2>2, <2>3 DEF Enqueue, LaneInv
<1>8. CASE ClearQueues
  <2>1. \A lane \in Lanes : InLane(messages, pending, <<>>, lane, NextId) BY <1>3, LaneDrops
  <2>2. NextId' = NextId BY <1>8, SameId DEF ClearQueues
  <2>. QED BY <1>8, <2>1, <2>2 DEF ClearQueues, LaneInv
<1>9. CASE Abort BY <1>9, SameId, LaneQuiet DEF Abort, inputs
<1>. QED BY <1>5, <1>6, <1>7, <1>8, <1>9 DEF Caller

LEMMA TaskLanes ==
  ASSUME TypeInv, LaneInv, Tool \/ ForceCancel
  PROVE  LaneInv'
<1>1. \/ UNCHANGED budget \/ Spend("faults")
  BY DEF Tool, ToolCompletes, ToolCancelled, ToolStep, OrphanEnds, ForceCancel, inputs
<1>2. UNCHANGED <<messages, pending, queue>>
  BY DEF Tool, ToolCompletes, ToolCancelled, ToolStep, OrphanEnds, ForceCancel, inputs
<1>. QED BY <1>1, <1>2, SameId, LaneQuiet

\* From the start of a run to the reply of the model.
LEMMA TurnLanes ==
  ASSUME TypeInv, LaneInv,
         \/ SetUp \/ EmitPrompt \/ FirstPoll \/ Inject \/ CallModel
         \/ ModelReplies \/ ModelAborts \/ ModelCancelled
         \/ \E n \in 1..MaxTools : ModelCallsTools(n)
  PROVE  LaneInv'
<1>1. /\ messages \in Seq(Message) /\ pending \in Seq(Message) /\ pending \in Seq(UserMessage)
      /\ queue \in [Lanes -> Seq(UserMessage)] /\ \A lane \in Lanes : queue[lane] \in Seq(Message)
  BY TypeParts, MessageTypes DEF TalkOK, QueueOK
<1>2. CASE SetUp
  <2>1. NextId' = NextId BY <1>2, SameId DEF SetUp
  <2>2. CASE FinishRun /\ UNCHANGED queue BY <2>1, <2>2, EndsLanes
  <2>3. CASE FailRun BY <2>1, <2>3, EndsLanes
  <2>4. CASE entry \in Lanes /\ pending' = Taken(entry) /\ UNCHANGED messages
             /\ queue' = [queue EXCEPT ![entry] = Left(entry)]
    <3>1. Taken(entry) \in Seq(UserMessage) /\ Left(entry) \in Seq(UserMessage)
      BY <2>4, TypeParts, DrainType
    <3>. QED BY <1>1, <2>1, <2>4, <3>1, LaneDrained, LaneStep
  <2>5. CASE UNCHANGED <<messages, pending, queue>> BY <2>1, <2>5, LaneQuiet
  <2>. QED BY <1>2, <2>2, <2>3, <2>4, <2>5 DEF SetUp
<1>3. CASE EmitPrompt \/ Inject
  <2>1. NextId' = NextId BY <1>3, SameId DEF EmitPrompt, Inject, inputs
  <2>2. /\ pending # <<>> /\ UNCHANGED queue
        /\ messages' = Append(messages, Head(pending)) /\ pending' = Tail(pending)
    BY <1>3 DEF EmitPrompt, Inject, inputs
  <2>3. \A lane \in Lanes :
          InLane(Append(messages, Head(pending)), Tail(pending), queue[lane], lane, NextId)
    BY <1>1, <2>2, LaneSpeaks DEF LaneInv
  <2>. QED BY <2>1, <2>2, <2>3 DEF LaneInv
<1>4. CASE FirstPoll
  <2>. DEFINE skip == entry = "steering"
  <2>1. NextId' = NextId BY <1>4, SameId DEF FirstPoll
  <2>2. Immediate(skip) \in Seq(UserMessage) /\ AfterImmediate(skip) \in [Lanes -> Seq(UserMessage)]
    BY TypeParts, PollType
  <2>3. queue' = AfterImmediate(skip) /\ EnterTurn(Immediate(skip), TRUE) BY <1>4 DEF FirstPoll
  <2>4. Assistant("aborted", 0) \in Message BY MessageTypes DEF StopReason
  <2>5. pending' \in {Immediate(skip), <<>>}
        /\ (messages' = messages \/ messages' = Append(messages, Assistant("aborted", 0)))
    BY <2>3 DEF EnterTurn, AbortTurn
  <2>. QED BY <2>1, <2>2, <2>3, <2>4, <2>5, Closing, LanePolled, LaneStep
<1>5. CASE CallModel
  <2>1. NextId' = NextId /\ UNCHANGED queue BY <1>5, SameId DEF CallModel, inputs
  <2>. QED BY <1>5, <2>1, EndsLanes, LaneQuiet DEF CallModel
<1>6. ASSUME NEW stop \in StopReason, NEW n \in Nat, Reply(stop, n), NextId' = NextId PROVE LaneInv'
  <2>1. Assistant(stop, n) \in Message BY MessageTypes
  <2>. QED BY <1>6, <2>1, Closing, LaneQuiet DEF Reply
<1>7. CASE ModelReplies BY <1>6, <1>7, SameId DEF ModelReplies, StopReason
<1>8. CASE ModelAborts BY <1>8, SameId, EndsLanes DEF ModelAborts, inputs
<1>9. CASE ModelCancelled BY <1>9, SameId, EndsLanes DEF ModelCancelled
<1>10. ASSUME NEW n \in 1..MaxTools, ModelCallsTools(n) PROVE LaneInv'
  BY <1>6, <1>10, SameId, Bounds DEF ModelCallsTools, StopReason
<1>. QED BY <1>2, <1>3, <1>4, <1>5, <1>7, <1>8, <1>9, <1>10

\* The coordinator of a batch speaks results only.
LEMMA CutSays ==
  ASSUME TypeInv, Cut
  PROVE  messages' = messages \/ \E x \in Message : x.role # "user" /\ messages' = Append(messages, x)
<1>1. CASE Open # {}
  <2>1. Open \in SUBSET Nat BY Bounds DEF Open, Calls
  <2>2. FirstOf(Open) \in Nat BY <1>1, <2>1, FirstInSet
  <2>3. Result(FirstOf(Open), "aborted") \in Message BY <2>2, MessageTypes
  <2>. QED BY <1>1, <2>3, Closing DEF Cut, Settle
<1>2. CASE Open = {} BY <1>2 DEF Cut
<1>. QED BY <1>1, <1>2

LEMMA BatchLanes ==
  ASSUME TypeInv, LaneInv,
         \/ ReplyEnded \/ PreparedImmediate \/ PreparedCall \/ OutcomeEnded
         \/ Awaited \/ Gathered \/ AfterHook \/ HookCancelled \/ OutcomeCancelled
         \/ CutNext
  PROVE  LaneInv'
<1>. DEFINE Says == messages' = messages
                    \/ \E x \in Message : x.role # "user" /\ messages' = Append(messages, x)
<1>1. NextId' = NextId
  <2>1. UNCHANGED budget \/ Spend("faults")
    BY DEF ReplyEnded, PreparedImmediate, PreparedCall, OutcomeEnded, Awaited, Gathered, AfterHook,
           HookCancelled, OutcomeCancelled, CutNext, inputs
  <2>. QED BY <2>1, SameId
<1>2. CASE ReplyEnded BY <1>1, <1>2, EndsLanes, LaneQuiet DEF ReplyEnded, inputs
<1>3. CASE ~ReplyEnded
  <2>1. UNCHANGED <<queue, pending>>
    BY <1>3 DEF PreparedImmediate, PreparedCall, OutcomeEnded, Awaited, Gathered, AfterHook,
           HookCancelled, OutcomeCancelled, CutNext, Coordinates
  <2>2. Cut => Says BY CutSays
  <2>3. ASSUME NEW st, NextCall(st) PROVE Says
    <3>1. Cut \/ UNCHANGED messages BY <2>3, Zenon DEF NextCall
    <3>. QED BY <2>2, <3>1
  <2>4. ASSUME NEW at, Settle(cur, "final", at) PROVE Says
    <3>1. cur \in Nat BY TypeParts, Bounds DEF BatchOK
    <3>2. Result(cur, "final") \in Message BY <3>1, MessageTypes
    <3>. QED BY <2>4, <3>2, Closing DEF Settle
  <2>5. Gather => Says BY DEF Gather
  <2>. HIDE DEF Says
  <2>6. messages' = messages => Says BY DEF Says
  <2>7. Says
    BY <1>3, <2>2, <2>3, <2>4, <2>5, <2>6
    DEF PreparedImmediate, PreparedCall, OutcomeEnded, Awaited, Gathered, AfterHook,
        HookCancelled, OutcomeCancelled, CutNext
  <2>. QED BY <1>1, <2>1, <2>7, LaneQuiet DEF Says
<1>. QED BY <1>2, <1>3

LEMMA EndLanes ==
  ASSUME TypeInv, LaneInv,
         \/ BatchEnded \/ TurnEnded \/ LastTurn \/ LastTurnEnded \/ RunEnded \/ Raises
         \/ ListenerCancelled
  PROVE  LaneInv'
<1>1. NextId' = NextId
  <2>1. UNCHANGED budget \/ Spend("faults")
    <3>1. TurnEnded => UNCHANGED budget BY Zenon DEF TurnEnded
    <3>. QED BY <3>1 DEF BatchEnded, LastTurn, LastTurnEnded, RunEnded, Raises, ListenerCancelled, inputs
  <2>. QED BY <2>1, SameId
<1>2. CASE BatchEnded BY <1>1, <1>2, EndsLanes DEF BatchEnded
<1>3. CASE TurnEnded
  <2>. DEFINE follow == IF deliver THEN Taken("follow_up") ELSE <<>>
  <2>1. Assistant("aborted", 0) \in Message BY MessageTypes DEF StopReason
  <2>2. ASSUME NEW input, EnterTurn(input, FALSE)
        PROVE  /\ pending' \in {input, <<>>}
               /\ messages' = messages \/ messages' = Append(messages, Assistant("aborted", 0))
    BY <2>2 DEF EnterTurn, AbortTurn
  <2>3. CASE EnterTurn(Immediate(FALSE), FALSE) /\ queue' = AfterImmediate(FALSE)
    <3>1. Immediate(FALSE) \in Seq(UserMessage) /\ AfterImmediate(FALSE) \in [Lanes -> Seq(UserMessage)]
      BY TypeParts, PollType
    <3>2. \A lane \in Lanes :
            InLane(messages, Immediate(FALSE), AfterImmediate(FALSE)[lane], lane, NextId)
      BY LanePolled
    <3>. QED BY <1>1, <2>1, <2>2, <2>3, <3>1, <3>2, Closing, LaneStep
  <2>4. CASE /\ follow # <<>> /\ EnterTurn(follow, FALSE)
             /\ queue' = [queue EXCEPT !["follow_up"] = Left("follow_up")]
    <3>1. follow = Taken("follow_up") BY <2>4
    <3>2. Taken("follow_up") \in Seq(UserMessage) /\ Left("follow_up") \in Seq(UserMessage)
      BY TypeParts, DrainType DEF Lanes
    <3>3. queue' \in [Lanes -> Seq(UserMessage)] BY <2>4, <3>2, TypeParts DEF QueueOK
    <3>4. \A lane \in Lanes : InLane(messages, Taken("follow_up"), queue'[lane], lane, NextId)
      BY <2>4, LaneDrained DEF Lanes
    <3>. QED BY <1>1, <2>1, <2>2, <2>4, <3>1, <3>2, <3>3, <3>4, Closing, LaneStep
  <2>5. CASE EndAgent BY <1>1, <2>5, LaneQuiet DEF EndAgent
  <2>. QED BY <1>3, <2>3, <2>4, <2>5, Zenon DEF TurnEnded
<1>4. CASE LastTurn \/ LastTurnEnded
  BY <1>1, <1>4, LaneQuiet DEF LastTurn, LastTurnEnded, EndAgent, inputs
<1>5. CASE RunEnded \/ Raises \/ ListenerCancelled
  BY <1>1, <1>5, EndsLanes DEF RunEnded, Raises, ListenerCancelled, inputs
<1>. QED BY <1>2, <1>3, <1>4, <1>5

LEMMA LanesHold == TypeInv /\ LaneInv /\ [Next]_vars => LaneInv'
<1>. SUFFICES ASSUME TypeInv, LaneInv, [Next]_vars PROVE LaneInv' OBVIOUS
<1>1. CASE UNCHANGED vars BY <1>1, SameId, LaneQuiet DEF vars
<1>2. CASE Next
  BY <1>1, <1>2, CallerLanes, TaskLanes, TurnLanes, BatchLanes, EndLanes DEF Next, Run, Idle
<1>. QED BY <1>1, <1>2

\* Input of one lane reaches the transcript in the order it was accepted in, and at most
\* once, in every queue mode, whatever drains it and whatever is dropped on the way.
THEOREM LanesAreOrdered == Spec => []LaneOrder
<1>1. TypeInv /\ LaneInv => LaneOrder
  <2>. SUFFICES ASSUME TypeInv, LaneInv, NEW lane \in Lanes PROVE Ordered(Lane(lane), lane)
    BY DEF LaneOrder, Ordered
  <2>1. /\ messages \in Seq(Message) /\ pending \in Seq(Message) /\ queue[lane] \in Seq(Message)
        /\ messages \o pending \in Seq(Message)
    BY TypeParts, MessageTypes, ConcatProperties DEF TalkOK, QueueOK
  <2>2. InLane(messages, pending, queue[lane], lane, NextId) BY DEF LaneInv
  <2>3. Ordered(messages \o pending, lane) BY <2>1, <2>2, OrderedConcat DEF InLane
  <2>4. Before(messages \o pending, queue[lane], lane) BY <2>1, <2>2, BeforeConcat DEF InLane
  <2>. QED BY <2>1, <2>2, <2>3, <2>4, OrderedConcat DEF InLane, Lane
<1>. QED BY <1>1, InitType, NextType, InitLanes, LanesHold, PTL DEF Spec

-----------------------------------------------------------------------------
(***************************************************************************)
(* Input is lost by an abort only.  Every way a run ends drops what was    *)
(* about to be spoken; outside an abort and a failure there is nothing.    *)
(***************************************************************************)
SpeechInv ==
  /\ pc \notin {"setup", "prompts", "inject", "failed"} => pending = <<>>
  /\ pc = "setup" /\ entry # "prompt" => pending = <<>>

LEMMA InitSpeech == Init => SpeechInv
BY DEF Init, SpeechInv

LEMMA SpeechStep == TypeInv /\ SpeechInv /\ [Next]_vars => SpeechInv'
<1>. SUFFICES ASSUME TypeInv, SpeechInv, [Next]_vars PROVE SpeechInv' OBVIOUS
<1>1. UNCHANGED <<pc, entry, pending>> => SpeechInv' BY DEF SpeechInv
<1>2. pending' = <<>> => SpeechInv' BY DEF SpeechInv
<1>3. pc' \in {"prompts", "inject", "failed"} => SpeechInv' BY DEF SpeechInv
<1>4. pc \notin {"setup", "prompts", "inject", "failed"} /\ UNCHANGED pending => SpeechInv'
  BY DEF SpeechInv
<1>5. /\ FinishRun => SpeechInv'
      /\ FailRun => SpeechInv'
      /\ CancelledRun => SpeechInv'
      /\ AbortTurn => SpeechInv'
  BY <1>2, <1>3 DEF FinishRun, FailRun, CancelledRun, AbortTurn
<1>. HIDE DEF SpeechInv
<1>6. CASE UNCHANGED vars BY <1>1, <1>6 DEF vars
<1>7. CASE Caller
  <2>1. ASSUME NEW d \in Deliver, Prompt(d) PROVE SpeechInv'
    BY <2>1 DEF Prompt, StartRun, SpeechInv
  <2>2. ASSUME NEW d \in Deliver, ContinueRun(d) PROVE SpeechInv'
    BY <1>2, <2>2 DEF ContinueRun, StartRun
  <2>. QED BY <1>1, <1>7, <2>1, <2>2 DEF Caller, Enqueue, ClearQueues, Abort, scope
<1>8. CASE Tool \/ ForceCancel
  BY <1>1, <1>8 DEF Tool, ToolCompletes, ToolCancelled, ToolStep, OrphanEnds, ForceCancel, scope
<1>9. CASE SetUp BY <1>3, <1>5, <1>9 DEF SetUp
<1>10. CASE EmitPrompt \/ Inject BY <1>3, <1>10 DEF EmitPrompt, Inject
<1>11. CASE FirstPoll
  <2>1. CASE aborted BY <1>5, <1>11, <2>1 DEF FirstPoll, EnterTurn
  <2>2. CASE ~aborted BY <1>2, <1>3, <1>11, <2>2 DEF FirstPoll, EnterTurn
  <2>. QED BY <2>1, <2>2
<1>12. CASE CallModel BY <1>2, <1>5, <1>12 DEF CallModel
<1>13. CASE ModelReplies \/ ModelAborts \/ ModelCancelled \/ \E n \in 1..MaxTools : ModelCallsTools(n)
  BY <1>4, <1>5, <1>13 DEF ModelReplies, ModelAborts, ModelCancelled, ModelCallsTools, Reply
<1>14. CASE ReplyEnded BY <1>4, <1>5, <1>14 DEF ReplyEnded
<1>15. CASE PreparedImmediate \/ PreparedCall \/ OutcomeEnded \/ Awaited \/ Gathered \/ AfterHook
            \/ HookCancelled \/ OutcomeCancelled \/ CutNext
  BY <1>4, <1>15 DEF PreparedImmediate, PreparedCall, OutcomeEnded, Awaited, Gathered, AfterHook,
                     HookCancelled, OutcomeCancelled, CutNext, Coordinates
<1>16. CASE BatchEnded BY <1>5, <1>16 DEF BatchEnded
<1>17. CASE TurnEnded
  <2>1. CASE EndAgent BY <1>4, <1>17, <2>1 DEF EndAgent, TurnEnded
  <2>2. ASSUME NEW input, EnterTurn(input, FALSE) PROVE SpeechInv'
    BY <1>3, <1>5, <2>2 DEF EnterTurn
  <2>. QED BY <1>17, <2>1, <2>2, Zenon DEF TurnEnded
<1>18. CASE LastTurn \/ LastTurnEnded \/ RunEnded \/ Raises \/ ListenerCancelled
  BY <1>4, <1>5, <1>18 DEF LastTurn, LastTurnEnded, EndAgent, RunEnded, Raises, ListenerCancelled
<1>. QED BY <1>6, <1>7, <1>8, <1>9, <1>10, <1>11, <1>12, <1>13, <1>14, <1>15, <1>16, <1>17, <1>18
         DEF Next, Run, Idle

\* The messages of a sequence.
Among(s) == {s[i] : i \in 1..Len(s)}

LEMMA AmongParts ==
  /\ Among(<<>>) = {}
  /\ \A s, t \in Seq(Message) : Among(s \o t) = Among(s) \cup Among(t)
  /\ \A s \in Seq(Message), x \in Message : Among(Append(s, x)) = Among(s) \cup {x}
<1>1. Among(<<>>) = {} BY DEF Among
<1>2. ASSUME NEW s \in Seq(Message), NEW t \in Seq(Message)
      PROVE  Among(s \o t) = Among(s) \cup Among(t)
  <2>1. /\ Len(s) \in Nat /\ Len(t) \in Nat /\ Len(s \o t) = Len(s) + Len(t)
        /\ \A i \in 1..Len(s) : (s \o t)[i] = s[i]
        /\ \A i \in 1..Len(t) : (s \o t)[Len(s) + i] = t[i]
    BY ConcatProperties, LenProperties
  <2>2. \A i \in 1..Len(s \o t) : i \in 1..Len(s) \/ \E k \in 1..Len(t) : i = Len(s) + k
    <3>. SUFFICES ASSUME NEW i \in 1..Len(s \o t), i \notin 1..Len(s)
         PROVE \E k \in 1..Len(t) : i = Len(s) + k
      OBVIOUS
    <3>1. i - Len(s) \in 1..Len(t) /\ i = Len(s) + (i - Len(s)) BY <2>1
    <3>. QED BY <3>1
  <2>3. \A i \in 1..Len(s) : i \in 1..Len(s \o t) BY <2>1
  <2>4. \A i \in 1..Len(t) : Len(s) + i \in 1..Len(s \o t) BY <2>1
  <2>5. ASSUME NEW x \in Among(s \o t) PROVE x \in Among(s) \cup Among(t)
    <3>1. PICK i \in 1..Len(s \o t) : x = (s \o t)[i] BY DEF Among
    <3>2. CASE i \in 1..Len(s) BY <2>1, <3>1, <3>2 DEF Among
    <3>3. CASE i \notin 1..Len(s) BY <2>1, <2>2, <3>1, <3>3 DEF Among
    <3>. QED BY <3>2, <3>3
  <2>6. Among(s) \subseteq Among(s \o t)
    <3>. SUFFICES ASSUME NEW i \in 1..Len(s) PROVE s[i] \in Among(s \o t) BY DEF Among
    <3>. QED BY <2>1, <2>3 DEF Among
  <2>7. Among(t) \subseteq Among(s \o t)
    <3>. SUFFICES ASSUME NEW i \in 1..Len(t) PROVE t[i] \in Among(s \o t) BY DEF Among
    <3>1. t[i] = (s \o t)[Len(s) + i] BY <2>1
    <3>. QED BY <2>4, <3>1 DEF Among
  <2>. QED BY <2>5, <2>6, <2>7
<1>3. ASSUME NEW s \in Seq(Message), NEW x \in Message
      PROVE  Among(Append(s, x)) = Among(s) \cup {x}
  <2>1. <<x>> \in Seq(Message) /\ Append(s, x) = s \o <<x>> BY AppendIsConcat
  <2>2. Among(<<x>>) = {x} BY DEF Among
  <2>. QED BY <1>2, <2>1, <2>2
<1>. QED BY <1>1, <1>2, <1>3

\* No message that is about to be spoken, or waits in a lane, is gone after the step.
KeepsInput == Held \subseteq Held' \cup Spoken'

LEMMA HeldParts ==
  ASSUME Among(pending) \subseteq Among(pending') \cup Among(messages'),
         \A lane \in Lanes :
           Among(queue[lane]) \subseteq
             Among(queue'[lane]) \cup Among(pending') \cup Among(messages')
  PROVE  KeepsInput
<1>1. ASSUME NEW x \in Held
      PROVE  x \in Among(pending) \/ \E lane \in Lanes : x \in Among(queue[lane])
  <2>1. PICK s \in {queue[lane] : lane \in Lanes} \cup {pending} : x \in {s[i] : i \in 1..Len(s)}
    BY DEF Held
  <2>. QED BY <2>1 DEF Among
<1>2. Among(pending') \subseteq Held' BY DEF Held, Among
<1>3. \A lane \in Lanes : Among(queue'[lane]) \subseteq Held'
  BY DEF Held, Among
<1>4. Spoken' = Among(messages') BY DEF Spoken, Among
<1>. QED BY <1>1, <1>2, <1>3, <1>4 DEF KeepsInput

LEMMA SameKeeps == UNCHANGED <<pending, queue>> => KeepsInput
BY HeldParts

LEMMA SilentKeeps == pending = <<>> /\ UNCHANGED queue => KeepsInput
BY HeldParts, AmongParts

LEMMA SpeakingKeeps ==
  ASSUME TypeInv, pending # <<>>, UNCHANGED queue,
         messages' = Append(messages, Head(pending)), pending' = Tail(pending)
  PROVE  KeepsInput
<1>1. messages \in Seq(Message) /\ pending \in Seq(Message)
  BY TypeParts, MessageTypes DEF TalkOK
<1>2. /\ Head(pending) \in Message /\ Tail(pending) \in Seq(Message)
      /\ <<Head(pending)>> \in Seq(Message) /\ pending = <<Head(pending)>> \o Tail(pending)
  BY <1>1, FirstApart
<1>3. Among(pending) = {Head(pending)} \cup Among(Tail(pending))
  <2>1. Among(<<Head(pending)>>) = {Head(pending)} BY DEF Among
  <2>2. Among(<<Head(pending)>> \o Tail(pending)) = Among(<<Head(pending)>>) \cup Among(Tail(pending))
    BY <1>2, AmongParts
  <2>. QED BY <1>2, <2>1, <2>2
<1>4. Among(messages') = Among(messages) \cup {Head(pending)} BY <1>1, <1>2, AmongParts
<1>. QED BY <1>3, <1>4, HeldParts

\* Drains into what is about to be spoken.
LEMMA SplitAmong ==
  ASSUME TypeInv, NEW lane \in Lanes
  PROVE  Among(queue[lane]) = Among(Taken(lane)) \cup Among(Left(lane))
<1>1. queue[lane] \in Seq(Message) /\ Taken(lane) \in Seq(Message) /\ Left(lane) \in Seq(Message)
  BY TypeParts, DrainType, MessageTypes DEF QueueOK
<1>2. queue[lane] = Taken(lane) \o Left(lane)
  <2>1. CASE DrainsAll(lane) \/ queue[lane] = <<>>
    BY <1>1, <2>1, ConcatEmptySeq DEF Taken, Left
  <2>2. CASE ~ (DrainsAll(lane) \/ queue[lane] = <<>>)
    BY <1>1, <2>2, FirstApart DEF Taken, Left
  <2>. QED BY <2>1, <2>2
<1>3. Among(Taken(lane) \o Left(lane)) = Among(Taken(lane)) \cup Among(Left(lane))
  BY <1>1, AmongParts
<1>. QED BY <1>2, <1>3

LEMMA DrainKeeps ==
  ASSUME TypeInv, pending = <<>>, NEW from \in Lanes, pending' = Taken(from),
         queue' = [queue EXCEPT ![from] = Left(from)]
  PROVE  KeepsInput
<1>1. \A lane \in Lanes : queue'[lane] = IF lane = from THEN Left(from) ELSE queue[lane]
  BY TypeParts DEF QueueOK
<1>2. Among(queue[from]) = Among(Taken(from)) \cup Among(Left(from)) BY SplitAmong
<1>. QED BY <1>1, <1>2, HeldParts, AmongParts

LEMMA PollKeeps ==
  ASSUME TypeInv, pending = <<>>, NEW skip \in BOOLEAN, pending' = Immediate(skip),
         queue' = AfterImmediate(skip)
  PROVE  KeepsInput
<1>1. CASE ~deliver BY <1>1, SilentKeeps DEF AfterImmediate
<1>2. CASE deliver
  <2>. DEFINE mail == queue["mailbox"]
              steer == IF skip THEN <<>> ELSE Taken("steering")
  <2>1. mail \in Seq(Message) /\ steer \in Seq(Message)
    <3>1. Taken("steering") \in Seq(UserMessage) BY TypeParts, DrainType DEF Lanes
    <3>2. <<>> \in Seq(Message) OBVIOUS
    <3>. QED BY <3>1, <3>2, TypeParts, MessageTypes DEF QueueOK, Lanes
  <2>2. Among(pending') = Among(mail) \cup Among(steer)
    BY <1>2, <2>1, AmongParts DEF Immediate
  <2>3. \A lane \in Lanes :
          queue'[lane] = CASE lane = "mailbox" -> <<>>
                           [] lane = "steering" -> IF skip THEN queue[lane] ELSE Left("steering")
                           [] lane = "follow_up" -> queue[lane]
    BY <1>2, TypeParts DEF AfterImmediate, QueueOK, Lanes
  <2>4. Among(queue["steering"]) = Among(Taken("steering")) \cup Among(Left("steering"))
    BY SplitAmong DEF Lanes
  <2>. HIDE DEF mail
  <2>5. ASSUME NEW lane \in Lanes
        PROVE  Among(queue[lane]) \subseteq
                 Among(queue'[lane]) \cup Among(pending') \cup Among(messages')
    <3>1. CASE lane = "mailbox" BY <2>2, <3>1 DEF mail
    <3>2. CASE lane = "steering" BY <2>2, <2>3, <2>4, <3>2
    <3>3. CASE lane = "follow_up" BY <2>3, <3>3
    <3>. QED BY <3>1, <3>2, <3>3 DEF Lanes
  <2>. QED BY <2>5, HeldParts, AmongParts
<1>. QED BY <1>1, <1>2

\* One step, unless the caller clears the queues, the run is aborted, or it failed.
LEMMA InputStays ==
  ASSUME TypeInv, SpeechInv, [Next]_vars, ~ClearQueues, ~ListenerCancelled, ~aborted, pc # "failed"
  PROVE  KeepsInput
<1>1. pending = <<>> /\ UNCHANGED queue => KeepsInput BY SilentKeeps
<1>2. UNCHANGED <<pending, queue>> => KeepsInput BY SameKeeps
<1>3. CASE UNCHANGED vars BY <1>2, <1>3 DEF vars
<1>4. CASE Caller
  <2>1. ASSUME NEW d \in Deliver, Prompt(d) \/ ContinueRun(d) PROVE KeepsInput
    <3>1. pc = "idle" /\ UNCHANGED queue BY <2>1 DEF Prompt, ContinueRun, StartRun
    <3>. QED BY <1>1, <3>1 DEF SpeechInv
  <2>2. ASSUME NEW to \in Lanes, Enqueue(to) PROVE KeepsInput
    <3>1. \A lane \in Lanes :
            queue'[lane] = IF lane = to THEN Append(queue[lane], User(to, NextId)) ELSE queue[lane]
      BY <2>2, TypeParts DEF Enqueue, QueueOK
    <3>2. User(to, NextId) \in Message BY TypeParts, NextIdType, MessageTypes
    <3>3. \A lane \in Lanes : queue[lane] \in Seq(Message)
      BY TypeParts, MessageTypes DEF QueueOK
    <3>4. \A lane \in Lanes : Among(queue[lane]) \subseteq Among(queue'[lane])
      BY <3>1, <3>2, <3>3, AmongParts
    <3>5. UNCHANGED pending BY <2>2 DEF Enqueue
    <3>. QED BY <3>4, <3>5, HeldParts
  <2>. QED BY <1>2, <1>4, <2>1, <2>2 DEF Caller, Abort, inputs
<1>5. CASE Tool \/ ForceCancel
  BY <1>2, <1>5 DEF Tool, ToolCompletes, ToolCancelled, ToolStep, OrphanEnds, ForceCancel, inputs
<1>6. CASE SetUp
  <2>1. CASE entry \in Lanes
    <3>1. pending = <<>> BY <1>6, <2>1 DEF SetUp, SpeechInv, Lanes
    <3>2. CASE UNCHANGED queue BY <1>1, <3>1, <3>2
    <3>3. CASE pending' = Taken(entry) /\ queue' = [queue EXCEPT ![entry] = Left(entry)]
      BY <2>1, <3>1, <3>3, DrainKeeps
    <3>. QED BY <1>6, <2>1, <3>2, <3>3 DEF SetUp, FailRun
  <2>2. CASE entry \notin Lanes BY <1>2, <1>6, <2>2 DEF SetUp, FailRun
  <2>. QED BY <2>1, <2>2
<1>7. CASE EmitPrompt \/ Inject BY <1>7, SpeakingKeeps DEF EmitPrompt, Inject, inputs
<1>8. CASE FirstPoll
  BY <1>8, PollKeeps DEF FirstPoll, EnterTurn
<1>9. CASE CallModel BY <1>1, <1>9 DEF CallModel, inputs
<1>10. pc \notin {"setup", "prompts", "inject"} => pending = <<>> BY DEF SpeechInv
<1>11. CASE ModelReplies \/ ModelAborts \/ ModelCancelled \/ \E n \in 1..MaxTools : ModelCallsTools(n)
  BY <1>1, <1>10, <1>11
  DEF ModelReplies, ModelAborts, ModelCancelled, CancelledRun, ModelCallsTools, Reply, inputs
<1>12. CASE ReplyEnded BY <1>1, <1>10, <1>12 DEF ReplyEnded, inputs
<1>13. CASE PreparedImmediate \/ PreparedCall \/ OutcomeEnded \/ Awaited \/ Gathered \/ AfterHook
            \/ HookCancelled \/ OutcomeCancelled \/ CutNext
  BY <1>2, <1>13 DEF PreparedImmediate, PreparedCall, OutcomeEnded, Awaited, Gathered, AfterHook,
                     HookCancelled, OutcomeCancelled, CutNext, Coordinates
<1>14. CASE BatchEnded BY <1>1, <1>10, <1>14 DEF BatchEnded, CancelledRun, FailRun
<1>15. CASE TurnEnded
  <2>1. pending = <<>> BY <1>10, <1>15 DEF TurnEnded
  <2>2. CASE EndAgent BY <1>2, <2>2 DEF EndAgent
  <2>3. CASE pending' = Immediate(FALSE) /\ queue' = AfterImmediate(FALSE)
    BY <2>1, <2>3, PollKeeps
  <2>4. CASE /\ pending' = Taken("follow_up")
             /\ queue' = [queue EXCEPT !["follow_up"] = Left("follow_up")]
    BY <2>1, <2>4, DrainKeeps DEF Lanes
  <2>5. \A input : EnterTurn(input, FALSE) => pending' = input BY DEF EnterTurn
  <2>6. \/ EndAgent
        \/ EnterTurn(Immediate(FALSE), FALSE) /\ queue' = AfterImmediate(FALSE)
        \/ /\ deliver /\ EnterTurn(Taken("follow_up"), FALSE)
           /\ queue' = [queue EXCEPT !["follow_up"] = Left("follow_up")]
    BY <1>15, Zenon DEF TurnEnded
  <2>. QED BY <2>2, <2>3, <2>4, <2>5, <2>6
<1>16. CASE LastTurn \/ LastTurnEnded \/ RunEnded
  BY <1>1, <1>10, <1>16 DEF LastTurn, LastTurnEnded, EndAgent, RunEnded, inputs
<1>17. CASE Raises BY <1>2, <1>17 DEF Raises, FailRun
<1>. QED BY <1>3, <1>4, <1>5, <1>6, <1>7, <1>8, <1>9, <1>11, <1>12, <1>13, <1>14, <1>15, <1>16, <1>17
         DEF Next, Run, Idle

\* Accepted input disappears only when the caller clears the queues, the run is aborted,
\* or the run failed, or was cancelled by a listener, while it was speaking the input: no
\* other end of a run, and no drain, drops any.
THEOREM InputIsKept == Spec => InputLostOnlyByAbort
<1>1. TypeInv /\ SpeechInv /\ [Next]_vars
        => [\/ Held \subseteq Held' \cup Spoken'
            \/ ClearQueues \/ ListenerCancelled \/ aborted \/ pc = "failed"]_vars
  BY InputStays DEF KeepsInput
<1>. QED BY <1>1, InitType, NextType, InitSpeech, SpeechStep, PTL DEF Spec, InputLostOnlyByAbort

-----------------------------------------------------------------------------
(***************************************************************************)
(* Calls and results.  The results of a batch stand directly behind the    *)
(* message that called.  While the batch executes they are the ones its    *)
(* statuses say, but for a result whose announcement was cancelled: it is  *)
(* spoken and not collected.  A batch is left complete, in front of a      *)
(* message that closes the run, or where a listener was cancelled.         *)
(***************************************************************************)

\* The results behind the calls of message k of s reach to position e: they answer
\* calls of that message, and twice only where T says and then with an aborted result.
Group(s, k, e, T) ==
  /\ e \in k .. Len(s)
  /\ \A x \in k + 1 .. e : s[x].role = "result" /\ s[x].call \in 1 .. s[k].calls
  /\ \A x, y \in k + 1 .. e :
       x < y /\ s[x].call = s[y].call => x \in T /\ s[y].kind = "aborted"
  /\ e < Len(s) => s[e + 1].role # "result"

CallsIn(s, k, e) == {s[x].call : x \in k + 1 .. e}
Closes(x) == x.role = "assistant" /\ x.stop \in {"error", "aborted"}
\* No more results are due behind position e for message k.
Settled(s, k, e, T) ==
  \/ s[k].stop # "toolUse" /\ e = k
  \/ s[k].stop = "toolUse" /\ CallsIn(s, k, e) = 1 .. s[k].calls
  \/ e < Len(s) /\ Closes(s[e + 1])
  \/ e \in T
Paired(s, k, T) == \E e \in k .. Len(s) : Group(s, k, e, T) /\ Settled(s, k, e, T)
\* Nothing but its results is behind message k.
Latest(s, k, T) == Group(s, k, Len(s), T)

\* Every result of s is behind a message that called.
Rooted(s) ==
  \A j \in 1..Len(s) : s[j].role = "result" =>
    \E k \in CallsAt(s) : k < j /\ \A x \in k + 1 .. j : s[x].role = "result"

\* The batch of message k executes: its statuses say which results are behind it, but
\* for a result whose announcement was cancelled, which leaves its call open.
Executes(k) ==
  /\ Latest(messages, k, torn) /\ messages[k].stop = "toolUse"
  /\ Calls = 1 .. messages[k].calls
  /\ In("result") \subseteq CallsIn(messages, k, Len(messages))
  /\ \A y \in k + 1 .. Len(messages) :
       messages[y].call \in In("result") \/ (y \in torn /\ reraise)

Executing == Batch \cup {"reply"}
PairInv ==
  /\ Rooted(messages)
  /\ \A k \in CallsAt(messages) :
       Paired(messages, k, torn) \/ (pc \in Executing /\ Latest(messages, k, torn))
  /\ pc \in Batch => \E k \in CallsAt(messages) : Executes(k)
  /\ pc = "outcome" =>
       /\ messages # <<>> /\ Final(messages).role = "result"
       /\ Final(messages).call = cur
  /\ pc = "reply" =>
       /\ messages # <<>> /\ Final(messages).role = "assistant"
       /\ Final(messages).calls \in 0 .. MaxTools
       /\ Final(messages).stop = "toolUse" => Final(messages).calls > 0
       /\ Final(messages).calls > 0 => Final(messages).stop # "stop"

\* More announcements cancelled excuse more.
LEMMA MoreTorn ==
  ASSUME NEW s, NEW k, NEW T, NEW U, T \subseteq U
  PROVE  /\ \A e : Group(s, k, e, T) => Group(s, k, e, U)
         /\ Latest(s, k, T) => Latest(s, k, U)
         /\ Paired(s, k, T) => Paired(s, k, U)
<1>1. \A e : Group(s, k, e, T) => Group(s, k, e, U) BY DEF Group
<1>2. \A e : Settled(s, k, e, T) => Settled(s, k, e, U) BY DEF Settled
<1>. QED BY <1>1, <1>2 DEF Latest, Paired

LEMMA Behind ==
  ASSUME NEW s \in Seq(Message), NEW x \in Message
  PROVE  /\ Len(s) \in Nat /\ Append(s, x) \in Seq(Message) /\ Len(Append(s, x)) = Len(s) + 1
         /\ \A i \in 1..Len(s) : Append(s, x)[i] = s[i]
         /\ Append(s, x)[Len(s) + 1] = x
BY AppendProperties, LenProperties

\* A message that is no result ends the results in front of it.
LEMMA OtherBehind ==
  ASSUME NEW T, NEW s \in Seq(Message), NEW x \in Message, x.role # "result", Rooted(s)
  PROVE  /\ Rooted(Append(s, x))
         /\ CallsAt(Append(s, x)) \subseteq CallsAt(s) \cup {Len(s) + 1}
         /\ (x.role = "assistant" /\ x.calls > 0) \/ Len(s) + 1 \notin CallsAt(Append(s, x))
         /\ \A k \in CallsAt(s) : Paired(s, k, T) => Paired(Append(s, x), k, T)
         /\ Closes(x) => \A k \in CallsAt(s) : Latest(s, k, T) => Paired(Append(s, x), k, T)
<1>. DEFINE t == Append(s, x)
<1>1. /\ Len(s) \in Nat /\ Len(t) = Len(s) + 1
      /\ \A i \in 1..Len(s) : t[i] = s[i]
      /\ t[Len(s) + 1] = x
  BY Behind
<1>. HIDE DEF t
<1>2. Rooted(t)
  <2>. SUFFICES ASSUME NEW j \in 1..Len(t), t[j].role = "result"
       PROVE \E k \in CallsAt(t) : k < j /\ \A y \in k + 1 .. j : t[y].role = "result"
    BY DEF Rooted
  <2>1. j \in 1..Len(s) /\ s[j].role = "result" BY <1>1
  <2>2. PICK k \in CallsAt(s) : k < j /\ \A y \in k + 1 .. j : s[y].role = "result"
    BY <2>1 DEF Rooted
  <2>3. k \in 1..Len(s) /\ \A y \in k + 1 .. j : y \in 1..Len(s) BY <1>1, <2>1, <2>2 DEF CallsAt
  <2>4. k \in CallsAt(t) BY <1>1, <2>2, <2>3 DEF CallsAt
  <2>. QED BY <1>1, <2>2, <2>3, <2>4
<1>3. CallsAt(t) \subseteq CallsAt(s) \cup {Len(s) + 1} BY <1>1 DEF CallsAt
<1>4. (x.role = "assistant" /\ x.calls > 0) \/ Len(s) + 1 \notin CallsAt(t)
  BY <1>1 DEF CallsAt
<1>5. ASSUME NEW k \in CallsAt(s), NEW e \in k .. Len(s), Group(s, k, e, T)
      PROVE  Group(t, k, e, T) /\ CallsIn(t, k, e) = CallsIn(s, k, e) /\ t[k] = s[k]
             /\ e \in k .. Len(t)
  <2>1. k \in 1..Len(s) BY DEF CallsAt
  <2>2. \A y \in k + 1 .. e : y \in 1..Len(s) /\ t[y] = s[y] BY <1>1, <2>1
  <2>3. t[k] = s[k] BY <1>1, <2>1
  <2>4. e < Len(t) => t[e + 1].role # "result"
    <3>1. CASE e < Len(s)
      <4>1. e + 1 \in 1..Len(s) BY <1>1, <2>1, <3>1
      <4>. QED BY <1>1, <1>5, <3>1, <4>1 DEF Group
    <3>2. CASE e = Len(s) BY <1>1, <3>2
    <3>. QED BY <1>1, <2>1, <3>1, <3>2
  <2>5. e \in k .. Len(t) BY <1>1, <2>1
  <2>6. Group(t, k, e, T) BY <1>5, <2>2, <2>3, <2>4, <2>5 DEF Group
  <2>7. CallsIn(t, k, e) = CallsIn(s, k, e) BY <2>2 DEF CallsIn
  <2>. QED BY <2>3, <2>5, <2>6, <2>7
<1>6. ASSUME NEW k \in CallsAt(s), Paired(s, k, T) PROVE Paired(t, k, T)
  <2>1. PICK e \in k .. Len(s) :
          /\ Group(s, k, e, T)
          /\ Settled(s, k, e, T)
    BY <1>6 DEF Paired
  <2>2. Group(t, k, e, T) /\ CallsIn(t, k, e) = CallsIn(s, k, e) /\ t[k] = s[k] /\ e \in k .. Len(t)
    BY <1>5, <2>1
  <2>3. CASE ~ (e < Len(s) /\ Closes(s[e + 1])) BY <2>1, <2>2, <2>3 DEF Paired, Settled
  <2>4. CASE e < Len(s) /\ Closes(s[e + 1])
    <3>1. k \in 1..Len(s) BY DEF CallsAt
    <3>2. e + 1 \in 1..Len(s) /\ e < Len(t) BY <1>1, <2>4, <3>1
    <3>3. t[e + 1] = s[e + 1] BY <1>1, <3>2
    <3>. QED BY <2>2, <2>4, <3>2, <3>3 DEF Paired, Settled
  <2>. QED BY <2>1, <2>3, <2>4
<1>7. ASSUME Closes(x), NEW k \in CallsAt(s), Latest(s, k, T) PROVE Paired(t, k, T)
  <2>1. k \in 1..Len(s) BY DEF CallsAt
  <2>2. Len(s) \in k .. Len(s) BY <1>1, <2>1
  <2>3. Group(t, k, Len(s), T) /\ Len(s) \in k .. Len(t) BY <1>5, <1>7, <2>2 DEF Latest
  <2>4. Len(s) < Len(t) /\ Closes(t[Len(s) + 1]) BY <1>1, <1>7
  <2>. QED BY <2>3, <2>4 DEF Paired, Settled
<1>. QED BY <1>2, <1>3, <1>4, <1>6, <1>7 DEF t

\* Only the last message that called has its results at the end.
LEMMA LatestAlone ==
  ASSUME NEW T, NEW s \in Seq(Message), NEW k \in CallsAt(s), Latest(s, k, T), NEW j \in CallsAt(s),
         NEW e \in j .. Len(s), Group(s, j, e, T), j # k
  PROVE  e < Len(s)
<1>1. Len(s) \in Nat /\ k \in 1..Len(s) /\ j \in 1..Len(s) BY LenProperties DEF CallsAt
<1>2. s[k].role = "assistant" /\ s[j].role = "assistant" BY DEF CallsAt
<1>3. CASE k < j
  <2>1. j \in k + 1 .. Len(s) BY <1>1, <1>3
  <2>2. s[j].role = "result" BY <2>1 DEF Latest, Group
  <2>. QED BY <1>2, <2>2
<1>4. CASE j < k /\ e = Len(s)
  <2>1. k \in j + 1 .. e BY <1>1, <1>4
  <2>2. s[k].role = "result" BY <2>1 DEF Group
  <2>. QED BY <1>2, <2>2
<1>. QED BY <1>1, <1>3, <1>4

\* The results that x repeats are excused by T, and x is an aborted one.
Excused(s, k, x, T) ==
  \A y \in k + 1 .. Len(s) : s[y].call = x.call => y \in T /\ x.kind = "aborted"

\* A result of a call that has none, or whose result is excused, goes behind the ones
\* of its batch.
LEMMA ResultBehind ==
  ASSUME NEW T, NEW s \in Seq(Message), Rooted(s), NEW k \in CallsAt(s), Latest(s, k, T),
         NEW x \in Message, x.role = "result", x.call \in 1 .. s[k].calls,
         Excused(s, k, x, T)
  PROVE  /\ Rooted(Append(s, x)) /\ CallsAt(Append(s, x)) = CallsAt(s)
         /\ Latest(Append(s, x), k, T) /\ Append(s, x)[k] = s[k]
         /\ CallsIn(Append(s, x), k, Len(Append(s, x))) = CallsIn(s, k, Len(s)) \cup {x.call}
         /\ \A j \in CallsAt(s) \ {k} : Paired(s, j, T) => Paired(Append(s, x), j, T)
<1>. DEFINE t == Append(s, x)
<1>1. /\ Len(s) \in Nat /\ Len(t) = Len(s) + 1
      /\ \A i \in 1..Len(s) : t[i] = s[i]
      /\ t[Len(s) + 1] = x
  BY Behind
<1>. HIDE DEF t
<1>2. k \in 1..Len(s) /\ k \in Nat /\ t[k] = s[k] BY <1>1 DEF CallsAt
<1>3. CallsAt(t) = CallsAt(s) BY <1>1 DEF CallsAt
<1>4. \A y \in k + 1 .. Len(t) : \/ y \in k + 1 .. Len(s) /\ t[y] = s[y]
                                 \/ y = Len(s) + 1 /\ t[y] = x
  BY <1>1, <1>2
<1>5. \A y \in k + 1 .. Len(s) : s[y].role = "result" /\ s[y].call \in 1 .. s[k].calls
  BY DEF Latest, Group
<1>6. Rooted(t)
  <2>. SUFFICES ASSUME NEW j \in 1..Len(t), t[j].role = "result"
       PROVE \E i \in CallsAt(t) : i < j /\ \A y \in i + 1 .. j : t[y].role = "result"
    BY DEF Rooted
  <2>1. CASE j = Len(t)
    <3>1. k < j BY <1>1, <1>2, <2>1
    <3>2. \A y \in k + 1 .. j : t[y].role = "result" BY <1>4, <1>5, <2>1
    <3>. QED BY <1>3, <3>1, <3>2
  <2>2. CASE j # Len(t)
    <3>1. j \in 1..Len(s) /\ s[j].role = "result" BY <1>1, <2>2
    <3>2. PICK i \in CallsAt(s) : i < j /\ \A y \in i + 1 .. j : s[y].role = "result"
      BY <3>1 DEF Rooted
    <3>3. \A y \in i + 1 .. j : y \in 1..Len(s) BY <1>1, <3>1, <3>2 DEF CallsAt
    <3>. QED BY <1>1, <1>3, <3>2, <3>3
  <2>. QED BY <2>1, <2>2
<1>7. Latest(t, k, T)
  <2>1. Len(t) \in k .. Len(t) BY <1>1, <1>2
  <2>2. \A y \in k + 1 .. Len(t) : t[y].role = "result" /\ t[y].call \in 1 .. t[k].calls
    BY <1>2, <1>4, <1>5
  <2>3. ASSUME NEW y \in k + 1 .. Len(t), NEW z \in k + 1 .. Len(t), y < z,
               t[y].call = t[z].call
        PROVE  y \in T /\ t[z].kind = "aborted"
    <3>1. \A u, v \in k + 1 .. Len(s) :
            u < v /\ s[u].call = s[v].call => u \in T /\ s[v].kind = "aborted"
      BY DEF Latest, Group
    <3>2. y \in k + 1 .. Len(s) /\ t[y] = s[y] BY <1>1, <1>2, <2>3
    <3>. QED BY <1>4, <2>3, <3>1, <3>2 DEF Excused
  <2>. QED BY <2>1, <2>2, <2>3 DEF Latest, Group
<1>8. CallsIn(t, k, Len(t)) = CallsIn(s, k, Len(s)) \cup {x.call}
  <2>1. \A y \in k + 1 .. Len(s) : y \in k + 1 .. Len(t) /\ t[y] = s[y] BY <1>1, <1>2
  <2>2. Len(s) + 1 \in k + 1 .. Len(t) BY <1>1, <1>2
  <2>3. CallsIn(t, k, Len(t)) \subseteq CallsIn(s, k, Len(s)) \cup {x.call}
    BY <1>4 DEF CallsIn
  <2>4. CallsIn(s, k, Len(s)) \subseteq CallsIn(t, k, Len(t))
    BY <2>1 DEF CallsIn
  <2>5. x.call \in CallsIn(t, k, Len(t)) BY <1>1, <2>2 DEF CallsIn
  <2>. QED BY <2>3, <2>4, <2>5
<1>9. ASSUME NEW j \in CallsAt(s) \ {k}, Paired(s, j, T) PROVE Paired(t, j, T)
  <2>1. PICK e \in j .. Len(s) :
          /\ Group(s, j, e, T)
          /\ Settled(s, j, e, T)
    BY <1>9 DEF Paired
  <2>2. e < Len(s) BY <2>1, LatestAlone
  <2>3. j \in 1..Len(s) BY DEF CallsAt
  <2>4. /\ e + 1 \in 1..Len(s) /\ e \in j .. Len(t) /\ e < Len(t)
        /\ t[j] = s[j] /\ t[e + 1] = s[e + 1] /\ \A y \in j + 1 .. e : t[y] = s[y]
    <3>1. e \in Nat /\ j <= e BY <2>3
    <3>2. e + 1 \in 1..Len(s) /\ e \in j .. Len(t) /\ e < Len(t) BY <1>1, <2>2, <2>3, <3>1
    <3>3. \A y \in j .. e : y \in 1..Len(s) BY <1>1, <2>2, <2>3, <3>1
    <3>. QED BY <1>1, <2>3, <3>1, <3>2, <3>3
  <2>5. Group(t, j, e, T) BY <2>1, <2>2, <2>4 DEF Group
  <2>6. CallsIn(t, j, e) = CallsIn(s, j, e) BY <2>4 DEF CallsIn
  <2>. QED BY <2>1, <2>4, <2>5, <2>6 DEF Paired, Settled
<1>. QED BY <1>2, <1>3, <1>6, <1>7, <1>8, <1>9 DEF t

LEMMA InitPairs == Init => PairInv
BY DEF Init, PairInv, Rooted, CallsAt, Executing, Batch

\* The transcript stays: outside an execution, or at the same suspension point of it.
LEMMA SamePairs ==
  ASSUME PairInv, UNCHANGED <<messages, torn>>,
         \/ pc \notin Executing /\ pc' \notin Executing
         \/ UNCHANGED <<pc, status, cur, reraise>>
  PROVE  PairInv'
<1>1. CASE pc \notin Executing /\ pc' \notin Executing
  BY <1>1 DEF PairInv, Executing, Batch
<1>2. CASE UNCHANGED <<pc, status, cur, reraise>>
  BY <1>2 DEF PairInv, Executes, Calls, In
<1>. QED BY <1>1, <1>2

\* A listener's CancelledError leaves the run where it is.
LEMMA TornPairs ==
  ASSUME TypeInv, PairInv, UNCHANGED messages, torn' = torn \cup {Len(messages)},
         pc' \notin Executing
  PROVE  PairInv'
<1>1. ASSUME NEW k \in CallsAt(messages) PROVE Paired(messages, k, torn')
  <2>1. CASE Paired(messages, k, torn) BY <2>1, MoreTorn
  <2>2. CASE Latest(messages, k, torn)
    <3>1. Group(messages, k, Len(messages), torn') BY <2>2, MoreTorn DEF Latest
    <3>2. Len(messages) \in k .. Len(messages) BY <3>1 DEF Group
    <3>3. Settled(messages, k, Len(messages), torn') BY DEF Settled
    <3>. QED BY <3>1, <3>2, <3>3 DEF Paired
  <2>. QED BY <2>1, <2>2 DEF PairInv
<1>. QED BY <1>1 DEF PairInv, Executing, Batch

\* Input is spoken outside an execution.
LEMMA SpeaksPairs ==
  ASSUME TypeInv, PairInv, pc \notin Executing, pc' \notin Executing, UNCHANGED torn,
         NEW x \in Message,
         x.role = "user", messages' = Append(messages, x)
  PROVE  PairInv'
<1>1. messages \in Seq(Message) BY TypeParts DEF TalkOK
<1>2. /\ Rooted(messages') /\ CallsAt(messages') \subseteq CallsAt(messages)
      /\ \A k \in CallsAt(messages) : Paired(messages, k, torn) => Paired(messages', k, torn)
  BY <1>1, OtherBehind DEF PairInv
<1>3. \A k \in CallsAt(messages) : Paired(messages, k, torn) BY DEF PairInv
<1>. QED BY <1>2, <1>3 DEF PairInv, Executing, Batch

\* A message that closes a turn, wherever it finds the run.
LEMMA ClosesPairs ==
  ASSUME TypeInv, PairInv, pc' \notin Executing, UNCHANGED torn, NEW stop \in {"error", "aborted"},
         messages' = Append(messages, Assistant(stop, 0))
  PROVE  PairInv'
<1>. DEFINE x == Assistant(stop, 0)
<1>1. messages \in Seq(Message) /\ x \in Message BY TypeParts, MessageTypes DEF TalkOK, StopReason
<1>2. x.role = "assistant" /\ x.calls = 0 /\ Closes(x) BY DEF Assistant, Closes
<1>5. messages' = Append(messages, x) OBVIOUS
<1>6. Rooted(messages) BY DEF PairInv
<1>. HIDE DEF x
<1>3. /\ Rooted(messages') /\ CallsAt(messages') \subseteq CallsAt(messages)
      /\ \A k \in CallsAt(messages) : Paired(messages, k, torn) => Paired(messages', k, torn)
      /\ \A k \in CallsAt(messages) : Latest(messages, k, torn) => Paired(messages', k, torn)
  <2>1. x.role # "result" /\ ~ (x.role = "assistant" /\ x.calls > 0) BY <1>2
  <2>2. Rooted(messages') /\ CallsAt(messages') \subseteq CallsAt(messages)
    BY <1>1, <1>5, <1>6, <2>1, OtherBehind
  <2>3. \A k \in CallsAt(messages) : Paired(messages, k, torn) => Paired(messages', k, torn)
    BY <1>1, <1>5, <1>6, <2>1, OtherBehind
  <2>4. \A k \in CallsAt(messages) : Latest(messages, k, torn) => Paired(messages', k, torn)
    BY <1>1, <1>2, <1>5, <1>6, <2>1, OtherBehind
  <2>. QED BY <2>2, <2>3, <2>4
<1>4. \A k \in CallsAt(messages) : Paired(messages, k, torn) \/ Latest(messages, k, torn) BY DEF PairInv
<1>. QED BY <1>3, <1>4 DEF PairInv, Executing, Batch

LEMMA EndsPairs ==
  ASSUME TypeInv, PairInv
  PROVE  /\ FinishRun /\ UNCHANGED torn /\ pc \notin Executing => PairInv'
         /\ FailRun => PairInv'
         /\ CancelledRun /\ pc \notin Executing => PairInv'
         /\ AbortTurn /\ UNCHANGED torn => PairInv'
         /\ EndAgent /\ pc \notin Executing => PairInv'
<1>1. FinishRun /\ UNCHANGED torn /\ pc \notin Executing => PairInv'
  BY SamePairs DEF FinishRun, Executing, Batch
<1>2. FailRun => PairInv' BY ClosesPairs DEF FailRun, scope, Executing, Batch
<1>3. AbortTurn /\ UNCHANGED torn => PairInv' BY ClosesPairs DEF AbortTurn, Executing, Batch
<1>4. EndAgent /\ pc \notin Executing => PairInv'
  BY SamePairs DEF EndAgent, scope, Executing, Batch
<1>. QED BY <1>1, <1>2, <1>3, <1>4 DEF CancelledRun

\* The reply of the model.
LEMMA ReplyPairs ==
  ASSUME TypeInv, PairInv, pc = "model", NEW stop \in StopReason, NEW n \in 0 .. MaxTools,
         stop = "toolUse" => n > 0, n > 0 => stop # "stop", Reply(stop, n)
  PROVE  PairInv'
<1>. DEFINE x == Assistant(stop, n)
<1>0. n \in Nat BY Bounds
<1>1. messages \in Seq(Message) /\ x \in Message BY <1>0, TypeParts, MessageTypes DEF TalkOK
<1>2. x.role = "assistant" /\ x.calls = n /\ x.stop = stop BY DEF Assistant
<1>3. messages' = Append(messages, x) /\ pc' = "reply" /\ torn' = torn BY DEF Reply, scope
<1>. HIDE DEF x
<1>4. /\ Len(messages) \in Nat /\ messages' \in Seq(Message) /\ Len(messages') = Len(messages) + 1
      /\ messages'[Len(messages) + 1] = x
  BY <1>1, <1>3, Behind
<1>5. /\ Rooted(messages') /\ CallsAt(messages') \subseteq CallsAt(messages) \cup {Len(messages) + 1}
      /\ \A k \in CallsAt(messages) : Paired(messages, k, torn) => Paired(messages', k, torn)
  BY <1>1, <1>2, <1>3, OtherBehind DEF PairInv
<1>6. \A k \in CallsAt(messages) : Paired(messages, k, torn) BY DEF PairInv, Executing, Batch
<1>7. Latest(messages', Len(messages) + 1, torn) BY <1>4 DEF Latest, Group
<1>8. messages' # <<>> /\ Final(messages') = x BY <1>4 DEF Final
<1>9. pc' \in Executing /\ pc' \notin Batch BY <1>3 DEF Executing, Batch
<1>. QED BY <1>2, <1>3, <1>5, <1>6, <1>7, <1>8, <1>9 DEF PairInv

LEMMA OutsidePairs ==
  ASSUME TypeInv, PairInv,
         \/ Caller \/ OrphanEnds \/ SetUp \/ EmitPrompt \/ FirstPoll \/ Inject \/ CallModel
         \/ ModelReplies \/ ModelAborts \/ ModelCancelled
         \/ \E n \in 1..MaxTools : ModelCallsTools(n)
         \/ BatchEnded \/ TurnEnded \/ LastTurn \/ LastTurnEnded \/ RunEnded \/ Raises
         \/ ListenerCancelled
  PROVE  PairInv'
<1>1. CASE Caller
  BY <1>1, SamePairs
  DEF Caller, Prompt, ContinueRun, StartRun, Enqueue, ClearQueues, Abort, scope, batch, Executing, Batch
<1>2. CASE OrphanEnds BY <1>2, SamePairs DEF OrphanEnds, scope, batch
<1>3. CASE SetUp
  <2>1. pc \notin Executing BY <1>3 DEF SetUp, Executing, Batch
  <2>. QED BY <1>3, <2>1, EndsPairs, SamePairs DEF SetUp, scope, Executing, Batch
<1>4. CASE EmitPrompt \/ Inject
  <2>1. pending \in Seq(UserMessage) /\ pending # <<>>
    BY <1>4, TypeParts DEF EmitPrompt, Inject, TalkOK
  <2>2. Head(pending) \in UserMessage BY <2>1, HeadTailProperties
  <2>3. Head(pending) \in Message /\ Head(pending).role = "user"
    BY <2>2, MessageTypes DEF UserMessage
  <2>. QED BY <1>4, <2>3, SpeaksPairs DEF EmitPrompt, Inject, scope, Executing, Batch
<1>5. CASE FirstPoll \/ CallModel
  BY <1>5, EndsPairs, SamePairs DEF FirstPoll, EnterTurn, CallModel, scope, Executing, Batch
<1>6. CASE ModelReplies
  <2>1. 0 \in 0 .. MaxTools BY Bounds
  <2>. QED BY <1>6, <2>1, ReplyPairs DEF ModelReplies, StopReason
<1>7. CASE ModelAborts \/ ModelCancelled
  BY <1>7, EndsPairs DEF ModelAborts, ModelCancelled, scope, Executing, Batch
<1>8. ASSUME NEW n \in 1..MaxTools, ModelCallsTools(n) PROVE PairInv'
  <2>1. n \in 0 .. MaxTools BY Bounds
  <2>. QED BY <1>8, <2>1, ReplyPairs DEF ModelCallsTools, StopReason
<1>9. CASE BatchEnded BY <1>9, EndsPairs DEF BatchEnded, scope, Executing, Batch
<1>10. CASE TurnEnded
  <2>1. pc \notin Executing BY <1>10 DEF TurnEnded, Executing, Batch
  <2>2. CASE EndAgent BY <2>1, <2>2, EndsPairs
  <2>3. ASSUME NEW input, EnterTurn(input, FALSE), UNCHANGED scope PROVE PairInv'
    BY <2>1, <2>3, EndsPairs, SamePairs DEF EnterTurn, scope, Executing, Batch
  <2>. QED BY <1>10, <2>2, <2>3, Zenon DEF TurnEnded
<1>11. CASE LastTurn \/ LastTurnEnded \/ RunEnded
  BY <1>11, EndsPairs, SamePairs DEF LastTurn, LastTurnEnded, RunEnded, scope, Executing, Batch
<1>12. CASE Raises BY <1>12, EndsPairs DEF Raises
<1>13. CASE ListenerCancelled
  <2>1. CASE aborted BY <1>13, <2>1, EndsPairs DEF ListenerCancelled
  <2>2. CASE ~aborted
    BY <1>13, <2>2, TornPairs DEF ListenerCancelled, FinishRun, Executing, Batch
  <2>. QED BY <2>1, <2>2
<1>. QED BY <1>1, <1>2, <1>3, <1>4, <1>5, <1>6, <1>7, <1>8, <1>9, <1>10, <1>11, <1>12, <1>13

\* The batch moves on, with the same calls and the same results.
LEMMA MovesPairs ==
  ASSUME PairInv, UNCHANGED <<messages, torn>>, pc \in Batch, pc' \in Batch \ {"outcome"},
         reraise => reraise', Calls' = Calls, In("result")' = In("result")
  PROVE  PairInv'
BY DEF PairInv, Executes, Executing, Batch

\* The batch is left when every call has its result.
LEMMA LeavesPairs ==
  ASSUME PairInv, UNCHANGED <<messages, torn>>, pc \in Batch, pc' \notin Executing,
         Calls \subseteq In("result")
  PROVE  PairInv'
<1>1. PICK k \in CallsAt(messages) :
        /\ Latest(messages, k, torn) /\ Calls = 1 .. messages[k].calls
        /\ messages[k].stop = "toolUse"
        /\ In("result") \subseteq CallsIn(messages, k, Len(messages))
  BY DEF PairInv, Executes
<1>2. CallsIn(messages, k, Len(messages)) = Calls
  <2>1. CallsIn(messages, k, Len(messages)) \subseteq 1 .. messages[k].calls
    BY <1>1 DEF CallsIn, Latest, Group
  <2>. QED BY <1>1, <2>1
<1>3. Paired(messages, k, torn)
  <2>1. Len(messages) \in k .. Len(messages) BY <1>1 DEF Latest, Group
  <2>. QED BY <1>1, <1>2, <2>1 DEF Paired, Settled, Latest
<1>4. ASSUME NEW j \in CallsAt(messages), j # k, Latest(messages, j, torn) PROVE FALSE
  <2>1. Latest(messages, k, torn) BY <1>1
  <2>2. j < k \/ k < j BY <1>4 DEF CallsAt
  <2>3. messages[j].role = "assistant" /\ messages[k].role = "assistant" BY DEF CallsAt
  <2>4. j < k => messages[k].role = "result" BY <1>4 DEF Latest, Group, CallsAt
  <2>5. k < j => messages[j].role = "result" BY <2>1 DEF Latest, Group, CallsAt
  <2>. QED BY <2>2, <2>3, <2>4, <2>5
<1>5. \A j \in CallsAt(messages) : Paired(messages, j, torn) BY <1>3, <1>4 DEF PairInv
<1>. QED BY <1>5 DEF PairInv, Executing, Batch

LEMMA SettlePairs ==
  ASSUME TypeInv, PairInv, pc \in Batch, NEW i \in 1..MaxTools, i \in Open,
         NEW kind \in {"final", "aborted"}, kind = "aborted" \/ ~reraise,
         NEW at \in Batch, Settle(i, kind, at), UNCHANGED torn, reraise => reraise'
  PROVE  PairInv'
<1>. DEFINE x == Result(i, kind)
<1>1. messages \in Seq(Message) /\ x \in Message /\ status \in [1..MaxTools -> CallStatus]
  BY TypeParts, MessageTypes, Bounds DEF TalkOK, BatchOK
<1>2. x.role = "result" /\ x.call = i /\ x.kind = kind /\ messages' = Append(messages, x)
  BY DEF Result, Settle
<1>. HIDE DEF x
<1>3. PICK k \in CallsAt(messages) :
        /\ Latest(messages, k, torn) /\ Calls = 1 .. messages[k].calls
        /\ messages[k].stop = "toolUse"
        /\ In("result") \subseteq CallsIn(messages, k, Len(messages))
        /\ \A y \in k + 1 .. Len(messages) :
             messages[y].call \in In("result") \/ (y \in torn /\ reraise)
  BY DEF PairInv, Executes
<1>4. i \in Calls /\ i \notin In("result") BY DEF Open, In
<1>5. /\ Rooted(messages') /\ CallsAt(messages') = CallsAt(messages)
      /\ Latest(messages', k, torn) /\ messages'[k] = messages[k]
      /\ CallsIn(messages', k, Len(messages')) = CallsIn(messages, k, Len(messages)) \cup {i}
      /\ \A j \in CallsAt(messages) \ {k} : Paired(messages, j, torn) => Paired(messages', j, torn)
  <2>1. Rooted(messages) /\ Latest(messages, k, torn) BY <1>3 DEF PairInv
  <2>2. x.call \in 1 .. messages[k].calls BY <1>2, <1>3, <1>4
  <2>3. Excused(messages, k, x, torn) BY <1>2, <1>3, <1>4 DEF Excused
  <2>. DEFINE t == Append(messages, x)
  <2>4. /\ Rooted(t) /\ CallsAt(t) = CallsAt(messages) /\ Latest(t, k, torn) /\ t[k] = messages[k]
        /\ CallsIn(t, k, Len(t)) = CallsIn(messages, k, Len(messages)) \cup {x.call}
        /\ \A j \in CallsAt(messages) \ {k} : Paired(messages, j, torn) => Paired(t, j, torn)
    <3>1. messages \in Seq(Message) /\ x \in Message /\ x.role = "result" /\ k \in CallsAt(messages)
      BY <1>1, <1>2, <1>3
    <3>2. Rooted(messages) /\ Latest(messages, k, torn) BY <2>1
    <3>3. Rooted(t) /\ CallsAt(t) = CallsAt(messages) BY <2>2, <2>3, <3>1, <3>2, ResultBehind
    <3>4. Latest(t, k, torn) /\ t[k] = messages[k] BY <2>2, <2>3, <3>1, <3>2, ResultBehind
    <3>5. CallsIn(t, k, Len(t)) = CallsIn(messages, k, Len(messages)) \cup {x.call}
      BY <2>2, <2>3, <3>1, <3>2, ResultBehind
    <3>6. \A j \in CallsAt(messages) \ {k} : Paired(messages, j, torn) => Paired(t, j, torn)
      BY <2>2, <2>3, <3>1, <3>2, ResultBehind
    <3>. QED BY <3>3, <3>4, <3>5, <3>6
  <2>. HIDE DEF t
  <2>5. messages' = t BY <1>2 DEF t
  <2>. QED BY <1>2, <2>4, <2>5
<1>6. ASSUME NEW j \in CallsAt(messages), j # k PROVE Paired(messages, j, torn)
  <2>1. CASE Latest(messages, j, torn)
    <3>1. Len(messages) \in j .. Len(messages) /\ Group(messages, j, Len(messages), torn)
      BY <2>1 DEF Latest, Group
    <3>2. Len(messages) < Len(messages) BY <1>1, <1>3, <1>6, <3>1, LatestAlone
    <3>3. Len(messages) \in Nat BY <1>1, LenProperties
    <3>. QED BY <3>2, <3>3
  <2>. QED BY <2>1 DEF PairInv
<1>7. \A j \in 1..MaxTools : status'[j] = IF j = i THEN "result" ELSE status[j]
  BY <1>1 DEF Settle
<1>8. Calls' = Calls /\ In("result")' = In("result") \cup {i}
  BY <1>4, <1>7 DEF Calls, In
<1>9. pc' \in Batch /\ pc' # "reply" /\ cur' = i BY DEF Settle, Batch
<1>11. /\ messages' # <<>> /\ Final(messages') = x
       /\ \A y \in k + 1 .. Len(messages') : \/ y \in k + 1 .. Len(messages)
                                                /\ messages'[y] = messages[y]
                                             \/ messages'[y] = x
  <2>1. k \in 1..Len(messages) BY DEF CallsAt
  <2>. QED BY <1>1, <1>2, <2>1, Behind DEF Final
<1>12. Executes(k)'
  <2>1. \A y \in k + 1 .. Len(messages') :
          messages'[y].call \in In("result")' \/ (y \in torn' /\ reraise')
    BY <1>2, <1>3, <1>8, <1>11
  <2>2. Latest(messages, k, torn)' /\ messages'[k].stop = "toolUse"
        /\ Calls' = 1 .. messages'[k].calls
    BY <1>3, <1>5, <1>8
  <2>3. In("result")' \subseteq CallsIn(messages, k, Len(messages))' BY <1>3, <1>5, <1>8
  <2>. QED BY <2>1, <2>2, <2>3 DEF Executes
<1>10. pc' \in Executing BY <1>9 DEF Executing
<1>. QED BY <1>2, <1>5, <1>6, <1>9, <1>10, <1>11, <1>12 DEF PairInv

LEMMA CutPairs ==
  ASSUME TypeInv, PairInv, pc \in Batch, Cut, UNCHANGED torn, reraise => reraise'
  PROVE  PairInv'
<1>1. CASE Open # {}
  <2>1. Open \in SUBSET Nat /\ Open \subseteq 1..MaxTools BY Bounds DEF Open, Calls
  <2>2. FirstOf(Open) \in Open BY <1>1, <2>1, FirstInSet
  <2>. QED BY <1>1, <2>1, <2>2, SettlePairs DEF Cut, Batch
<1>2. CASE Open = {}
  <2>1. Calls \subseteq In("result") BY <1>2 DEF Open, Calls, In
  <2>. QED BY <1>2, <2>1, LeavesPairs DEF Cut, Executing, Batch
<1>. QED BY <1>1, <1>2

LEMMA NextCallPairs ==
  ASSUME TypeInv, PairInv, UNCHANGED <<torn, reraise>>, pc \in Batch,
         NEW st \in [1..MaxTools -> CallStatus], NextCall(st),
         \A i \in 1..MaxTools : /\ st[i] = "none" <=> status[i] = "none"
                                /\ st[i] = "result" <=> status[i] = "result"
  PROVE  PairInv'
<1>. DEFINE is(s) == {i \in 1..MaxTools : st[i] = s}
            open == {i \in 1..MaxTools : st[i] \notin {"none", "result"}}
            launched == [i \in 1..MaxTools |->
              IF st[i] = "ready" THEN IF aborted THEN "cancelled" ELSE "running" ELSE st[i]]
            Alike == \A i \in 1..MaxTools : /\ status'[i] = "none" <=> status[i] = "none"
                                            /\ status'[i] = "result" <=> status[i] = "result"
<1>1. Alike => Calls' = Calls /\ In("result")' = In("result") BY DEF Calls, In
<1>2. CASE Cut BY <1>2, CutPairs
<1>3. CASE pc' = "after" /\ UNCHANGED <<messages, status>>
  BY <1>1, <1>3, MovesPairs DEF Batch
<1>4. CASE is("todo") # {} /\ StartCall(FirstOf(is("todo")), st) /\ UNCHANGED messages
  <2>1. is("todo") \in SUBSET Nat BY Bounds
  <2>2. FirstOf(is("todo")) \in is("todo") BY <1>4, <2>1, FirstInSet
  <2>3. \A i \in 1..MaxTools : status'[i] = IF i = FirstOf(is("todo")) THEN "preparing" ELSE st[i]
    BY <1>4 DEF StartCall
  <2>4. Alike BY <2>2, <2>3
  <2>. QED BY <1>1, <1>4, <2>4, MovesPairs DEF StartCall, Batch
<1>5. CASE status' = launched /\ pc' = "exec" /\ UNCHANGED messages
  <2>1. Alike BY <1>5
  <2>. QED BY <1>1, <1>5, <2>1, MovesPairs DEF Batch
<1>6. CASE open = {} /\ pc' \in {"turnEnd", "lastTurn"} /\ UNCHANGED messages
  <2>1. Calls \subseteq In("result") BY <1>6 DEF Calls, In
  <2>. QED BY <1>6, <2>1, LeavesPairs DEF Executing, Batch
<1>7. \/ Cut
      \/ pc' = "after" /\ UNCHANGED <<messages, status>>
      \/ is("todo") # {} /\ StartCall(FirstOf(is("todo")), st) /\ UNCHANGED messages
      \/ status' = launched /\ pc' = "exec" /\ UNCHANGED messages
      \/ open = {} /\ pc' \in {"turnEnd", "lastTurn"} /\ UNCHANGED messages
  BY Zenon DEF NextCall
<1>. QED BY <1>2, <1>3, <1>4, <1>5, <1>6, <1>7

LEMMA TaskPairs ==
  ASSUME TypeInv, PairInv,
         ForceCancel \/ \E i \in 1..MaxTools : ToolCompletes(i) \/ ToolCancelled(i)
  PROVE  PairInv'
<1>1. status \in [1..MaxTools -> CallStatus] BY StatusType
<1>2. Calls' = Calls /\ In("result")' = In("result")
  <2>1. CASE ForceCancel BY <1>1, <2>1 DEF ForceCancel, Cancelling, Calls, In
  <2>2. ASSUME NEW i \in 1..MaxTools, ToolCompletes(i) \/ ToolCancelled(i)
        PROVE  Calls' = Calls /\ In("result")' = In("result")
    <3>1. /\ status[i] \in {"running", "cancelling"} /\ status'[i] \in Terminal
          /\ \A j \in 1..MaxTools : j # i => status'[j] = status[j]
      BY <1>1, <2>2 DEF ToolCompletes, ToolCancelled, ToolStep, Terminal
    <3>. QED BY <3>1 DEF Calls, In, Terminal
  <2>. QED BY <2>1, <2>2
<1>3. UNCHANGED <<messages, pc, cur, torn, reraise>>
  BY DEF ForceCancel, ToolCompletes, ToolCancelled, ToolStep, scope
<1>. QED BY <1>2, <1>3 DEF PairInv, Executes

LEMMA BatchPairs ==
  ASSUME TypeInv, PairInv, PendingInv, FlightInv, ReraiseInv,
         \/ ReplyEnded \/ PreparedImmediate \/ PreparedCall \/ OutcomeEnded
         \/ Awaited \/ Gathered \/ AfterHook \/ HookCancelled \/ OutcomeCancelled
         \/ CutNext
  PROVE  PairInv'
<1>1. status \in [1..MaxTools -> CallStatus] /\ cur \in 1..MaxTools
      /\ messages \in Seq(Message)
  BY StatusType, TypeParts DEF BatchOK, TalkOK
<1>2. pc \in Batch /\ Gather /\ UNCHANGED torn /\ (reraise => reraise') => PairInv'
  <2>. SUFFICES ASSUME pc \in Batch, Gather, UNCHANGED torn, reraise => reraise' PROVE PairInv' OBVIOUS
  <2>1. Calls' = Calls /\ In("result")' = In("result")
    BY <1>1 DEF Gather, Cancelling, Calls, In
  <2>. QED BY <2>1, MovesPairs DEF Gather, Batch
<1>3. CASE ReplyEnded
  <2>. DEFINE fresh == [i \in 1..MaxTools |-> IF i <= Final(messages).calls THEN "todo" ELSE "none"]
              n == Final(messages).calls
  <2>1. /\ pc = "reply" /\ messages # <<>> /\ Final(messages).role = "assistant"
        /\ n \in 0 .. MaxTools /\ (Final(messages).stop = "toolUse" => n > 0)
        /\ n > 0 => Final(messages).stop # "stop"
        /\ torn' = torn
    BY <1>3 DEF ReplyEnded, PairInv, scope
  <2>2. Len(messages) \in Nat \ {0} /\ messages[Len(messages)] = Final(messages)
    BY <1>1, <2>1, EmptySeq DEF Final
  <2>3. ASSUME NEW k \in CallsAt(messages), Latest(messages, k, torn) PROVE k = Len(messages) /\ n > 0
    <3>1. k \in 1..Len(messages) BY DEF CallsAt
    <3>2. k < Len(messages) => messages[Len(messages)].role = "result"
      BY <2>2, <2>3, <3>1 DEF Latest, Group
    <3>3. k = Len(messages) BY <2>1, <2>2, <3>1, <3>2
    <3>. QED BY <2>2, <3>3 DEF CallsAt
  <2>4. CASE AbortTurn BY <2>1, <2>4, EndsPairs
  <2>5. CASE /\ Final(messages).stop # "toolUse" /\ pc' \in {"lastTurn", "turnEnd"}
             /\ UNCHANGED messages
    <3>1. ASSUME NEW k \in CallsAt(messages), Latest(messages, k, torn)
          PROVE  Paired(messages, k, torn)
      <4>1. k = Len(messages) BY <2>3, <3>1
      <4>2. Settled(messages, k, k, torn) BY <2>2, <2>5, <4>1 DEF Settled
      <4>3. k \in k .. Len(messages) BY <2>2, <4>1
      <4>. QED BY <3>1, <4>1, <4>2, <4>3 DEF Paired, Latest
    <3>2. \A k \in CallsAt(messages) : Paired(messages, k, torn) BY <3>1 DEF PairInv
    <3>. QED BY <2>1, <2>5, <3>2 DEF PairInv, Executing, Batch
  <2>6. CASE StartCall(1, fresh) /\ UNCHANGED messages /\ Final(messages).stop = "toolUse"
    <3>1. n > 0 BY <2>1, <2>6
    <3>2. Len(messages) \in CallsAt(messages) BY <2>1, <2>2, <3>1 DEF CallsAt
    <3>3. \A i \in 1..MaxTools :
            status'[i] = IF i = 1 THEN "preparing" ELSE IF i <= n THEN "todo" ELSE "none"
      BY <2>6 DEF StartCall
    <3>4. Calls' = 1 .. n /\ In("result")' = {}
      <4>. HIDE DEF n, fresh
      <4>1. \A i \in 1..MaxTools : status'[i] # "none" <=> i <= n
        BY <2>1, <3>1, <3>3, Bounds
      <4>2. Calls' = {i \in 1..MaxTools : i <= n} BY <4>1 DEF Calls
      <4>3. {i \in 1..MaxTools : i <= n} = 1 .. n BY <2>1, Bounds
      <4>4. \A i \in 1..MaxTools : status'[i] # "result" BY <3>3
      <4>. QED BY <4>2, <4>3, <4>4 DEF In
    <3>5. CallsIn(messages, Len(messages), Len(messages)) = {} BY <2>2 DEF CallsIn
    <3>6. Latest(messages, Len(messages), torn) BY <2>2 DEF Latest, Group
    <3>7. pc' \in Batch /\ pc' \in Executing /\ pc' \notin {"reply", "outcome"}
      BY <2>6 DEF StartCall, Batch, Executing
    <3>8. \A k \in CallsAt(messages) : Paired(messages, k, torn) \/ Latest(messages, k, torn) BY DEF PairInv
    <3>9. UNCHANGED messages BY <2>6
    <3>. HIDE DEF fresh
    <3>10. Len(messages) + 1 .. Len(messages) = {} BY <2>2
    <3>11. Executes(Len(messages))'
      BY <2>1, <2>2, <2>6, <3>4, <3>6, <3>9, <3>10 DEF Executes
    <3>. QED BY <2>1, <3>2, <3>7, <3>8, <3>9, <3>11 DEF PairInv
  <2>. QED BY <1>3, <2>4, <2>5, <2>6 DEF ReplyEnded
<1>13. Coordinates => UNCHANGED torn BY DEF Coordinates, scope
<1>4. CASE PreparedImmediate
  <2>1. pc \in Batch /\ cur \in Open /\ ~reraise /\ UNCHANGED <<torn, reraise>>
    BY <1>1, <1>4, <1>13 DEF PreparedImmediate, PendingInv, ReraiseInv, Batch, Open, Calls
  <2>. QED BY <1>1, <1>4, <2>1, CutPairs, SettlePairs DEF PreparedImmediate, Batch
<1>5. CASE PreparedCall
  <2>1. pc \in Batch /\ status[cur] = "preparing" /\ UNCHANGED <<torn, reraise>>
    BY <1>5, <1>13 DEF PreparedCall, PendingInv, Batch
  <2>2. CASE aborted BY <1>5, <2>1, <2>2, CutPairs DEF PreparedCall
  <2>3. CASE ~aborted /\ mode = "sequential"
    <3>1. Calls' = Calls /\ In("result")' = In("result")
      BY <1>1, <1>5, <2>1, <2>3 DEF PreparedCall, Calls, In
    <3>. QED BY <1>5, <2>1, <2>3, <3>1, MovesPairs DEF PreparedCall, Batch
  <2>4. CASE ~aborted /\ mode # "sequential"
    <3>. DEFINE st == [status EXCEPT ![cur] = "ready"]
    <3>1. st \in [1..MaxTools -> CallStatus] BY <1>1 DEF CallStatus
    <3>2. \A i \in 1..MaxTools : /\ st[i] = "none" <=> status[i] = "none"
                                 /\ st[i] = "result" <=> status[i] = "result"
      BY <1>1, <2>1
    <3>3. NextCall(st) BY <1>5, <2>4 DEF PreparedCall
    <3>. QED BY <2>1, <3>1, <3>2, <3>3, NextCallPairs
  <2>. QED BY <2>2, <2>3, <2>4
<1>6. CASE OutcomeEnded \/ Gathered
  <2>1. pc \in Batch /\ UNCHANGED <<torn, reraise>>
    BY <1>6, <1>13 DEF OutcomeEnded, Gathered, Batch
  <2>. QED BY <1>1, <1>6, <2>1, CutPairs, NextCallPairs DEF OutcomeEnded, Gathered
<1>7. CASE Awaited \/ HookCancelled
  <2>1. pc \in Batch /\ ~reraise /\ UNCHANGED torn
    BY <1>7, <1>13 DEF Awaited, HookCancelled, Batch, ReraiseInv
  <2>2. pc' = "after" /\ UNCHANGED <<messages, status>> => PairInv'
    BY <2>1, MovesPairs DEF Batch, Calls, In
  <2>3. Cut => PairInv' BY <2>1, CutPairs
  <2>. QED BY <1>2, <1>7, <2>1, <2>2, <2>3 DEF Awaited, HookCancelled
<1>8. CASE AfterHook
  <2>1. pc \in Batch /\ cur \in Open /\ ~reraise /\ UNCHANGED <<torn, reraise>>
    BY <1>1, <1>8, <1>13 DEF AfterHook, FlightInv, ReraiseInv, Batch, Open, Calls
  <2>. QED BY <1>1, <1>8, <2>1, SettlePairs DEF AfterHook, Batch
<1>9. CASE CutNext BY <1>9, <1>13, CutPairs DEF CutNext, Batch
<1>10. CASE OutcomeCancelled
  <2>1. /\ pc = "outcome" /\ pc' = "gather" /\ reraise' /\ UNCHANGED messages
        /\ torn' = torn \cup {Len(messages)} /\ status' = [Cancelling EXCEPT ![cur] = "todo"]
    BY <1>10 DEF OutcomeCancelled
  <2>2. \A i \in 1..MaxTools :
          status'[i] = IF i = cur THEN "todo"
                       ELSE IF status[i] = "running" THEN "cancelling" ELSE status[i]
    BY <2>1 DEF Cancelling
  <2>3. status[cur] = "result" BY <2>1 DEF PendingInv
  <2>4. Calls' = Calls /\ In("result")' = In("result") \ {cur}
    BY <1>1, <2>2, <2>3 DEF Calls, In
  <2>5. messages # <<>> /\ Final(messages).role = "result" /\ Final(messages).call = cur
    BY <2>1 DEF PairInv
  <2>6. Len(messages) \in Nat \ {0} /\ messages[Len(messages)] = Final(messages)
    BY <1>1, <2>5, EmptySeq, LenProperties DEF Final
  <2>7. PICK k \in CallsAt(messages) : Executes(k) BY <2>1 DEF PairInv, Batch
  <2>8. Len(messages) \in k + 1 .. Len(messages)
    <3>1. k \in 1..Len(messages) /\ messages[k].role = "assistant" BY DEF CallsAt
    <3>2. k # Len(messages) BY <2>5, <2>6, <3>1
    <3>. QED BY <2>6, <3>1, <3>2
  <2>9. ASSUME NEW y \in k + 1 .. Len(messages)
        PROVE  messages[y].call \in In("result")' \/ y \in torn'
    <3>1. CASE messages[y].call = cur /\ y # Len(messages)
      <4>1. y < Len(messages) BY <2>6, <2>8, <3>1
      <4>2. y \in torn BY <2>5, <2>6, <2>7, <2>8, <3>1, <4>1 DEF Executes, Latest, Group
      <4>. QED BY <2>1, <4>2
    <3>2. CASE y = Len(messages) BY <2>1, <3>2
    <3>3. CASE messages[y].call # cur BY <2>1, <2>4, <2>7, <3>3 DEF Executes
    <3>. QED BY <3>1, <3>2, <3>3
  <2>10. Latest(messages, k, torn') BY <2>1, <2>7, MoreTorn DEF Executes
  <2>11. Executes(k)' BY <2>1, <2>4, <2>7, <2>9, <2>10 DEF Executes
  <2>12. \A j \in CallsAt(messages) : Paired(messages, j, torn') \/ Latest(messages, j, torn')
    <3>1. torn \subseteq torn' BY <2>1
    <3>. QED BY <3>1, MoreTorn DEF PairInv
  <2>. QED BY <2>1, <2>11, <2>12 DEF PairInv, Executing, Batch
<1>. QED BY <1>3, <1>4, <1>5, <1>6, <1>7, <1>8, <1>9, <1>10

LEMMA PairStep ==
  TypeInv /\ PairInv /\ PendingInv /\ FlightInv /\ ReraiseInv /\ [Next]_vars => PairInv'
<1>. SUFFICES ASSUME TypeInv, PairInv, PendingInv, FlightInv, ReraiseInv, [Next]_vars
     PROVE  PairInv'
  OBVIOUS
<1>1. CASE UNCHANGED vars BY <1>1, SamePairs DEF vars
<1>2. CASE Next
  BY <1>1, <1>2, OutsidePairs, TaskPairs, BatchPairs DEF Next, Run, Tool, Idle
<1>. QED BY <1>1, <1>2

\* The results in front of the end of a group are the answers to its message.
LEMMA GroupAnswers ==
  ASSUME NEW T, NEW s \in Seq(Message), NEW k \in CallsAt(s), NEW e \in k .. Len(s),
         Group(s, k, e, T)
  PROVE  /\ Answers(s, k) = k + 1 .. e
         /\ k + Cardinality(Answers(s, k)) = e
         /\ \A i, j \in Answers(s, k) :
              i < j /\ s[i].call = s[j].call => i \in T /\ s[j].kind = "aborted"
         /\ \A j \in Answers(s, k) : s[j].call \in 1 .. s[k].calls
         /\ Answered(s, k) <=> CallsIn(s, k, e) = 1 .. s[k].calls
<1>1. Len(s) \in Nat /\ k \in 1..Len(s) /\ k \in Nat /\ e \in Nat /\ k <= e /\ e <= Len(s)
  BY LenProperties DEF CallsAt
<1>2. k + 1 .. e \subseteq Answers(s, k) BY <1>1 DEF Answers, Group
<1>3. ASSUME NEW j \in Answers(s, k) PROVE j \in k + 1 .. e
  <2>1. j \in k + 1 .. Len(s) /\ \A x \in k + 1 .. j : s[x].role = "result" BY DEF Answers
  <2>2. CASE j > e
    <3>1. e + 1 \in k + 1 .. j /\ e < Len(s) BY <1>1, <2>1, <2>2
    <3>. QED BY <2>1, <3>1 DEF Group
  <2>. QED BY <1>1, <2>1, <2>2
<1>4. Answers(s, k) = k + 1 .. e BY <1>2, <1>3
<1>5. Cardinality(k + 1 .. e) = e - k
  <2>1. Cardinality(k + 1 .. e) = IF k + 1 > e THEN 0 ELSE e - (k + 1) + 1
    BY <1>1, FS_Interval
  <2>. QED BY <1>1, <2>1
<1>6. k + Cardinality(Answers(s, k)) = e BY <1>1, <1>4, <1>5
<1>. QED BY <1>4, <1>6 DEF Group, Answered, CallsIn

LEMMA PairsPaired == TypeInv /\ PairInv => CallsPaired
<1>. SUFFICES ASSUME TypeInv, PairInv PROVE CallsPaired OBVIOUS
<1>1. messages \in Seq(Message) /\ Len(messages) \in Nat
  BY TypeParts, LenProperties DEF TalkOK
<1>2. ASSUME NEW j \in 1..Len(messages), messages[j].role = "result"
      PROVE  \E k \in CallsAt(messages) : j \in Answers(messages, k)
  <2>1. PICK k \in CallsAt(messages) :
          k < j /\ \A x \in k + 1 .. j : messages[x].role = "result"
    BY <1>2 DEF PairInv, Rooted
  <2>2. j \in k + 1 .. Len(messages) BY <1>1, <2>1 DEF CallsAt
  <2>. QED BY <2>1, <2>2 DEF Answers
<1>3. ASSUME NEW k \in CallsAt(messages)
      PROVE  LET last == k + Cardinality(Answers(messages, k))
                 next == last + 1
             IN /\ \A i, j \in Answers(messages, k) :
                     i < j /\ messages[i].call = messages[j].call =>
                       i \in torn /\ messages[j].kind = "aborted"
                /\ \A j \in Answers(messages, k) : messages[j].call \in 1 .. messages[k].calls
                /\ \/ messages[k].stop # "toolUse" /\ last = k
                   \/ messages[k].stop = "toolUse" /\ Answered(messages, k)
                   \/ next > Len(messages) /\ pc # "idle"
                   \/ next <= Len(messages) /\ messages[next].role = "assistant"
                                            /\ messages[next].stop \in {"error", "aborted"}
                   \/ last \in torn
  <2>. DEFINE last == k + Cardinality(Answers(messages, k))
  <2>1. PICK e \in k .. Len(messages) :
          /\ Group(messages, k, e, torn)
          /\ Settled(messages, k, e, torn) \/ (pc \in Executing /\ e = Len(messages))
    <3>1. CASE Paired(messages, k, torn) BY <3>1 DEF Paired
    <3>2. CASE pc \in Executing /\ Latest(messages, k, torn)
      <4>1. Len(messages) \in k .. Len(messages) BY <3>2 DEF Latest, Group
      <4>. QED BY <3>2, <4>1 DEF Latest
    <3>. QED BY <3>1, <3>2 DEF PairInv
  <2>2. last = e BY <1>1, <2>1, GroupAnswers
  <2>3. \A i, j \in Answers(messages, k) :
          i < j /\ messages[i].call = messages[j].call =>
            i \in torn /\ messages[j].kind = "aborted"
    BY <1>1, <2>1, GroupAnswers
  <2>4. /\ \A j \in Answers(messages, k) : messages[j].call \in 1 .. messages[k].calls
        /\ Answered(messages, k) <=> CallsIn(messages, k, e) = 1 .. messages[k].calls
    <3>1. Group(messages, k, e, torn) BY <2>1
    <3>2. \A j \in Answers(messages, k) : messages[j].call \in 1 .. messages[k].calls
      BY <1>1, <3>1, GroupAnswers
    <3>3. Answered(messages, k) <=> CallsIn(messages, k, e) = 1 .. messages[k].calls
      <4>1. Answers(messages, k) = k + 1 .. e BY <1>1, <3>1, GroupAnswers
      <4>. QED BY <4>1 DEF Answered, CallsIn
    <3>. QED BY <3>2, <3>3
  <2>. HIDE DEF last
  <2>5. e \in Nat /\ e <= Len(messages) BY <1>1 DEF CallsAt
  <2>6. CASE pc \in Executing /\ e = Len(messages)
    <3>1. pc # "idle" /\ last + 1 > Len(messages) BY <1>1, <2>2, <2>6 DEF Executing, Batch
    <3>. QED BY <2>3, <2>4, <3>1 DEF last
  <2>7. CASE e < Len(messages) /\ Closes(messages[e + 1])
    <3>1. /\ last + 1 <= Len(messages) /\ messages[last + 1].role = "assistant"
          /\ messages[last + 1].stop \in {"error", "aborted"}
      BY <1>1, <2>2, <2>5, <2>7 DEF Closes
    <3>. QED BY <2>3, <2>4, <3>1 DEF last
  <2>8. CASE messages[k].stop # "toolUse" /\ e = k
    <3>1. messages[k].stop # "toolUse" /\ last = k BY <2>2, <2>8
    <3>. QED BY <2>3, <2>4, <3>1 DEF last
  <2>9. CASE messages[k].stop = "toolUse" /\ CallsIn(messages, k, e) = 1 .. messages[k].calls
    <3>1. messages[k].stop = "toolUse" /\ Answered(messages, k) BY <2>4, <2>9
    <3>. QED BY <2>3, <2>4, <3>1 DEF last
  <2>10. CASE e \in torn
    <3>1. last \in torn BY <2>2, <2>10
    <3>. QED BY <2>3, <2>4, <3>1 DEF last
  <2>. QED BY <2>1, <2>6, <2>7, <2>8, <2>9, <2>10 DEF Settled
<1>. QED BY <1>2, <1>3 DEF CallsPaired

\* Tool results stand directly behind the message that called for them, and a failed
\* reply's calls have none.  A call has one result, but for the one whose
\* announcement a CancelledError cut short, which gets an aborted one as well; and
\* calls are left without a result only in front of the message that closes an
\* interrupted run or where a cancelled listener left the run: whatever the batch met
\* -- an abort, a failing listener, a cancelled hook, tools that return late -- and for
\* batches of any size.
THEOREM CallsArePaired == Spec => []CallsPaired
<1>. DEFINE Inv == TypeInv /\ DrainInv /\ FlightInv /\ PendingInv /\ ReraiseInv /\ PairInv
<1>1. Init => Inv
  BY InitType, InitFlight, InitPending, InitPairs DEF Init, DrainInv, ReraiseInv
<1>2. Inv /\ [Next]_vars => Inv'
  BY NextType, DrainStep, FlightStep, PendingStep, ReraiseStep, PairStep
<1>3. Inv => CallsPaired BY PairsPaired
<1>. QED BY <1>1, <1>2, <1>3, PTL DEF Spec
=============================================================================
