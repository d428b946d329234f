----------------------------- MODULE ProviderCall ----------------------------
(***************************************************************************)
(* One call of a model: a producer task turns the parts of a provider's    *)
(* answer into events, a bounded stream holds them, a reader takes them.   *)
(*                                                                         *)
(*   src/src/loushang/ai/provider/runtime.py (start_provider_runtime)      *)
(*   src/src/loushang/ai/event_stream/stream.py (EventStream)              *)
(*   src/src/loushang/ai/event_stream/assembler.py (RawAssembler.emit)     *)
(*   src/src/loushang/agent/agent_loop.py (the reader of a model call)     *)
(*                                                                         *)
(* An action is what one task does between two awaits. The settlement of a *)
(* cancelled call and the recording of its outcome are tasks of their own  *)
(* that the producer shields. The call has a durable recorder.             *)
(*                                                                         *)
(* A part is one event. Parts held back before the first visible one are   *)
(* one event together: only response_start makes one. They are flushed     *)
(* into an empty queue, so what waits for room is always one event.        *)
(* Left out: usage, traces, contents, calls without a recorder, push().    *)
(***************************************************************************)
EXTENDS Naturals, Sequences

CONSTANTS
    Capacity,       \* DEFAULT_EVENT_STREAM_QUEUE_SIZE
    MaxAttempts,    \* RetryOptions.max_attempts
    MaxParts        \* bound: visible parts of all attempts

ASSUME ProviderAssumption ==
    /\ Capacity \in Nat /\ Capacity >= 2
    /\ MaxAttempts \in Nat \ {0}
    /\ MaxParts \in Nat

VARIABLES
    pc,         \* what the producer awaits
    handling,   \* it is in the except clause of the attempt
    attempt, visible, pending,
    timed,      \* options.timeout_seconds is set
    deadline,   \* _AttemptDeadline
    cancelled,  \* a CancelledError is on its way to the producer
    queue,      \* _queue
    ended,      \* _ended
    final,      \* _terminal_event, by its kind
    waiting,    \* the event whose put waits for room
    fed,        \* _terminal_emitted: the kind of the assembler's final message
    rec,        \* the task that records the outcome
    recorded,   \* the outcomes the recorder was given, oldest first
    signal,     \* the cancellation signal is set
    reader,     \* what the reader awaits
    got,        \* history: the events the reader took
    sent,       \* history: the events that were put
    parts       \* visible parts so far

attemptVars == <<attempt, visible, pending, deadline>>
producerVars == <<pc, handling, attemptVars, cancelled>>
streamVars == <<queue, ended, final, waiting, fed, sent>>
recordVars == <<rec, recorded>>
readerVars == <<reader, got>>
vars == <<producerVars, streamVars, recordVars, readerVars, signal, parts, timed>>

Terminal == {"done", "error", "aborted"}
Shown == {"start", "output"}
Event(kind) == [kind |-> kind, attempt |-> attempt]
NoEvent == [kind |-> "none", attempt |-> 0]
Marker == [kind |-> "end", attempt |-> 0]     \* the None of end() and aclose()

Init ==
    /\ pc = "new" /\ handling = FALSE
    /\ attempt = 0 /\ visible = FALSE /\ pending = FALSE /\ deadline = "off"
    /\ cancelled = FALSE
    /\ queue = <<>> /\ ended = FALSE /\ final = "none" /\ waiting = NoEvent
    /\ fed = "none" /\ sent = <<>>
    /\ rec = "none" /\ recorded = <<>>
    /\ signal = FALSE /\ parts = 0 /\ timed \in BOOLEAN
    /\ reader = "get" /\ got = <<>>

-----------------------------------------------------------------------------
\* The stream.

\* _put_nowait_force: the oldest event makes room for the marker.
Forced(q) == Append(IF Len(q) < Capacity THEN q ELSE Tail(q), Marker)

\* _queue.put with room, and _record_terminal.
Put(events) ==
    LET last == events[Len(events)].kind
    IN  /\ queue' = queue \o events
        /\ sent' = sent \o events
        /\ ended' = (ended \/ last \in Terminal)
        /\ final' = IF last \in Terminal /\ final = "none" THEN last ELSE final

\* Mutant of Emit: an event that finds no room takes the place of the oldest, as in push().
EmitForced(kind) ==
    LET events == IF pending THEN <<Event("start"), Event(kind)>> ELSE <<Event(kind)>>
        silent == fed # "none" \/ ended
        over == Len(queue) + Len(events) - Capacity
    IN  /\ pending' = FALSE
        /\ fed' = IF fed = "none" /\ kind \in Terminal THEN kind ELSE fed
        /\ waiting' = NoEvent
        /\ IF silent THEN UNCHANGED <<queue, sent, ended, final>>
           ELSE /\ queue' = SubSeq(queue, 1 + (IF over > 0 THEN over ELSE 0), Len(queue)) \o events
                /\ sent' = sent \o events
                /\ ended' = (ended \/ kind \in Terminal)
                /\ final' = IF kind \in Terminal /\ final = "none" THEN kind ELSE final

\* _flush_pending and assembler.emit of a part: nothing after the first terminal part,
\* nothing into a stream that has ended.
Emit(kind) ==
    LET events == IF pending THEN <<Event("start"), Event(kind)>> ELSE <<Event(kind)>>
        silent == fed # "none" \/ ended
        room == Len(queue) + Len(events) <= Capacity
    IN  /\ pending' = FALSE
        /\ fed' = IF fed = "none" /\ kind \in Terminal THEN kind ELSE fed
        /\ waiting' = IF silent \/ room THEN NoEvent ELSE Event(kind)
        /\ IF silent \/ ~room THEN UNCHANGED <<queue, sent, ended, final>> ELSE Put(events)

\* The done callback of the producer, _finish_from_task: a stream that has not ended ends.
Finish ==
    /\ ended' = TRUE
    /\ queue' = IF ended THEN queue ELSE Forced(queue)
    /\ waiting' = NoEvent
    /\ UNCHANGED <<final, fed, sent>>

-----------------------------------------------------------------------------
\* The producer, start_provider_runtime._run. Each of these says where it goes from a step.

Over ==
    /\ pc' = "over" /\ deadline' = "off" /\ cancelled' = FALSE
    /\ Finish
    /\ UNCHANGED <<handling, attempt, visible, pending, rec>>

\* Once the event is in the queue the producer goes on.
Proceeds(kind, there) ==
    /\ pc' = IF ~there THEN "emit" ELSE IF kind \in Terminal THEN "record" ELSE "next"
    /\ rec' = IF there /\ kind \in Terminal THEN "running" ELSE rec

\* A part that is shown, from the body of the attempt or from its except clause.
Produce(kind, inHandler) ==
    /\ Emit(kind)
    /\ Proceeds(kind, waiting' = NoEvent)
    /\ visible' = (visible \/ kind = "output")
    /\ handling' = inHandler /\ cancelled' = FALSE
    /\ UNCHANGED <<attempt, deadline>>

\* _settle_runtime_cancellation: the settlement is a task of its own.
Settle ==
    /\ pc' = "settle" /\ deadline' = "off" /\ cancelled' = FALSE
    /\ Emit("aborted")
    /\ rec' = IF waiting' = NoEvent THEN "running" ELSE "none"
    /\ UNCHANGED <<handling, attempt, visible>>

\* The attempt is given up: its source is closed, and the next one is waited for.
Backoff(inHandler) ==
    /\ pc' = "retry" /\ deadline' = "off" /\ cancelled' = FALSE
    /\ handling' = inHandler
    /\ waiting' = NoEvent
    /\ UNCHANGED <<attempt, visible, pending, queue, ended, final, fed, sent, rec>>

\* Mutant of MayRetry: what is visible by now does not matter.
MayRetryAlways == attempt < MaxAttempts

MayRetry == ~visible /\ attempt < MaxAttempts

\* except (Exception, CancelledError), with an error to report.
Failed(retryable) ==
    \/ signal /\ Settle
    \/ ~signal /\ retryable /\ MayRetry /\ Backoff(TRUE)
    \/ ~signal /\ ~(retryable /\ MayRetry) /\ Produce("error", TRUE)

\* A CancelledError reaches the producer: in the except clause nothing catches it.
Caught ==
    \/ handling /\ Over
    \/ ~handling /\ deadline = "expired" /\ Failed(TRUE)
    \/ ~handling /\ deadline # "expired" /\ Settle

StartAttempt ==
    /\ pc' = "next" /\ handling' = FALSE
    /\ deadline' = IF timed THEN "armed" ELSE "off"
    /\ attempt' = attempt + 1 /\ visible' = FALSE /\ pending' = FALSE
    /\ UNCHANGED <<cancelled, streamVars, rec>>

-----------------------------------------------------------------------------
producerOthers == <<recorded, readerVars, signal, parts, timed>>

\* A task that is cancelled before it runs never does.
Begin ==
    /\ pc = "new"
    /\ \/ cancelled /\ Over
       \/ ~cancelled /\ signal /\ Settle
       \/ ~cancelled /\ ~signal /\ StartAttempt
    /\ UNCHANGED producerOthers

PartReceived == pc = "next" /\ ~cancelled /\ ~signal

\* response_start, usage_delta: held back while nothing is visible.
HiddenPart ==
    /\ PartReceived
    /\ ~visible /\ ~pending
    /\ pending' = TRUE
    /\ UNCHANGED <<pc, handling, attempt, visible, deadline, cancelled, streamVars, rec, producerOthers>>

VisiblePart ==
    /\ PartReceived
    /\ parts < MaxParts
    /\ parts' = parts + 1
    /\ Produce("output", FALSE)
    /\ UNCHANGED <<recorded, readerVars, signal, timed>>

\* response_done, or response_error that ends the call; the source that ends without
\* either is an error too.
LastPart ==
    /\ PartReceived
    /\ \E kind \in {"done", "error"} : Produce(kind, FALSE)
    /\ UNCHANGED producerOthers

\* response_error that can be tried again.
RetryPart ==
    /\ PartReceived
    /\ MayRetry
    /\ Backoff(FALSE)
    /\ UNCHANGED producerOthers

\* The source raises, idles too long or sends more than may be held back.
SourceFails ==
    /\ PartReceived
    /\ \E retryable \in BOOLEAN : Failed(retryable)
    /\ UNCHANGED producerOthers

\* The signal while a part is awaited: _RuntimeCancelled.
Interrupted ==
    /\ pc = "next" /\ ~cancelled /\ signal
    /\ Settle
    /\ UNCHANGED producerOthers

\* Mutant of CancelArrives: the recording of the outcome is not shielded.
CancelArrivesSoon ==
    /\ cancelled
    /\ pc \in {"next", "emit", "retry", "record"}
    /\ Caught
    /\ UNCHANGED producerOthers

\* The timer of the attempt and aclose() cancel the producer wherever it waits; what is
\* being recorded or settled is finished first.
CancelArrives ==
    /\ cancelled
    /\ \/ pc \in {"next", "emit", "retry"}
       \/ pc = "record" /\ rec = "over"
    /\ Caught
    /\ UNCHANGED producerOthers

\* _sleep_before_retry ends; the signal cuts it short, and what it raises in the except
\* clause leaves _run.
RetryEnds ==
    /\ pc = "retry" /\ ~cancelled
    /\ \/ StartAttempt
       \/ signal /\ ~handling /\ Settle
       \/ signal /\ handling /\ Over
    /\ UNCHANGED producerOthers

\* There is room for the event that the producer, or the settlement, waits to put.
PutEnds ==
    /\ waiting # NoEvent /\ Len(queue) < Capacity
    /\ pc = "emit" => ~cancelled
    /\ Put(<<waiting>>)
    /\ waiting' = NoEvent
    /\ \/ pc = "emit" /\ Proceeds(waiting.kind, TRUE)
       \/ pc = "settle" /\ rec' = "running" /\ UNCHANGED pc
    /\ UNCHANGED <<handling, attemptVars, cancelled, fed, producerOthers>>

\* _record_terminal_observations: a task that nothing cancels.
RecordingEnds ==
    /\ rec = "running"
    /\ rec' = "over"
    /\ recorded' = Append(recorded, fed)
    /\ UNCHANGED <<producerVars, streamVars, readerVars, signal, parts, timed>>

\* The call is recorded, the producer returns.
Recorded ==
    /\ rec = "over"
    /\ \/ pc = "record" /\ ~cancelled
       \/ pc = "settle" /\ waiting = NoEvent
    /\ Over
    /\ UNCHANGED producerOthers

-----------------------------------------------------------------------------
\* The reader, the loop over the stream in agent_loop.py.

\* Mutant of CloseWith: the producer is left to notice.
CloseWithout(q) ==
    /\ reader' = "closing"
    /\ ended' = TRUE
    /\ queue' = IF ended THEN q ELSE Forced(q)
    /\ UNCHANGED cancelled

\* aclose(): the producer is cancelled unless the stream has ended.
CloseWith(q) ==
    /\ reader' = "closing"
    /\ ended' = TRUE
    /\ queue' = IF ended THEN q ELSE Forced(q)
    /\ cancelled' = (cancelled \/ (~ended /\ pc # "over"))

readerOthers == <<pc, handling, attemptVars, final, waiting, fed, sent, recordVars, signal, parts, timed>>

\* The next event: the reader leaves when the signal is set. At the marker it asks for
\* the result, which reads on unless there is a terminal event.
ReaderGets ==
    /\ reader = "get" /\ queue # <<>>
    /\ LET item == Head(queue)
       IN  \/ /\ item = Marker
              /\ reader' = IF final = "none" THEN "again" ELSE "result"
              /\ queue' = Tail(queue)
              /\ UNCHANGED <<got, ended, cancelled>>
           \/ /\ item # Marker /\ signal
              /\ got' = Append(got, item)
              /\ CloseWith(Tail(queue))
           \/ /\ item # Marker /\ ~signal
              /\ got' = Append(got, item)
              /\ reader' = IF item.kind \in Terminal THEN "result" ELSE "handle"
              /\ queue' = Tail(queue)
              /\ UNCHANGED <<ended, cancelled>>
    /\ UNCHANGED readerOthers

\* The listeners of the agent have been told.
ReaderHandles ==
    /\ reader = "handle"
    /\ reader' = "get"
    /\ UNCHANGED <<got, queue, ended, cancelled, readerOthers>>

\* result() and aclose() wait for the producer to end.
ReaderEnds ==
    /\ reader \in {"result", "closing"} /\ pc = "over"
    /\ reader' = "over"
    /\ UNCHANGED <<got, queue, ended, cancelled, readerOthers>>

\* The run of the agent is cancelled; who waits for the producer goes on waiting.
CancelReader ==
    /\ reader \in {"get", "handle", "again"}
    /\ CloseWith(queue)
    /\ UNCHANGED <<got, readerOthers>>

-----------------------------------------------------------------------------
Abort ==
    /\ ~signal
    /\ signal' = TRUE
    /\ UNCHANGED <<producerVars, streamVars, recordVars, readerVars, parts, timed>>

\* _AttemptDeadline._expire.
Expire ==
    /\ deadline = "armed"
    /\ deadline' = "expired" /\ cancelled' = TRUE
    /\ UNCHANGED <<pc, handling, attempt, visible, pending, streamVars, recordVars, readerVars, signal, parts, timed>>

ProducerStep ==
    \/ Begin \/ Interrupted \/ CancelArrives \/ RetryEnds \/ PutEnds \/ RecordingEnds \/ Recorded

ReaderStep == ReaderGets \/ ReaderHandles \/ ReaderEnds

Next ==
    \/ ProducerStep \/ ReaderStep
    \/ HiddenPart \/ VisiblePart \/ LastPart \/ RetryPart \/ SourceFails
    \/ CancelReader \/ Abort \/ Expire

Spec == Init /\ [][Next]_vars

\* The loop runs its tasks and timers, recordings and listeners end. A source may be
\* silent, and nobody has to cancel anything.
FairSpec == Spec /\ WF_vars(ProducerStep) /\ WF_vars(ReaderStep) /\ WF_vars(Expire)

-----------------------------------------------------------------------------
\* However an attempt fails, times out or is cancelled, what a reader is shown is of one
\* attempt: a retry never follows something visible.
OneAttemptShown ==
    \A i, j \in 1..Len(sent) :
        {sent[i].kind, sent[j].kind} \subseteq Shown => sent[i].attempt = sent[j].attempt

\* A reader that is told how the call ended was given, or will be, every event before the
\* terminal one, in order: the queue drops events only of a call that has no terminal event.
NothingDropped ==
    final # "none" /\ reader \notin {"closing", "over"} => got \o queue = sent

\* A terminal event that the stream has shown is recorded, as it was shown, before the
\* producer ends, whoever cancels it meanwhile.
ShownIsRecorded ==
    pc = "over" /\ final # "none" =>
        /\ rec = "over" /\ recorded # <<>>
        /\ \A i \in 1..Len(recorded) : recorded[i] = final

\* A reader that leaves a call no signal has cancelled gets away: the producer, wherever
\* it waits, ends with its source closed.
LeavingEnds == reader = "closing" /\ ~signal ~> reader = "over" \/ signal

\* A stream ends with a terminal event: no reader comes to the end without one.
EndsWithTerminal == reader # "again"

=============================================================================
