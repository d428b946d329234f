---------------------------- MODULE ExecutionStream ---------------------------
(***************************************************************************)
(* A client that watches one session over ExecutionRegistry: it takes a    *)
(* snapshot made of the Product's content and the registry's view, with no *)
(* lock over both, and then reads two ordered streams from one bounded     *)
(* buffer:                                                                 *)
(*                                                                         *)
(*   src/src/loushang/appservice/execution_snapshot.py                     *)
(*   (ExecutionSnapshotBufferV1, capture_execution_snapshot) and           *)
(*   execution_service.py (snapshot_execution_session,                     *)
(*   read_execution_events, detach)                                        *)
(*                                                                         *)
(* The Product is any HostedExecutionPortV1: its snapshot may be awaited.  *)
(* Left out: the copy of the content for the older protocol, text and byte *)
(* sizes (Capacity stands for both bounds), authority other than detach.   *)
(***************************************************************************)
EXTENDS ExecutionRegistry

CONSTANTS
    Watched,        \* the session
    Capacity,       \* of the buffer
    Attempts,       \* of one capture
    MaxContent,     \* bound: content events of the Product
    MaxStreams      \* bound: snapshots asked for

ASSUME StreamAssumption ==
    /\ Watched \in Sessions
    /\ {Capacity, Attempts} \subseteq Nat \ {0}
    /\ {MaxContent, MaxStreams} \subseteq Nat

VARIABLES
    cursor,     \* of the Product's content
    stream,     \* the capture in progress or done, and its buffer
    client,     \* what the client has made of the snapshot and of what it read
    streams     \* what is left of MaxStreams

streamVars == <<cursor, stream, client, streams>>
allVars == <<vars, streamVars>>

Content(n) == [kind |-> "content", at |-> n, state |-> "none", exec |-> 0]
Update(n, e, status) == [kind |-> "update", at |-> n, state |-> status, exec |-> e]

NoCut == [cursor |-> 0, obs |-> Idle]

\* `step`: "closed" without a capture, "cutting" while the Product's snapshot is
\* awaited, "cut" once it was taken, "live" after activation.
NoStream == [step |-> "closed", tries |-> 0, before |-> 0, cut |-> NoCut, instant |-> 0,
             buffer |-> <<>>, invalid |-> FALSE, marks |-> [content |-> 0, update |-> 0]]

\* The client: positions reached in the two streams, the execution shown to it, and
\* whether it was ever handed a position out of turn.
NoClient == [content |-> 0, update |-> 0, exec |-> 0, status |-> "none", gap |-> FALSE]

Seen == [exec |-> view[Watched].active,
         status |-> IF view[Watched].active = 0 THEN "none"
                    ELSE record[view[Watched].active].status]

StreamInit ==
    /\ Init
    /\ cursor = 0 /\ stream = NoStream /\ client = NoClient /\ streams = MaxStreams

-----------------------------------------------------------------------------
\* The buffer.

Invalid(b) == [b EXCEPT !.invalid = TRUE, !.buffer = <<>>]

Stored(b, event) ==
    IF Len(b.buffer) < Capacity THEN [b EXCEPT !.buffer = Append(@, event)] ELSE Invalid(b)

\* Mutant of Pushed: events are applied as they come.
PushedBlindly(b, event) ==
    IF b.step = "closed" \/ b.invalid THEN b
    ELSE Stored([b EXCEPT !.marks[event.kind] = event.at], event)

\* push: before activation everything is kept; afterwards what is covered by the
\* watermarks is skipped and a gap makes the buffer useless.
Pushed(b, event) ==
    LET mark == b.marks[event.kind] IN
    IF b.step = "closed" \/ b.invalid THEN b
    ELSE IF b.step # "live" THEN Stored(b, event)
    ELSE CASE event.at <= mark -> b
           [] event.at = mark + 1 -> Stored([b EXCEPT !.marks[event.kind] = event.at], event)
           [] OTHER -> Invalid(b)

PushAll(b, events) ==
    LET push[n \in 0..Len(events)] == IF n = 0 THEN b ELSE Pushed(push[n - 1], events[n])
    IN  push[Len(events)]

-----------------------------------------------------------------------------
\* Steps of the registry and of the Product, with what they deliver.

\* _publish calls the listeners of the binding in the same step.
Delivers ==
    IF view'[Watched].revision = view[Watched].revision
    THEN UNCHANGED stream
    ELSE LET e == IF slot[Watched].exec # 0 THEN slot[Watched].exec ELSE slot'[Watched].exec
         IN  stream' = Pushed(stream, Update(view'[Watched].revision, e, record'[e].status))

\* The session has a new binding, and what was subscribed to the old one is stale.
Rebound == close[Watched] = "closed" /\ close'[Watched] = "open"

RegistrySteps ==
    /\ Next
    /\ IF Rebound THEN stream' = NoStream /\ client' = NoClient
                  ELSE Delivers /\ UNCHANGED client
    /\ UNCHANGED <<cursor, streams>>

\* The Product tells of content in its own order, whether an execution runs or not.
Tells ==
    /\ cursor < MaxContent
    /\ cursor' = cursor + 1
    /\ stream' = Pushed(stream, Content(cursor'))
    /\ UNCHANGED <<vars, client, streams>>

-----------------------------------------------------------------------------
\* A capture.

\* snapshot_execution_session: a new stream replaces the old one, subscribes to both
\* sources and reads the view before it asks for the Product's snapshot.
Capture ==
    /\ streams > 0 /\ streams' = streams - 1
    /\ close[Watched] = "open"
    /\ stream' = [NoStream EXCEPT !.step = "cutting", !.tries = Attempts,
                                  !.before = view[Watched].revision]
    /\ client' = NoClient
    /\ UNCHANGED <<vars, cursor>>

\* The Product captures its content and its observation at one cut.
Cut ==
    /\ stream.step = "cutting"
    /\ stream' = [stream EXCEPT !.step = "cut", !.instant = view[Watched].revision,
                                !.cut = [cursor |-> cursor, obs |-> guard[Watched].obs]]
    /\ UNCHANGED <<vars, cursor, client, streams>>

\* Mutant of Matches: the revision is enough.
MatchesAny(cut) == TRUE

\* _matches: what the cut observed is what the view shows.
Matches(cut) ==
    IF Seen.status = "running"
    THEN cut.obs = [exec |-> Seen.exec, status |-> "running"]
    ELSE cut.obs = view[Watched].quiescent

Stable == stream.before = view[Watched].revision

\* The view did not move: the snapshot is installed and what was buffered since the
\* subscription is pushed again, past the watermarks only.
Activate ==
    /\ stream.step = "cut" /\ ~stream.invalid
    /\ Stable /\ Matches(stream.cut)
    /\ LET marks == [content |-> stream.cut.cursor, update |-> view[Watched].revision]
           live == PushAll([stream EXCEPT !.step = "live", !.buffer = <<>>, !.marks = marks],
                           stream.buffer)
       IN  /\ stream' = IF live.invalid THEN NoStream ELSE live
           /\ client' = IF live.invalid THEN NoClient
                        ELSE [content |-> marks.content, update |-> marks.update,
                              exec |-> Seen.exec, status |-> Seen.status, gap |-> FALSE]
    /\ UNCHANGED <<vars, cursor, streams>>

\* Otherwise it is tried again from a new look at the view, Attempts times.
Retake ==
    /\ stream.step = "cut" /\ ~stream.invalid
    /\ ~(Stable /\ Matches(stream.cut))
    /\ stream' = IF stream.tries = 1 THEN NoStream
                 ELSE [stream EXCEPT !.step = "cutting", !.tries = @ - 1,
                                     !.before = view[Watched].revision]
    /\ UNCHANGED <<vars, cursor, client, streams>>

\* The buffer overflowed during the capture, or the scope was lost.
GiveUp ==
    /\ stream.step # "closed"
    /\ stream' = NoStream /\ client' = NoClient
    /\ UNCHANGED <<vars, cursor, streams>>

\* The client takes over one event: it can use the next position of its stream only.
Taken(c, event) ==
    IF event.kind = "content"
    THEN [c EXCEPT !.content = event.at, !.gap = @ \/ event.at # c.content + 1]
    ELSE [c EXCEPT !.update = event.at, !.gap = @ \/ event.at # c.update + 1,
                   !.exec = IF event.state \in Ended THEN 0 ELSE event.exec,
                   !.status = IF event.state \in Ended THEN "none" ELSE event.state]

TakeAll(c, events) ==
    LET take[n \in 0..Len(events)] == IF n = 0 THEN c ELSE Taken(take[n - 1], events[n])
    IN  take[Len(events)]

\* read_execution_events empties the buffer; an invalid one asks for a new snapshot.
Read ==
    /\ stream.step = "live" /\ ~stream.invalid /\ stream.buffer # <<>>
    /\ client' = TakeAll(client, stream.buffer)
    /\ stream' = [stream EXCEPT !.buffer = <<>>]
    /\ UNCHANGED <<vars, cursor, streams>>

StreamNext ==
    RegistrySteps \/ Tells \/ Capture \/ Cut \/ Activate \/ Retake \/ GiveUp \/ Read

StreamSpec == StreamInit /\ [][StreamNext]_allVars

-----------------------------------------------------------------------------
\* Properties.

\* The two halves of a snapshot are of one instant, although the Product is awaited
\* between two looks at the view, and they tell of the same execution.
SnapshotIsOneInstant ==
    [][stream.step = "cut" /\ stream'.step = "live" =>
          /\ stream.instant = client'.update
          /\ client'.status = "running" <=> stream.cut.obs.status = "running"]_allVars

\* What a client of a valid stream has, and what is waiting for it in the buffer, are
\* together all that happened: nothing of either stream is lost, repeated or out of
\* turn without the stream becoming invalid.
NothingIsMissing ==
    (stream.step = "live" /\ ~stream.invalid) =>
        LET caught == TakeAll(client, stream.buffer) IN
        /\ ~caught.gap
        /\ caught.content = cursor /\ caught.update = view[Watched].revision
        /\ caught.exec = Seen.exec /\ caught.status = Seen.status
=============================================================================
