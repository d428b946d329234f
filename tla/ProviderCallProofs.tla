-------------------------- MODULE ProviderCallProofs -------------------------
(***************************************************************************)
(* For every capacity of the queue, every number of attempts and of parts: *)
(* a reader is shown one attempt, a call that ends has lost no event, and  *)
(* what was shown of its end is recorded.                                  *)
(***************************************************************************)
EXTENDS ProviderCall, SequenceTheorems, TLAPS

Events == [kind : Terminal \cup Shown, attempt : Nat]
Items == Events \cup {Marker}

\* An event that waits for room is never the held-back start.
CallTypes ==
    /\ attempt \in Nat /\ {visible, pending, ended} \subseteq BOOLEAN
    /\ queue \in Seq(Items) /\ Len(queue) <= Capacity
    /\ got \in Seq(Events) /\ sent \in Seq(Events)
    /\ waiting \in [kind : Terminal \cup {"output"}, attempt : Nat] \cup {NoEvent}
    /\ {fed, final} \subseteq Terminal \cup {"none"}
    /\ recorded \in Seq(Terminal)

\* As long as the call has no end, whatever was shown is of the present attempt, which
\* is not given up for another one.
Attempted ==
    /\ OneAttemptShown
    /\ pending => ~visible
    /\ pc \in {"new", "retry"} => ~visible
    /\ fed = "none" =>
          \A i \in 1..Len(sent) : sent[i].kind \in Shown => visible /\ sent[i].attempt = attempt
    /\ waiting.kind = "output" => fed = "none" /\ visible /\ waiting.attempt = attempt

\* Only a stream that ends without a terminal event drops events, and then its reader
\* has left or its producer is over.
Streamed ==
    /\ ~ended => final = "none" /\ got \o queue = sent
    /\ NothingDropped
    /\ ended /\ final = "none" => reader \in {"closing", "over"} \/ pc = "over"
    /\ waiting # NoEvent => final = "none"
    /\ pc = "over" => waiting = NoEvent

\* The end that is shown or recorded is the first the assembler was given, and what is
\* shown is being recorded or has been.
Kept ==
    /\ final # "none" => final = fed
    /\ waiting.kind \in Terminal => waiting.kind = fed
    /\ \A i \in 1..Len(recorded) : recorded[i] = fed
    /\ recorded # <<>> \/ rec # "none" \/ pc = "settle" => fed # "none"
    /\ final # "none" => rec = "running" \/ (rec = "over" /\ recorded # <<>>)
    /\ rec = "running" => pc \in {"record", "settle"}

CallInv == CallTypes /\ Attempted /\ Streamed /\ Kept

LEMMA CallInit == Init => CallInv
  <1> SUFFICES ASSUME Init PROVE CallInv
    OBVIOUS
  <1>1. <<>> \in Seq(Items) /\ <<>> \in Seq(Events) /\ <<>> \in Seq(Terminal) /\ Len(<<>>) = 0 /\ <<>> \o <<>> = <<>>
    OBVIOUS
  <1>2. CallTypes
    <2>1. waiting \in [kind : Terminal \cup {"output"}, attempt : Nat] \cup {NoEvent}
      BY DEF Init
    <2>2. {fed, final} \subseteq Terminal \cup {"none"} /\ {visible, pending, ended} \subseteq BOOLEAN
      BY DEF Init
    <2>3. QED
      BY <1>1, <2>1, <2>2, ProviderAssumption DEF Init, CallTypes
  <1>3. Attempted
    BY <1>1 DEF Init, Attempted, OneAttemptShown, NoEvent
  <1>4. Streamed
    BY <1>1 DEF Init, Streamed, NothingDropped
  <1>5. Kept
    BY <1>1 DEF Init, Kept, NoEvent, Terminal
  <1>6. QED
    BY <1>2, <1>3, <1>4, <1>5 DEF CallInv

-----------------------------------------------------------------------------
\* The stream grows by events of the present attempt.

Same == UNCHANGED <<queue, sent, ended, final>>

\* What a put of these events does, in terms of their elements.
Adds(events) ==
    /\ events \in Seq(Events) /\ events # <<>>
    /\ queue' = queue \o events /\ sent' = sent \o events
    /\ Len(queue) + Len(events) <= Capacity
    /\ ended' = (ended \/ events[Len(events)].kind \in Terminal)
    /\ final' = IF events[Len(events)].kind \in Terminal /\ final = "none"
                THEN events[Len(events)].kind ELSE final

LEMMA AddsSequences ==
    ASSUME CallTypes, NEW events, Adds(events)
    PROVE  /\ queue' \in Seq(Items) /\ Len(queue') <= Capacity
           /\ sent' \in Seq(Events)
           /\ \A i \in 1..Len(sent') :
                 \/ i \in 1..Len(sent) /\ sent'[i] = sent[i]
                 \/ \E j \in 1..Len(events) : sent'[i] = events[j]
           /\ got \o queue = sent => got \o queue' = sent'
           /\ ended' \in BOOLEAN /\ final' \in Terminal \cup {"none"}
  <1>1. /\ events \in Seq(Items) /\ got \in Seq(Items) /\ sent \in Seq(Items)
        /\ queue \in Seq(Items) /\ sent \in Seq(Events) /\ events \in Seq(Events)
    BY SeqMonotonic DEF Adds, CallTypes, Items
  <1>2. /\ queue' \in Seq(Items) /\ Len(queue') = Len(queue) + Len(events)
        /\ sent' \in Seq(Events) /\ Len(sent') = Len(sent) + Len(events)
    BY <1>1, ConcatProperties DEF Adds
  <1>3. Len(queue') <= Capacity
    BY <1>2 DEF Adds
  <1>4. ASSUME NEW i \in 1..Len(sent')
        PROVE  \/ i \in 1..Len(sent) /\ sent'[i] = sent[i]
               \/ \E j \in 1..Len(events) : sent'[i] = events[j]
    <2>1. /\ Len(sent) \in Nat /\ Len(events) \in Nat /\ i \in 1..Len(sent) + Len(events)
      BY <1>1, <1>2, LenProperties
    <2>2. sent'[i] = IF i <= Len(sent) THEN sent[i] ELSE events[i - Len(sent)]
      BY <1>1, <2>1, ConcatProperties DEF Adds
    <2>3. CASE i <= Len(sent)
      BY <2>1, <2>2, <2>3
    <2>4. CASE ~(i <= Len(sent))
      <3>1. i - Len(sent) \in 1..Len(events)
        BY <2>1, <2>4
      <3>2. QED
        BY <2>2, <2>4, <3>1
    <2>5. QED
      BY <2>3, <2>4
  <1>5. ASSUME got \o queue = sent PROVE got \o queue' = sent'
    <2>1. (got \o queue) \o events = got \o (queue \o events)
      BY <1>1, ConcatAssociative
    <2>2. QED
      BY <1>5, <2>1 DEF Adds
  <1>6. ended' \in BOOLEAN /\ final' \in Terminal \cup {"none"}
    BY DEF Adds, CallTypes
  <1>7. QED
    BY <1>2, <1>3, <1>4, <1>5, <1>6

\* What Emit does: nothing to a stream that has ended or was given its end, or it adds
\* the event, or the event waits for room.
Emits(kind) ==
    /\ pending' = FALSE
    /\ fed' = IF fed = "none" /\ kind \in Terminal THEN kind ELSE fed
    /\ \/ Same /\ waiting' = NoEvent /\ (fed # "none" \/ ended)
       \/ Same /\ waiting' = Event(kind) /\ fed = "none" /\ ~ended
       \/ /\ fed = "none" /\ ~ended /\ waiting' = NoEvent
          /\ \E events : /\ Adds(events) /\ events[Len(events)].kind = kind
                         /\ \A i \in 1..Len(events) :
                               /\ events[i].attempt = attempt
                               /\ events[i].kind = kind \/ (events[i].kind = "start" /\ pending)

LEMMA EmitEmits ==
    ASSUME CallTypes, NEW kind \in Terminal \cup {"output"}, Emit(kind)
    PROVE  Emits(kind)
  <1> DEFINE events == IF pending THEN <<Event("start"), Event(kind)>> ELSE <<Event(kind)>>
             silent == fed # "none" \/ ended
             room == Len(queue) + Len(events) <= Capacity
  <1>1. /\ pending' = FALSE
        /\ fed' = IF fed = "none" /\ kind \in Terminal THEN kind ELSE fed
        /\ waiting' = IF silent \/ room THEN NoEvent ELSE Event(kind)
        /\ IF silent \/ ~room THEN Same ELSE Put(events)
    BY DEF Emit, Same
  <1>2. /\ Event("start") \in Events /\ Event(kind) \in Events
        /\ Event("start").attempt = attempt /\ Event("start").kind = "start"
        /\ Event(kind).attempt = attempt /\ Event(kind).kind = kind
    BY DEF Event, Events, Shown, CallTypes
  <1>3. /\ events \in Seq(Events) /\ events # <<>>
        /\ \A i \in 1..Len(events) :
              /\ events[i].attempt = attempt
              /\ events[i].kind = kind \/ (events[i].kind = "start" /\ pending)
        /\ events[Len(events)].kind = kind
    <2>1. CASE pending
      BY <1>2, <2>1
    <2>2. CASE ~pending
      BY <1>2, <2>2
    <2>3. QED
      BY <2>1, <2>2
  <1>4. CASE ~silent /\ room
    <2>1. Adds(events)
      BY <1>1, <1>3, <1>4 DEF Adds, Put
    <2>2. QED
      BY <1>1, <1>3, <1>4, <2>1 DEF Emits
  <1>5. CASE silent
    BY <1>1, <1>5 DEF Emits
  <1>6. CASE ~silent /\ ~room
    BY <1>1, <1>6 DEF Emits
  <1>7. QED
    BY <1>4, <1>5, <1>6
-----------------------------------------------------------------------------
\* What the actions share.

\* A producer that emits shows what is of its attempt, and only before the end.
LEMMA EmitKeeps ==
    ASSUME CallInv, NEW kind \in Terminal \cup {"output"}, Emits(kind),
           pc # "over", pc' # "over", attempt' = attempt,
           visible' = (visible \/ kind = "output"), UNCHANGED <<got, reader, recorded>>
    PROVE  /\ CallTypes' /\ Streamed'
           /\ OneAttemptShown'
           /\ fed' = "none" =>
                 \A i \in 1..Len(sent') :
                    sent'[i].kind \in Shown => visible' /\ sent'[i].attempt = attempt'
           /\ waiting'.kind = "output" => fed' = "none" /\ visible' /\ waiting'.attempt = attempt'
           /\ final' # "none" => final' = fed'
           /\ waiting'.kind \in Terminal => waiting'.kind = fed'
           /\ \A i \in 1..Len(recorded') : recorded'[i] = fed'
           /\ fed' = "none" => fed = "none" /\ kind = "output"
           /\ waiting' # NoEvent => final' = "none"
           /\ final' # "none" => final # "none" \/ (waiting' = NoEvent /\ kind \in Terminal)
  <1> USE DEF CallInv
  <1>1. /\ visible \in BOOLEAN /\ attempt \in Nat /\ kind # "none" /\ kind # "start"
        /\ Event(kind) \in [kind : Terminal \cup {"output"}, attempt : Nat]
        /\ Event(kind).kind = kind /\ Event(kind).attempt = attempt /\ Event(kind) # NoEvent
        /\ NoEvent.kind = "none"
    BY DEF CallTypes, Event, NoEvent, Terminal
  <1>2. fed' = "none" => fed = "none" /\ kind = "output"
    BY DEF Emits, Terminal
  <1>3. /\ fed' \in Terminal \cup {"none"} /\ recorded' \in Seq(Terminal) /\ got' \in Seq(Events)
        /\ {visible', pending'} \subseteq BOOLEAN /\ attempt' \in Nat
        /\ waiting' \in [kind : Terminal \cup {"output"}, attempt : Nat] \cup {NoEvent}
    BY <1>1 DEF CallTypes, Emits
  <1>4. /\ waiting'.kind = "output" => fed' = "none" /\ visible' /\ waiting'.attempt = attempt'
        /\ waiting'.kind \in Terminal => waiting'.kind = fed'
    BY <1>1 DEF Emits, Terminal
  <1>5. \A i \in 1..Len(recorded') : recorded'[i] = fed'
    <2>1. CASE fed = "none"
      <3>1. recorded = <<>>
        BY <2>1 DEF Kept
      <3>2. QED
        BY <3>1
    <2>2. CASE fed # "none"
      BY <2>2 DEF Kept, Emits
    <2>3. QED
      BY <2>1, <2>2
  <1>6. CASE Same
    <2>1. /\ queue' \in Seq(Items) /\ Len(queue') <= Capacity /\ sent' \in Seq(Events)
          /\ ended' \in BOOLEAN /\ final' \in Terminal \cup {"none"}
      BY <1>6 DEF Same, CallTypes
    <2>2. OneAttemptShown'
      BY <1>6 DEF Same, Attempted, OneAttemptShown
    <2>3. ASSUME fed' = "none", NEW i \in 1..Len(sent'), sent'[i].kind \in Shown
          PROVE  visible' /\ sent'[i].attempt = attempt'
      BY <1>2, <1>6, <2>3 DEF Same, Attempted
    <2>4. final' # "none" => final' = fed' /\ final # "none"
      BY <1>6 DEF Same, Kept, Emits, CallTypes
    <2>5. waiting' # NoEvent => final' = "none"
      BY <1>6 DEF Same, Emits, Streamed
    <2>6. Streamed'
      BY <1>6, <2>5 DEF Same, Streamed, NothingDropped
    <2>7. CallTypes'
      BY <1>3, <2>1 DEF CallTypes
    <2>8. QED
      BY <1>2, <1>4, <1>5, <2>2, <2>3, <2>4, <2>5, <2>6, <2>7
  <1>7. CASE ~Same
    <2>1. PICK events : /\ Adds(events) /\ events[Len(events)].kind = kind
                        /\ \A i \in 1..Len(events) :
                              /\ events[i].attempt = attempt
                              /\ events[i].kind = kind \/ (events[i].kind = "start" /\ pending)
      BY <1>7 DEF Emits
    <2>2. fed = "none" /\ ~ended /\ waiting' = NoEvent
      BY <1>7 DEF Emits
    <2>3. /\ queue' \in Seq(Items) /\ Len(queue') <= Capacity
          /\ sent' \in Seq(Events)
          /\ \A i \in 1..Len(sent') :
                 \/ i \in 1..Len(sent) /\ sent'[i] = sent[i]
                 \/ \E j \in 1..Len(events) : sent'[i] = events[j]
          /\ got \o queue = sent => got \o queue' = sent'
          /\ ended' \in BOOLEAN /\ final' \in Terminal \cup {"none"}
      BY <2>1, AddsSequences
    <2>4. /\ final = "none" /\ got' \o queue' = sent'
          /\ ended' <=> kind \in Terminal
          /\ final' = IF kind \in Terminal THEN kind ELSE "none"
      <3>1. final = "none" /\ got \o queue = sent
        BY <2>2 DEF Streamed
      <3>2. /\ ended' <=> kind \in Terminal
            /\ final' = IF kind \in Terminal THEN kind ELSE "none"
        BY <2>1, <2>2, <3>1 DEF Adds
      <3>3. got' \o queue' = sent'
        BY <2>3, <3>1
      <3>4. QED
        BY <3>1, <3>2, <3>3
    <2>5. CallTypes'
      BY <1>3, <2>3 DEF CallTypes
    <2>6. Streamed'
      BY <1>1, <2>2, <2>4 DEF Streamed, NothingDropped
    <2>7. ASSUME NEW i \in 1..Len(sent'), sent'[i].kind \in Shown
          PROVE  sent'[i].attempt = attempt /\ (fed' = "none" => visible')
      <3>1. CASE i \in 1..Len(sent) /\ sent'[i] = sent[i]
        BY <2>2, <2>7, <3>1 DEF Attempted
      <3>2. CASE \E j \in 1..Len(events) : sent'[i] = events[j]
        BY <1>2, <2>1, <3>2
      <3>3. QED
        BY <2>3, <3>1, <3>2
    <2>8. OneAttemptShown'
      BY <2>7 DEF OneAttemptShown
    <2>9. /\ final' # "none" => final' = fed' /\ waiting' = NoEvent /\ kind \in Terminal
          /\ waiting' = NoEvent
      BY <2>2, <2>4 DEF Emits
    <2>10. QED
      BY <1>2, <1>4, <1>5, <2>5, <2>6, <2>7, <2>8, <2>9
  <1>8. QED
    BY <1>6, <1>7

\* A part that is shown: its attempt is not given up before it is in the queue.
LEMMA ProduceKeeps ==
    ASSUME CallInv, NEW kind \in Terminal \cup {"output"}, NEW inHandler, Produce(kind, inHandler),
           pc # "over", rec # "running", UNCHANGED <<got, reader, recorded>>
    PROVE  CallInv'
  <1>1. /\ Emits(kind) /\ attempt' = attempt /\ visible' = (visible \/ kind = "output")
        /\ pc' = IF waiting' # NoEvent THEN "emit" ELSE IF kind \in Terminal THEN "record" ELSE "next"
        /\ rec' = IF waiting' = NoEvent /\ kind \in Terminal THEN "running" ELSE rec
    BY EmitEmits DEF CallInv, Produce, Proceeds
  <1>2. pc' \in {"emit", "record", "next"}
    BY <1>1
  <1> DEFINE Shows == fed' = "none" =>
                        \A i \in 1..Len(sent') :
                           sent'[i].kind \in Shown => visible' /\ sent'[i].attempt = attempt'
  <1>3. /\ CallTypes' /\ Streamed' /\ OneAttemptShown' /\ Shows
        /\ waiting'.kind = "output" => fed' = "none" /\ visible' /\ waiting'.attempt = attempt'
        /\ final' # "none" => final' = fed'
        /\ waiting'.kind \in Terminal => waiting'.kind = fed'
        /\ \A i \in 1..Len(recorded') : recorded'[i] = fed'
        /\ fed' = "none" => fed = "none" /\ kind = "output"
        /\ final' # "none" => final # "none" \/ (waiting' = NoEvent /\ kind \in Terminal)
    BY <1>1, <1>2, EmitKeeps
  <1>4. Attempted'
    BY <1>1, <1>2, <1>3 DEF Attempted, Emits
  <1>5. recorded' # <<>> \/ rec' # "none" \/ pc' = "settle" => fed' # "none"
    BY <1>1, <1>2, <1>3 DEF CallInv, Kept, Terminal
  <1>6. final' # "none" => rec' = "running" \/ (rec' = "over" /\ recorded' # <<>>)
    BY <1>1, <1>3 DEF CallInv, Kept
  <1>7. rec' = "running" => pc' \in {"record", "settle"}
    BY <1>1
  <1>8. QED
    BY <1>3, <1>4, <1>5, <1>6, <1>7 DEF CallInv, Kept

\* A settlement records the end as soon as it is shown.
LEMMA SettleKeeps ==
    ASSUME CallInv, Settle, pc # "over", UNCHANGED <<got, reader, recorded>>
    PROVE  CallInv'
  <1>1. /\ Emits("aborted") /\ attempt' = attempt /\ visible' = visible /\ pc' = "settle"
        /\ rec' = IF waiting' = NoEvent THEN "running" ELSE "none"
        /\ visible \in BOOLEAN
    BY EmitEmits DEF CallInv, Settle, Terminal, CallTypes
  <1>2. visible' = (visible \/ "aborted" = "output")
    BY <1>1
  <1> DEFINE Shows == fed' = "none" =>
                        \A i \in 1..Len(sent') :
                           sent'[i].kind \in Shown => visible' /\ sent'[i].attempt = attempt'
  <1>3. /\ CallTypes' /\ Streamed' /\ OneAttemptShown' /\ Shows
        /\ waiting'.kind = "output" => fed' = "none" /\ visible' /\ waiting'.attempt = attempt'
        /\ final' # "none" => final' = fed'
        /\ waiting'.kind \in Terminal => waiting'.kind = fed'
        /\ \A i \in 1..Len(recorded') : recorded'[i] = fed'
        /\ fed' = "none" => fed = "none" /\ "aborted" = "output"
        /\ waiting' # NoEvent => final' = "none"
    <2>1. "aborted" \in Terminal \cup {"output"} /\ pc' # "over"
      BY <1>1 DEF Terminal
    <2>2. QED
      BY <1>1, <1>2, <2>1, EmitKeeps
  <1>4. Attempted'
    BY <1>1, <1>3 DEF Attempted, Emits
  <1>5. Kept'
    BY <1>1, <1>3 DEF Kept
  <1>6. QED
    BY <1>3, <1>4, <1>5 DEF CallInv

LEMMA ForcedFits ==
    ASSUME NEW q \in Seq(Items), Len(q) <= Capacity
    PROVE  Forced(q) \in Seq(Items) /\ Len(Forced(q)) <= Capacity
  <1>1. Marker \in Items
    BY DEF Items
  <1>2. CASE Len(q) < Capacity
    BY <1>1, <1>2, ProviderAssumption DEF Forced
  <1>3. CASE ~(Len(q) < Capacity)
    <2>1. q # <<>> /\ Len(q) = Capacity
      BY <1>3, ProviderAssumption
    <2>2. Tail(q) \in Seq(Items) /\ Len(Tail(q)) = Len(q) - 1
      BY <2>1, HeadTailProperties
    <2>3. QED
      BY <1>1, <1>3, <2>1, <2>2, ProviderAssumption DEF Forced
  <1>4. QED
    BY <1>2, <1>3

\* The end of the producer drops events only of a stream without a terminal event.
LEMMA OverKeeps ==
    ASSUME CallInv, Over, rec # "running", UNCHANGED <<got, reader, recorded>>
    PROVE  CallInv'
  <1> USE DEF CallInv
  <1>1. /\ UNCHANGED <<attempt, visible, pending, rec, final, fed, sent, got, reader, recorded>>
        /\ pc' = "over" /\ ended' = TRUE /\ waiting' = NoEvent
        /\ queue' = IF ended THEN queue ELSE Forced(queue)
    BY DEF Over, Finish
  <1>2. queue' \in Seq(Items) /\ Len(queue') <= Capacity
    BY <1>1, ForcedFits DEF CallTypes
  <1>3. CallTypes'
    BY <1>1, <1>2 DEF CallTypes
  <1>4. Attempted'
    BY <1>1 DEF Attempted, OneAttemptShown, NoEvent
  <1>5. Streamed'
    BY <1>1 DEF Streamed, NothingDropped
  <1>6. Kept'
    BY <1>1 DEF Kept, NoEvent, Terminal
  <1>7. QED
    BY <1>3, <1>4, <1>5, <1>6

LEMMA BackoffKeeps ==
    ASSUME CallInv, NEW inHandler, Backoff(inHandler), MayRetry, pc # "over", rec # "running",
           UNCHANGED <<got, reader, recorded>>
    PROVE  CallInv'
  <1> USE DEF CallInv, Backoff
  <1>1. CallTypes'
    BY DEF CallTypes
  <1>2. Attempted'
    BY DEF Attempted, OneAttemptShown, NoEvent, MayRetry
  <1>3. Streamed'
    BY DEF Streamed, NothingDropped
  <1>4. Kept'
    BY DEF Kept, NoEvent, Terminal
  <1>5. QED
    BY <1>1, <1>2, <1>3, <1>4

LEMMA StartKeeps ==
    ASSUME CallInv, StartAttempt, pc \in {"new", "retry"}, UNCHANGED producerOthers
    PROVE  CallInv'
  <1> USE DEF CallInv, StartAttempt, streamVars, producerOthers, readerVars
  <1>1. CallTypes'
    <2>1. attempt' \in Nat /\ {visible', pending', ended'} \subseteq BOOLEAN
      <3>1. attempt \in Nat /\ attempt' = attempt + 1
        BY DEF CallTypes
      <3>2. visible' = FALSE /\ pending' = FALSE /\ ended' = ended /\ ended \in BOOLEAN
        BY DEF CallTypes
      <3>3. attempt' \in Nat
        BY <3>1
      <3>4. visible' \in BOOLEAN /\ pending' \in BOOLEAN /\ ended' \in BOOLEAN
        BY <3>2
      <3>5. QED
        BY <3>3, <3>4
    <2>2. UNCHANGED <<queue, got, sent, waiting, fed, final, recorded>>
      OBVIOUS
    <2>3. QED
      BY <2>1, <2>2 DEF CallTypes
  <1>2. Attempted'
    BY DEF Attempted, OneAttemptShown
  <1>3. Streamed'
    BY DEF Streamed, NothingDropped
  <1>4. Kept'
    BY DEF Kept
  <1>5. QED
    BY <1>1, <1>2, <1>3, <1>4

\* A failure settles, retries or is shown; a cancellation that is caught does that or ends.
LEMMA FailedKeeps ==
    ASSUME CallInv, NEW retryable \in BOOLEAN, Failed(retryable), pc # "over", rec # "running",
           UNCHANGED <<got, reader, recorded>>
    PROVE  CallInv'
  <1>1. "error" \in Terminal \cup {"output"}
    BY DEF Terminal
  <1>2. QED
    BY <1>1, SettleKeeps, BackoffKeeps, ProduceKeeps DEF Failed

LEMMA CaughtKeeps ==
    ASSUME CallInv, Caught, pc # "over", rec # "running", UNCHANGED <<got, reader, recorded>>
    PROVE  CallInv'
  BY OverKeeps, SettleKeeps, FailedKeeps DEF Caught

\* An event that waited for room: the stream has not ended, or its reader has left.
LEMMA PutEndsKeeps ==
    ASSUME CallInv, PutEnds
    PROVE  CallInv'
  <1> USE DEF CallInv
  <1> DEFINE events == <<waiting>>
  <1>1. /\ waiting # NoEvent /\ waiting \in [kind : Terminal \cup {"output"}, attempt : Nat]
        /\ Len(queue) < Capacity /\ waiting' = NoEvent
        /\ UNCHANGED <<attempt, visible, pending, fed, recorded, got, reader>>
    BY DEF PutEnds, attemptVars, producerOthers, readerVars, CallTypes
  <1>2. /\ waiting \in Events /\ waiting.kind \in Terminal \cup {"output"} /\ waiting.kind # "none"
        /\ events \in Seq(Events) /\ Len(events) = 1 /\ events[1] = waiting /\ events # <<>>
        /\ NoEvent.kind = "none"
    BY <1>1 DEF Events, Shown, Terminal, NoEvent
  <1>3. final = "none"
    BY <1>1 DEF Streamed
  <1>4. Adds(events)
    <2>1. Put(events)
      BY DEF PutEnds
    <2>2. Len(queue) + Len(events) <= Capacity
      BY <1>1, <1>2, ProviderAssumption DEF CallTypes
    <2>3. QED
      BY <1>2, <2>1, <2>2 DEF Adds, Put
  <1>5. /\ queue' \in Seq(Items) /\ Len(queue') <= Capacity
        /\ sent' \in Seq(Events)
        /\ \A i \in 1..Len(sent') :
              \/ i \in 1..Len(sent) /\ sent'[i] = sent[i]
              \/ \E j \in 1..Len(events) : sent'[i] = events[j]
        /\ got \o queue = sent => got \o queue' = sent'
        /\ ended' \in BOOLEAN /\ final' \in Terminal \cup {"none"}
    BY <1>4, AddsSequences
  <1>6. CallTypes'
    <2>1. /\ waiting' \in [kind : Terminal \cup {"output"}, attempt : Nat] \cup {NoEvent}
          /\ {fed', final'} \subseteq Terminal \cup {"none"} /\ recorded' \in Seq(Terminal)
          /\ {visible', pending', ended'} \subseteq BOOLEAN /\ attempt' \in Nat
          /\ got' \in Seq(Events)
      BY <1>1, <1>5 DEF CallTypes
    <2>2. QED
      BY <1>5, <2>1 DEF CallTypes
  <1>7. /\ ended' <=> ended \/ waiting.kind \in Terminal
        /\ final' = IF waiting.kind \in Terminal THEN waiting.kind ELSE "none"
    BY <1>2, <1>3, <1>4 DEF Adds
  <1>8. /\ pc \in {"emit", "settle"}
        /\ pc = "settle" => pc' = "settle" /\ rec' = "running"
        /\ pc = "emit" => pc' = IF waiting.kind \in Terminal THEN "record" ELSE "next"
        /\ pc = "emit" => rec' = IF waiting.kind \in Terminal THEN "running" ELSE rec
    BY DEF PutEnds, Proceeds
  <1>9. Attempted'
    <2>1. ASSUME NEW i \in 1..Len(sent'), sent'[i].kind \in Shown
          PROVE  \/ i \in 1..Len(sent) /\ sent'[i] = sent[i]
                 \/ fed = "none" /\ visible /\ sent'[i].attempt = attempt
      <3>1. CASE sent'[i] = waiting
        <4>1. waiting.kind = "output"
          BY <1>2, <2>1, <3>1 DEF Shown, Terminal
        <4>2. QED
          BY <3>1, <4>1 DEF Attempted
      <3>2. QED
        BY <1>2, <1>5, <3>1
    <2>2. OneAttemptShown'
      <3>1. CASE fed = "none"
        <4>1. \A i \in 1..Len(sent') : sent'[i].kind \in Shown => sent'[i].attempt = attempt
          BY <2>1, <3>1 DEF Attempted
        <4>2. QED
          BY <4>1 DEF OneAttemptShown
      <3>2. CASE fed # "none"
        <4>1. \A i \in 1..Len(sent') : sent'[i].kind \in Shown => i \in 1..Len(sent) /\ sent'[i] = sent[i]
          BY <2>1, <3>2
        <4>2. QED
          BY <4>1 DEF Attempted, OneAttemptShown
      <3>3. QED
        BY <3>1, <3>2
    <2>3. fed' = "none" =>
            \A i \in 1..Len(sent') : sent'[i].kind \in Shown => visible' /\ sent'[i].attempt = attempt'
      BY <1>1, <2>1 DEF Attempted
    <2>4. QED
      BY <1>1, <1>2, <1>8, <2>2, <2>3 DEF Attempted
  <1>10. Streamed'
    <2>1. pc # "over" /\ pc' # "over"
      BY <1>8
    <2>2. ended => reader \in {"closing", "over"}
      BY <1>3, <2>1 DEF Streamed
    <2>3. ~ended => got' \o queue' = sent'
      BY <1>1, <1>5 DEF Streamed
    <2>4. QED
      BY <1>1, <1>2, <1>7, <2>1, <2>2, <2>3 DEF Streamed, NothingDropped
  <1>11. Kept'
    <2>1. waiting.kind \in Terminal => waiting.kind = fed /\ fed # "none"
      BY <1>2 DEF Kept
    <2>2. /\ final' # "none" => final' = fed' /\ waiting.kind \in Terminal
          /\ waiting'.kind \notin Terminal
          /\ \A i \in 1..Len(recorded') : recorded'[i] = fed'
      BY <1>1, <1>2, <1>7, <2>1 DEF Kept, Terminal
    <2>3. recorded' # <<>> \/ rec' # "none" \/ pc' = "settle" => fed' # "none"
      BY <1>1, <1>8, <2>1 DEF Kept
    <2>4. rec' = "running" => pc' \in {"record", "settle"}
      BY <1>8 DEF Kept
    <2>5. waiting.kind \in Terminal => rec' = "running"
      BY <1>8
    <2>6. QED
      BY <2>2, <2>3, <2>4, <2>5 DEF Kept
  <1>12. QED
    BY <1>6, <1>9, <1>10, <1>11

-----------------------------------------------------------------------------
\* The reader.

LEMMA HeadMoves ==
    ASSUME NEW s \in Seq(Events), NEW q \in Seq(Items), q # <<>>, Head(q) \in Events
    PROVE  /\ Append(s, Head(q)) \in Seq(Events)
           /\ Append(s, Head(q)) \o Tail(q) = s \o q
  <1>1. Append(s, Head(q)) \in Seq(Events)
    OBVIOUS
  <1>2. /\ s \in Seq(Items) /\ Append(s, Head(q)) \in Seq(Items)
        /\ Tail(q) \in Seq(Items) /\ Len(Tail(q)) = Len(q) - 1
        /\ \A i \in 1..Len(Tail(q)) : Tail(q)[i] = q[i + 1]
        /\ Len(s) \in Nat /\ Len(q) \in Nat
    BY <1>1, SeqMonotonic, HeadTailProperties, LenProperties DEF Items
  <1>3. /\ Len(Append(s, Head(q))) = Len(s) + 1
        /\ \A i \in 1..Len(s) : Append(s, Head(q))[i] = s[i]
        /\ Append(s, Head(q))[Len(s) + 1] = q[1]
    OBVIOUS
  <1> DEFINE one == Append(s, Head(q)) \o Tail(q)
             two == s \o q
  <1>4. /\ one \in Seq(Items) /\ Len(one) = Len(s) + Len(q)
        /\ \A i \in 1..Len(s) + Len(q) :
              one[i] = IF i <= Len(s) + 1 THEN Append(s, Head(q))[i] ELSE Tail(q)[i - (Len(s) + 1)]
    BY <1>2, <1>3, ConcatProperties
  <1>5. /\ two \in Seq(Items) /\ Len(two) = Len(s) + Len(q)
        /\ \A i \in 1..Len(s) + Len(q) : two[i] = IF i <= Len(s) THEN s[i] ELSE q[i - Len(s)]
    BY <1>2, ConcatProperties
  <1>6. ASSUME NEW i \in 1..Len(s) + Len(q) PROVE one[i] = two[i]
    <2>1. CASE i <= Len(s)
      BY <1>2, <1>3, <1>4, <1>5, <2>1
    <2>2. CASE i = Len(s) + 1
      BY <1>2, <1>3, <1>4, <1>5, <2>2
    <2>3. CASE i > Len(s) + 1
      <3>1. i - (Len(s) + 1) \in 1..Len(Tail(q)) /\ i - Len(s) = (i - (Len(s) + 1)) + 1
        BY <1>2, <2>3
      <3>2. Tail(q)[i - (Len(s) + 1)] = q[i - Len(s)]
        BY <1>2, <3>1
      <3>3. QED
        BY <1>2, <1>4, <1>5, <2>3, <3>2
    <2>4. QED
      BY <1>2, <2>1, <2>2, <2>3
  <1>7. one = two
    <2> HIDE DEF one, two
    <2>1. Len(one) = Len(two) /\ \A i \in 1..Len(one) : one[i] = two[i]
      BY <1>4, <1>5, <1>6
    <2>2. QED
      BY <1>4, <1>5, <2>1, SeqEqual
  <1>8. QED
    BY <1>1, <1>7

\* Nothing but events is in the queue of a stream that has lost nothing.
LEMMA HeadIsEvent ==
    ASSUME CallTypes, got \o queue = sent, queue # <<>>
    PROVE  Head(queue) \in Events
  <1>1. /\ got \in Seq(Items) /\ queue \in Seq(Items) /\ sent \in Seq(Events)
        /\ Len(got) \in Nat /\ Len(queue) \in Nat \ {0}
    BY SeqMonotonic, LenProperties, EmptySeq DEF CallTypes, Items
  <1>2. /\ Len(sent) = Len(got) + Len(queue)
        /\ sent[Len(got) + 1] = queue[1]
    BY <1>1, ConcatProperties
  <1>3. sent[Len(got) + 1] \in Events
    BY <1>1, <1>2, ElementOfSeq
  <1>4. QED
    BY <1>1, <1>2, <1>3

\* A reader that leaves ends the stream, and hears of nothing it may have missed.
LEMMA CloseKeeps ==
    ASSUME CallInv, NEW q \in Seq(Items), Len(q) <= Capacity, CloseWith(q),
           got' \in Seq(Events), UNCHANGED readerOthers
    PROVE  CallInv'
  <1> USE DEF CallInv, readerOthers, attemptVars, recordVars
  <1>1. /\ queue' \in Seq(Items) /\ Len(queue') <= Capacity
        /\ ended' = TRUE /\ reader' = "closing"
    BY ForcedFits DEF CloseWith
  <1>2. CallTypes'
    BY <1>1 DEF CallTypes
  <1>3. Attempted'
    BY DEF Attempted, OneAttemptShown
  <1>4. Streamed'
    BY <1>1 DEF Streamed, NothingDropped
  <1>5. Kept'
    BY DEF Kept
  <1>6. QED
    BY <1>2, <1>3, <1>4, <1>5

LEMMA ReaderGetsKeeps ==
    ASSUME CallInv, ReaderGets
    PROVE  CallInv'
  <1> DEFINE item == Head(queue)
  <1>1. /\ queue \in Seq(Items) /\ queue # <<>> /\ reader = "get"
        /\ item \in Items /\ Tail(queue) \in Seq(Items) /\ Len(Tail(queue)) <= Capacity
        /\ UNCHANGED readerOthers
    <2>1. /\ queue \in Seq(Items) /\ queue # <<>> /\ reader = "get" /\ Len(queue) <= Capacity
          /\ UNCHANGED readerOthers
      BY DEF CallInv, CallTypes, ReaderGets
    <2>2. item \in Items /\ Tail(queue) \in Seq(Items) /\ Len(Tail(queue)) = Len(queue) - 1
      BY <2>1, HeadTailProperties
    <2>3. QED
      BY <2>1, <2>2, ProviderAssumption
  <1>2. Marker \notin Events
    BY DEF Marker, Events, Terminal, Shown
  <1>3. item # Marker => item \in Events /\ Append(got, item) \in Seq(Events)
    BY <1>1 DEF Items, CallInv, CallTypes
  <1>4. CASE item = Marker
    <2>1. /\ queue' = Tail(queue) /\ UNCHANGED <<got, ended>>
          /\ reader' = IF final = "none" THEN "again" ELSE "result"
      BY <1>2, <1>4 DEF ReaderGets
    <2>2. ended /\ final = "none" /\ pc = "over"
      <3>1. got \o queue # sent
        BY <1>1, <1>2, <1>4, HeadIsEvent DEF CallInv
      <3>2. QED
        BY <1>1, <3>1 DEF CallInv, Streamed, NothingDropped
    <2>3. CallTypes'
      BY <1>1, <2>1 DEF CallInv, CallTypes, readerOthers, attemptVars, recordVars
    <2>4. Streamed'
      BY <1>1, <2>1, <2>2 DEF CallInv, Streamed, NothingDropped, readerOthers
    <2>5. Attempted' /\ Kept'
      BY <1>1 DEF CallInv, Attempted, OneAttemptShown, Kept, readerOthers, attemptVars, recordVars
    <2>6. QED
      BY <2>3, <2>4, <2>5 DEF CallInv
  <1>5. CASE item # Marker /\ signal
    <2>1. got' = Append(got, item) /\ CloseWith(Tail(queue))
      BY <1>5 DEF ReaderGets
    <2>2. QED
      BY <1>1, <1>3, <1>5, <2>1, CloseKeeps
  <1>6. CASE item # Marker /\ ~signal
    <2>1. /\ got' = Append(got, item) /\ queue' = Tail(queue) /\ UNCHANGED ended
          /\ reader' \in {"result", "handle"}
      BY <1>6 DEF ReaderGets
    <2>2. got' \o queue' = got \o queue
      BY <1>1, <1>3, <1>6, <2>1, HeadMoves DEF CallInv, CallTypes
    <2>3. CallTypes'
      BY <1>1, <1>3, <1>6, <2>1 DEF CallInv, CallTypes, readerOthers, attemptVars, recordVars
    <2>4. Streamed'
      BY <1>1, <2>1, <2>2 DEF CallInv, Streamed, NothingDropped, readerOthers
    <2>5. Attempted' /\ Kept'
      BY <1>1 DEF CallInv, Attempted, OneAttemptShown, Kept, readerOthers, attemptVars, recordVars
    <2>6. QED
      BY <2>3, <2>4, <2>5 DEF CallInv
  <1>7. QED
    BY <1>4, <1>5, <1>6

\* Nothing the invariant speaks of changes.
LEMMA QuietKeeps ==
    ASSUME CallInv,
           UNCHANGED <<pc, attempt, visible, streamVars, recordVars, got>>,
           pending' \in BOOLEAN /\ (pending' => ~visible),
           reader \in {"closing", "over"} => reader' \in {"closing", "over"}
    PROVE  CallInv'
  <1> USE DEF CallInv, streamVars, recordVars
  <1>1. CallTypes'
    BY DEF CallTypes
  <1>2. Attempted'
    BY DEF Attempted, OneAttemptShown
  <1>3. Streamed'
    BY DEF Streamed, NothingDropped
  <1>4. Kept'
    BY DEF Kept
  <1>5. QED
    BY <1>1, <1>2, <1>3, <1>4

-----------------------------------------------------------------------------
LEMMA CallStep ==
    ASSUME CallInv, [Next]_vars
    PROVE  CallInv'
  <1> USE DEF producerOthers, readerVars
  <1> DEFINE Left == {"closing", "over"}
  <1>1. pending \in BOOLEAN /\ (pending => ~visible)
    BY DEF CallInv, CallTypes, Attempted
  <1>2. rec = "running" => pc \in {"record", "settle"}
    BY DEF CallInv, Kept
  <1>3. CASE Begin
    BY <1>2, <1>3, OverKeeps, SettleKeeps, StartKeeps DEF Begin
  <1>4. CASE Interrupted
    BY <1>4, SettleKeeps DEF Interrupted
  <1>5. CASE CancelArrives
    BY <1>2, <1>5, CaughtKeeps DEF CancelArrives
  <1>6. CASE RetryEnds
    BY <1>2, <1>6, OverKeeps, SettleKeeps, StartKeeps DEF RetryEnds
  <1>7. CASE PutEnds
    BY <1>7, PutEndsKeeps
  <1>8. CASE RecordingEnds
    <2>1. fed \in Terminal /\ recorded \in Seq(Terminal) /\ recorded' = Append(recorded, fed)
      BY <1>8 DEF RecordingEnds, CallInv, Kept, CallTypes
    <2>2. /\ recorded' \in Seq(Terminal) /\ recorded' # <<>>
          /\ \A i \in 1..Len(recorded') : recorded'[i] = fed
      BY <2>1 DEF CallInv, Kept
    <2>3. /\ rec' = "over" /\ UNCHANGED <<producerVars, streamVars, readerVars>>
      BY <1>8 DEF RecordingEnds
    <2>4. CallTypes'
      BY <2>2, <2>3 DEF CallInv, CallTypes, producerVars, attemptVars, streamVars
    <2>5. Attempted' /\ Streamed'
      BY <2>3 DEF CallInv, Attempted, OneAttemptShown, Streamed, NothingDropped, producerVars, attemptVars, streamVars
    <2>6. Kept'
      BY <2>1, <2>2, <2>3 DEF CallInv, Kept, producerVars, streamVars, Terminal
    <2>7. QED
      BY <2>4, <2>5, <2>6 DEF CallInv
  <1>9. CASE Recorded
    BY <1>9, OverKeeps DEF Recorded
  <1>10. CASE ReaderGets
    BY <1>10, ReaderGetsKeeps
  <1>11. CASE ReaderHandles \/ ReaderEnds
    <2>1. /\ UNCHANGED <<pc, attempt, visible, pending, streamVars, recordVars, got>>
          /\ reader \in Left => reader' \in Left
      BY <1>11 DEF ReaderHandles, ReaderEnds, readerOthers, attemptVars, streamVars, recordVars
    <2>2. QED
      BY <1>1, <2>1, QuietKeeps
  <1>12. CASE HiddenPart
    BY <1>1, <1>12, QuietKeeps DEF HiddenPart, recordVars
  <1>13. CASE VisiblePart
    <2>1. "output" \in Terminal \cup {"output"}
      OBVIOUS
    <2>2. QED
      BY <1>2, <1>13, <2>1, ProduceKeeps DEF VisiblePart, PartReceived
  <1>14. CASE LastPart
    <2>1. "done" \in Terminal \cup {"output"} /\ "error" \in Terminal \cup {"output"}
      BY DEF Terminal
    <2>2. QED
      BY <1>2, <1>14, <2>1, ProduceKeeps DEF LastPart, PartReceived
  <1>15. CASE RetryPart
    BY <1>2, <1>15, BackoffKeeps DEF RetryPart, PartReceived
  <1>16. CASE SourceFails
    BY <1>2, <1>16, FailedKeeps DEF SourceFails, PartReceived
  <1>17. CASE CancelReader
    <2>1. /\ queue \in Seq(Items) /\ Len(queue) <= Capacity /\ CloseWith(queue)
          /\ got' \in Seq(Events) /\ UNCHANGED readerOthers
      BY <1>17 DEF CancelReader, CallInv, CallTypes
    <2>2. QED
      BY <2>1, CloseKeeps
  <1>18. CASE Abort \/ Expire \/ UNCHANGED vars
    <2>1. UNCHANGED <<pc, attempt, visible, pending, streamVars, recordVars, readerVars>>
      BY <1>18 DEF Abort, Expire, vars, producerVars, attemptVars
    <2>2. QED
      BY <1>1, <2>1, QuietKeeps
  <1>19. QED
    BY <1>3, <1>4, <1>5, <1>6, <1>7, <1>8, <1>9, <1>10, <1>11, <1>12, <1>13, <1>14, <1>15,
       <1>16, <1>17, <1>18 DEF Next, ProducerStep, ReaderStep

THEOREM CallCorrect == Spec => []CallInv
  BY CallInit, CallStep, PTL DEF Spec

\* However attempts fail, time out or are cancelled, whatever is shown is of one attempt.
THEOREM OneAttemptIsShown == Spec => []OneAttemptShown
  <1>1. CallInv => OneAttemptShown
    BY DEF CallInv, Attempted
  <1>2. QED
    BY <1>1, CallCorrect, PTL

\* A reader that is told how the call ended gets every event before the end, for every
\* capacity of the queue.
THEOREM NothingIsDropped == Spec => []NothingDropped
  <1>1. CallInv => NothingDropped
    BY DEF CallInv, Streamed
  <1>2. QED
    BY <1>1, CallCorrect, PTL

\* The end a stream has shown is recorded, as it was shown, before its producer is over.
THEOREM ShownEndIsRecorded == Spec => []ShownIsRecorded
  <1>1. ASSUME CallInv, pc = "over", final # "none"
        PROVE  /\ rec = "over" /\ recorded # <<>>
               /\ \A i \in 1..Len(recorded) : recorded[i] = final
    BY <1>1 DEF CallInv, Kept
  <1>2. CallInv => ShownIsRecorded
    BY <1>1 DEF ShownIsRecorded
  <1>3. QED
    BY <1>2, CallCorrect, PTL
=============================================================================
