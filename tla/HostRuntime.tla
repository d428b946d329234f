------------------------------ MODULE HostRuntime -----------------------------
(***************************************************************************)
(* One host runs one operation at a time, for whoever asks:                *)
(*                                                                         *)
(*   src/src/loushang/harness/runtime/execution.py (HostRuntime)           *)
(*   src/src/loushang/harness/events/bus.py (OrderedEventBus)              *)
(*                                                                         *)
(* A task is a run, the owner that disposes of the host or whoever settles *)
(* its runs. An action is what one of them does between two awaits. The    *)
(* bus chains a task per event: each waits for the one before it, and who  *)
(* dispatches an event waits for its task.                                 *)
(*                                                                         *)
(* Left out: run identifiers and results, the kind of the event a run ends *)
(* with (_abort_requested), a host without listeners or without drivers.   *)
(* An operation is told to stop by the abort driver and ends when it will. *)
(***************************************************************************)
EXTENDS Naturals, Sequences, FiniteSets

CONSTANTS
    Keys, NoKey, Owner, Settler, Note,
    MaxRuns,        \* bound: runs asked for
    MaxTroubles     \* bound: aborts, cancellations, settlements, failures of listeners
                    \* and drivers, and runs of the driver that are none of the host's

ASSUME BoundsAssumption == {MaxRuns, MaxTroubles} \subseteq Nat

VARIABLES
    status,     \* _status
    active,     \* _active_task
    idle,       \* _idle_event
    pc,         \* what each task waits for
    cancel,     \* the tasks a CancelledError is on its way to
    deferred,   \* _deferred_tasks
    key,        \* of each deferred run
    byKey,      \* _deferred_by_key
    driver,     \* is_running_driver, of a run that is not the host's
    mail,       \* the events of the bus that are not over, oldest first
    poisoned,   \* the last event of the bus was cancelled
    queued,     \* dispose: the runs it has cancelled
    settle,     \* settle_runs: its arguments and locals
    cut,        \* history: a dispose was cancelled
    left        \* what is left of MaxTroubles

hostVars == <<status, active, idle>>
taskVars == <<pc, cancel>>
deferVars == <<deferred, key, byKey>>
busVars == <<mail, poisoned>>
otherVars == <<driver, queued, settle, cut, left>>
vars == <<hostVars, taskVars, deferVars, busVars, otherVars>>

Runs == 1..MaxRuns       \* in the order they were asked for
NoRun == 0

Tasks == Runs \cup {Owner, Settler}

ASSUME TasksAssumption ==
    /\ {Owner, Settler, Note} \cap Runs = {}
    /\ Owner # Settler /\ Note \notin {Owner, Settler}
    /\ NoKey \notin Keys

Waiting == {"looping", "idling", "driver", "draining"}   \* wait_for_idle and its caller's loop
Claimed == {"starting", "working"}

Stopping == status \in {"disposing", "disposed"}
IsActive == status \in {"running", "aborting", "disposing"} \/ (status = "idle" /\ driver)
New(r) == pc[r] = "new" /\ \A q \in Runs : q < r => pc[q] # "new"
Live(r) == pc[r] # "done"

NoSettle == [tasks |-> {}, cancels |-> FALSE, cancelled |-> {}]

Trouble == left > 0 /\ left' = left - 1

Init ==
    /\ status = "idle" /\ active = NoRun /\ idle = TRUE
    /\ pc = [x \in Tasks |-> "new"] /\ cancel = {}
    /\ deferred = {} /\ key = [r \in Runs |-> NoKey] /\ byKey = [k \in Keys |-> NoRun]
    /\ driver = FALSE
    /\ mail = <<>> /\ poisoned = FALSE
    /\ queued = {} /\ settle = NoSettle
    /\ cut = FALSE
    /\ left = MaxTroubles

-----------------------------------------------------------------------------
\* The bus.

Event(x, m) == Append(m, [from |-> x, doomed |-> poisoned])

\* A task that waits for an event of the bus takes it along when it is cancelled: a
\* publisher its own, whoever drains the bus the last one. The task of an event that
\* has begun takes those before it along, and those after it never wait it out.
TakenAlong(T) ==
    {n \in DOMAIN mail :
        mail[n].from \in T \/ (n = Len(mail) /\ \E x \in T : pc[x] = "draining")}

\* The tasks of T are cancelled, then those of `later` publish.
Dooms(T, later) ==
    LET Publish(m) == m \o [n \in DOMAIN later |-> [from |-> later[n], doomed |-> poisoned']]
    IN  IF TakenAlong(T) = {}
        THEN UNCHANGED poisoned /\ mail' = Publish(mail)
        ELSE LET first == CHOOSE n \in TakenAlong(T) : \A k \in TakenAlong(T) : n <= k IN
             /\ poisoned' = TRUE
             /\ \E begun \in {1, first} :
                    mail' = Publish([n \in DOMAIN mail |->
                                        [mail[n] EXCEPT !.doomed = @ \/ n >= begun]])

-----------------------------------------------------------------------------
\* Runs.

\* Mutant of CanRun: a host that is being disposed of still takes runs.
CanRunDisposing == status # "disposed"

\* _ensure_can_run, as far as its end.
CanRun == ~Stopping

\* The head of _run_resolved.
Claim(r) ==
    /\ status' = "running" /\ active' = r /\ idle' = FALSE
    /\ pc' = [pc EXCEPT ![r] = "starting"]
    /\ mail' = Event(r, mail)

Run(r) ==
    /\ New(r) /\ CanRun /\ ~IsActive
    /\ Claim(r)
    /\ UNCHANGED <<cancel, deferVars, poisoned, otherVars>>

\* defer_run_handle: an equivalent run that is not over is returned instead.
Defer(r, k) ==
    /\ New(r)
    /\ k \in Keys => \A q \in Runs : byKey[k] = q => ~Live(q)
    /\ pc' = [pc EXCEPT ![r] = "looping"]
    /\ deferred' = deferred \cup {r}
    /\ key' = [key EXCEPT ![r] = k]
    /\ byKey' = IF k = NoKey THEN byKey ELSE [byKey EXCEPT ![k] = r]
    /\ UNCHANGED <<hostVars, cancel, busVars, otherVars>>

\* Mutant of Observed: the key of the run that is over is free.
ObservedByKey(r) ==
    /\ r \in deferred /\ ~Live(r)
    /\ deferred' = deferred \ {r} /\ key' = [key EXCEPT ![r] = NoKey]
    /\ byKey' = IF key[r] = NoKey THEN byKey ELSE [byKey EXCEPT ![key[r]] = NoRun]
    /\ UNCHANGED <<hostVars, taskVars, busVars, otherVars>>

\* _observe_deferred_task, called by the loop some time after the task is over.
Observed(r) ==
    /\ r \in deferred /\ ~Live(r)
    /\ deferred' = deferred \ {r} /\ key' = [key EXCEPT ![r] = NoKey]
    /\ byKey' = [k \in Keys |-> IF byKey[k] = r THEN NoRun ELSE byKey[k]]
    /\ UNCHANGED <<hostVars, taskVars, busVars, otherVars>>

\* The waiters of the idle event look again.
Woken(p) == [x \in Tasks |-> IF p[x] = "idling" THEN "looping" ELSE p[x]]

ReadyAgain == IF Stopping THEN status ELSE "idle"

\* The operation returns, raises or is cancelled: the head of _finish_run.
WorkEnds(r) ==
    /\ pc[r] = "working"
    /\ status' = ReadyAgain /\ active' = NoRun
    /\ pc' = [pc EXCEPT ![r] = "finishing"]
    /\ cancel' = cancel \ {r}
    /\ mail' = Event(r, mail)
    /\ UNCHANGED <<idle, deferVars, poisoned, otherVars>>

\* Mutant of StartFails: only an end is told to those that wait.
StartFailsSilently(r) ==
    /\ status' = ReadyAgain /\ active' = NoRun
    /\ pc' = [pc EXCEPT ![r] = "done"]
    /\ UNCHANGED idle

StartFails(r) ==
    /\ status' = ReadyAgain /\ active' = NoRun /\ idle' = TRUE
    /\ pc' = Woken([pc EXCEPT ![r] = "done"])

\* Mutant of RunOver: the event is set whoever runs by now.
RunOverBlindly(r) ==
    /\ idle' = TRUE /\ pc' = Woken([pc EXCEPT ![r] = "done"])
    /\ UNCHANGED <<status, active>>

\* The end of _finish_run: another run may have begun while the listeners were told.
RunOver(r) ==
    /\ IF active = NoRun
       THEN idle' = TRUE /\ pc' = Woken([pc EXCEPT ![r] = "done"])
       ELSE pc' = [pc EXCEPT ![r] = "done"] /\ UNCHANGED idle
    /\ UNCHANGED <<status, active>>

\* What the publisher of an event does when it is over.
Resumes(x, delivered) ==
    CASE x = Note -> UNCHANGED <<hostVars, pc>>
      [] x \in Runs /\ pc[x] = "starting" ->
            IF delivered THEN pc' = [pc EXCEPT ![x] = "working"] /\ UNCHANGED hostVars
            ELSE StartFails(x)
      [] x \in Runs /\ pc[x] = "finishing" -> RunOver(x)
      [] x = Owner /\ pc[x] = "telling" ->
            /\ pc' = [pc EXCEPT ![x] = IF delivered THEN "looping" ELSE "new"]
            /\ UNCHANGED hostVars
      [] OTHER -> pc' = [pc EXCEPT ![x] = "done"] /\ UNCHANGED hostVars

\* The oldest event reaches its listeners, one of them fails, or it was cancelled.
EventEnds ==
    /\ mail # <<>>
    /\ LET e == Head(mail) IN
       /\ mail' = Tail(mail)
       /\ cancel' = IF e.doomed THEN cancel \ {e.from} ELSE cancel
       /\ \/ ~e.doomed /\ Resumes(e.from, TRUE) /\ UNCHANGED left
          \/ ~e.doomed /\ Resumes(e.from, FALSE) /\ Trouble
          \/ e.doomed /\ Resumes(e.from, FALSE) /\ UNCHANGED left
    /\ UNCHANGED <<deferVars, poisoned, driver, queued, settle, cut>>

-----------------------------------------------------------------------------
\* wait_for_idle and the loops around it.

To(x, where) == pc' = [pc EXCEPT ![x] = where]

\* An exception ends a run or a settlement; dispose goes on with its finally.
Raises(x) == To(x, CASE x = Owner -> "gathering" [] x = Settler -> "new" [] OTHER -> "done")

\* A run looks at the task, the status and the driver and claims the host in one step.
Looks(x) ==
    /\ pc[x] = "looping" /\ x \notin cancel
    /\ \/ active # NoRun /\ ~idle /\ To(x, "idling") /\ UNCHANGED <<hostVars, mail>>
       \/ /\ active = NoRun
          /\ x \in Runs => status \in {"running", "aborting"} \/ driver
          /\ To(x, "driver") /\ UNCHANGED <<hostVars, mail>>
       \/ /\ active = NoRun /\ x \in Runs
          /\ status \notin {"running", "aborting"} /\ ~driver
          /\ IF CanRun THEN Claim(x) ELSE Raises(x) /\ UNCHANGED <<hostVars, mail>>
    /\ UNCHANGED <<cancel, deferVars, poisoned, otherVars>>

\* The wait for the driver is over: a run aborted from outside leaves the status to
\* whoever waits.
DriverIdle(x) ==
    /\ pc[x] = "driver" /\ x \notin cancel
    /\ \/ ~driver /\ To(x, "draining") /\ UNCHANGED left
          /\ status' = IF active = NoRun /\ status \in {"running", "aborting"}
                       THEN "idle" ELSE status
       \/ Raises(x) /\ Trouble /\ UNCHANGED status
    /\ UNCHANGED <<active, idle, cancel, deferVars, busVars, driver, queued, settle, cut>>

\* The events are drained: how the last of them ended is told to whoever waits.
Drained(x) ==
    /\ pc[x] = "draining" /\ x \notin cancel
    /\ \/ poisoned /\ Raises(x) /\ UNCHANGED left
       \/ ~poisoned /\ Raises(x) /\ Trouble
       \/ /\ ~poisoned /\ UNCHANGED left
          /\ To(x, IF x \in Runs THEN "looping" ELSE "gathering")
    /\ UNCHANGED <<hostVars, cancel, deferVars, busVars, driver, queued, settle, cut>>

\* A CancelledError arrives where a task waits.
Cancelled(x) ==
    /\ x \in cancel
    /\ pc[x] \in Waiting \/ (x = Settler /\ pc[x] = "gathering")
    /\ Raises(x)
    /\ cancel' = cancel \ {x}
    /\ UNCHANGED <<hostVars, deferVars, busVars, otherVars>>

-----------------------------------------------------------------------------
\* Abort, settlement and disposal.

AbortedStatus == IF status \in {"idle", "running"} THEN "aborting" ELSE status

Abort ==
    /\ status # "disposed" /\ IsActive /\ Trouble
    /\ status' = AbortedStatus
    /\ mail' = Event(Note, mail)
    /\ UNCHANGED <<active, idle, taskVars, deferVars, poisoned, driver, queued, settle, cut>>

\* HostTaskHandle.cancel of a run that does not have the host: any more, or yet.
CancelDeferred(r) ==
    /\ r \in deferred /\ Live(r) /\ r # active /\ r \notin cancel
    /\ Trouble
    /\ cancel' = cancel \cup {r}
    /\ Dooms({r}, <<>>)
    /\ UNCHANGED <<hostVars, pc, deferVars, driver, queued, settle, cut>>

\* The caller of run, settle_runs or dispose is cancelled.
CancelCaller(x) ==
    /\ x \in Tasks \ deferred /\ pc[x] \notin {"new", "done"}
    /\ x \notin cancel /\ Trouble
    /\ cancel' = cancel \cup {x}
    /\ cut' = (cut \/ x = Owner)
    /\ Dooms({x}, <<>>)
    /\ UNCHANGED <<hostVars, pc, deferVars, driver, queued, settle>>

\* One round of settle_runs: the runs it joins and, if it may, cancels.
Round(cancels, before, later) ==
    LET asked == IF cancels THEN deferred \ (before \cup {active}) ELSE {}
        struck == {r \in asked : Live(r)}
    IN  /\ settle' = [tasks |-> deferred, cancels |-> cancels, cancelled |-> before \cup asked]
        /\ cancel' = cancel \cup struck
        /\ Dooms(struck \ cancel, later)
        /\ To(Settler, "looping")

SettleBegins(cancels) ==
    /\ pc[Settler] = "new" /\ Trouble
    /\ IF cancels /\ status # "disposed" /\ IsActive
       THEN status' = AbortedStatus /\ Round(cancels, {}, <<Note>>)
       ELSE UNCHANGED status /\ Round(cancels, {}, <<>>)
    /\ UNCHANGED <<active, idle, deferVars, driver, queued, cut>>

\* The runs of the round are over: one that failed is raised, new ones are joined.
SettleGathers ==
    /\ pc[Settler] = "gathering" /\ Settler \notin cancel
    /\ \A r \in settle.tasks : ~Live(r)
    /\ \/ /\ deferred = {} \/ settle.tasks # {}
          /\ To(Settler, "new") /\ settle' = NoSettle /\ UNCHANGED <<cancel, mail, poisoned>>
       \/ deferred # {} /\ Round(settle.cancels, settle.cancelled, <<>>)
    /\ UNCHANGED <<hostVars, deferVars, driver, queued, cut, left>>

\* dispose: the host takes no more runs, the one that has it is aborted and those
\* that do not have it are cancelled.
DisposeBegins ==
    /\ pc[Owner] = "new" /\ status # "disposed"
    /\ status' = "disposing"
    /\ queued' = {r \in deferred : r # active /\ Live(r)}
    /\ cancel' = cancel \cup queued'
    /\ To(Owner, "telling")
    /\ Dooms(queued' \ cancel, IF IsActive THEN <<Note, Owner>> ELSE <<Owner>>)
    /\ UNCHANGED <<active, idle, deferVars, driver, settle, cut, left>>

\* The runs it cancelled are over and the driver is disposed of, or that failed, or the
\* owner was cancelled and did not wait for it.
Disposed ==
    /\ pc[Owner] = "gathering"
    /\ Owner \in cancel \/ \A r \in queued : ~Live(r)
    /\ status' = "disposed" /\ active' = NoRun
    /\ queued' = {}
    /\ To(Owner, "farewell")
    /\ cancel' = cancel \ {Owner}
    /\ mail' = Event(Owner, mail)
    /\ UNCHANGED <<idle, deferVars, poisoned, driver, settle, cut, left>>

-----------------------------------------------------------------------------
\* A run of the driver that is none of the host's.
DriverRuns ==
    /\ ~driver /\ active = NoRun /\ Trouble
    /\ driver' = TRUE
    /\ UNCHANGED <<hostVars, taskVars, deferVars, busVars, queued, settle, cut>>

DriverEnds ==
    /\ driver /\ driver' = FALSE
    /\ UNCHANGED <<hostVars, taskVars, deferVars, busVars, queued, settle, cut, left>>

\* What the loop does with a task that can go on.
Continues(x) ==
    \/ Looks(x) \/ DriverIdle(x) \/ Drained(x) \/ Cancelled(x)
    \/ x \in Runs /\ (WorkEnds(x) \/ Observed(x))
    \/ x = Settler /\ SettleGathers
    \/ x = Owner /\ Disposed

Next ==
    \/ \E r \in Runs :
          \/ Run(r) \/ CancelDeferred(r)
          \/ \E k \in Keys \cup {NoKey} : Defer(r, k)
    \/ \E x \in Tasks : Continues(x) \/ CancelCaller(x)
    \/ EventEnds \/ Abort \/ DisposeBegins
    \/ \E cancels \in BOOLEAN : SettleBegins(cancels)
    \/ DriverRuns \/ DriverEnds

Spec == Init /\ [][Next]_vars

\* The loop runs its tasks; operations, listeners and the driver end.
FairSpec ==
    /\ Spec
    /\ \A x \in Tasks : WF_vars(Continues(x))
    /\ WF_vars(EventEnds) /\ WF_vars(DriverEnds)

-----------------------------------------------------------------------------
\* Properties.

\* The host has one run at a time: whoever claimed it is the active task until its
\* operation is over, and the idle event is not set meanwhile - a waiter would go
\* round its loop without ever giving way.
OneRun ==
    /\ \A r, q \in Runs : pc[r] \in Claimed /\ pc[q] \in Claimed => r = q
    /\ \A r \in Runs : pc[r] \in Claimed /\ ~cut => active = r
    /\ active # NoRun => pc[active] \in Claimed /\ ~idle

\* A host that was disposed of, by an owner that waited, runs nothing: the
\* run it found has let go, and none of those that waited got the host afterwards.
DisposedIsQuiet ==
    status = "disposed" /\ ~cut => \A r \in Runs : pc[r] \notin Claimed

\* Equivalent deferred runs are one: the key leads to the run of that key that is not
\* over, whatever the order in which tasks end and the loop calls back.
KeyIsLive ==
    \A r \in deferred : Live(r) /\ key[r] # NoKey => byKey[key[r]] = r

\* Who waits for the host gets on: a deferred run ends, dispose returns or raises.
WaitersGetOn ==
    /\ \A r \in Runs : (pc[r] = "looping") ~> (pc[r] = "done")
    /\ (pc[Owner] = "looping") ~> (pc[Owner] \in {"new", "done"})
=============================================================================
