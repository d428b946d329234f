--------------------------- MODULE ExecutionRegistry --------------------------
(***************************************************************************)
(* Executions of user input as the application service owns them, and the  *)
(* guard that runs them in the Product:                                    *)
(*                                                                         *)
(*   src/src/loushang/appservice/execution_registry.py (ExecutionRegistryV1),*)
(*   execution_guard.py (ExecutionGuardV1), execution_contract.py and its  *)
(*   use by runtime.py (binding, closing and reopening of a session)       *)
(*                                                                         *)
(* Each execution has two tasks: the registry's, which starts the guard    *)
(* and waits for it, and the guard's, which runs the Product's work and    *)
(* settles it. An action is what one of them, or a caller, does between    *)
(* two awaits. Observations are synchronous callbacks of the guard's step. *)
(*                                                                         *)
(* Left out: identifiers and digests (a text is its own digest), error     *)
(* codes, byte accounting (LedgerLimit stands for both ledger bounds),     *)
(* final cursors, waiters of the legacy call, goal and method wrappers.    *)
(***************************************************************************)
EXTENDS Naturals, Sequences, FiniteSets

CONSTANTS
    Sessions, Submissions, Texts,
    Legacy,         \* stands for "no submission id": the legacy turn call
    ActiveLimit,    \* ExecutionLimitsV1.active
    LedgerLimit,    \* ExecutionLimitsV1.submissions
    RecentLegacy,   \* ExecutionLimitsV1.recent_legacy
    MaxExecs,       \* bound: executions accepted
    MaxFaults,      \* bound: starts and settlements that fail, registry tasks cancelled
    MaxReopens      \* bound: sessions closed and opened again

ASSUME LimitsAssumption ==
    /\ {ActiveLimit, LedgerLimit, RecentLegacy} \subseteq Nat \ {0}
    /\ {MaxExecs, MaxFaults, MaxReopens} \subseteq Nat
    /\ Legacy \notin Submissions
    /\ Sessions # {} /\ Texts # {}

VARIABLES
    last,       \* _sequence: executions are numbered from 1
    record,     \* what was last published of each execution
    kept,       \* the executions _records still holds
    legacy,     \* _legacy: ended legacy executions, oldest first
    ledger,     \* _ledger: the execution of each submission of a session, 0 for none
    slot,       \* _active: the invocation of each session, with its registry task
    guard,      \* ExecutionGuardV1 of the Product binding of each session
    view,       \* ExecutionBindingViewV1 of each session
    close,      \* how far the owner is with closing the binding
    fenced,     \* _closed
    left,       \* what is left of the bounds
    entered,    \* history: how often the work of an execution was entered
    result,     \* history: what the work of an execution returned
    answers     \* history: the answers to submit

registryVars == <<last, record, kept, legacy, ledger, slot, view>>
serviceVars == <<close, fenced, left>>
historyVars == <<entered, result, answers>>
vars == <<registryVars, guard, serviceVars, historyVars>>

Execs == 1..MaxExecs
Ended == {"succeeded", "failed", "interrupted"}
Active == {"accepted", "running"}
Statuses == {"none"} \cup Active \cup Ended

NoSlot == [exec |-> 0, task |-> "idle", started |-> FALSE, seen |-> "none"]

\* The guard's observation: the execution last entered and how it stands.
Idle == [exec |-> 0, status |-> "none"]

NewGuard == [exec |-> 0, status |-> "none", asked |-> FALSE, cancelled |-> FALSE,
             task |-> "idle", candidate |-> "none", obs |-> Idle]

NewView == [revision |-> 0, active |-> 0, quiescent |-> Idle]

Asked(e) == record[e].interrupt

\* The task of the guard is not over, or left cleanup behind: the Product still
\* owns something of the execution.
Unsettled(s) == guard[s].task \in {"beginning", "running", "settling", "debt"}

LedgerSize == Cardinality({x \in Sessions \X Submissions : ledger[x[1]][x[2]] # 0})
ActiveCount == Cardinality({s \in Sessions : slot[s].exec # 0})

Fault == left.faults > 0 /\ left' = [left EXCEPT !.faults = @ - 1]

-----------------------------------------------------------------------------
Init ==
    /\ last = 0
    /\ record = [e \in Execs |-> [session |-> CHOOSE s \in Sessions : TRUE, sub |-> Legacy,
                                  text |-> CHOOSE t \in Texts : TRUE, status |-> "none",
                                  revision |-> 0, interrupt |-> FALSE]]
    /\ kept = {}
    /\ legacy = <<>>
    /\ ledger = [s \in Sessions |-> [i \in Submissions |-> 0]]
    /\ slot = [s \in Sessions |-> NoSlot]
    /\ guard = [s \in Sessions |-> NewGuard]
    /\ view = [s \in Sessions |-> NewView]
    /\ close = [s \in Sessions |-> "open"]
    /\ fenced = FALSE
    /\ left = [faults |-> MaxFaults, reopens |-> MaxReopens]
    /\ entered = [e \in Execs |-> 0]
    /\ result = [e \in Execs |-> "none"]
    /\ answers = {}

\* A state of execution e of session s becomes the record and the view: the view
\* counts its changes and shows an execution while it is active.
Publish(s, e, new, quiescent) ==
    /\ record' = [record EXCEPT ![e] = new]
    /\ view' = [view EXCEPT ![s] = [revision |-> @.revision + 1,
                                    active |-> IF new.status \in Ended THEN 0 ELSE e,
                                    quiescent |-> quiescent]]

PublishNext(s, e, new) ==
    Publish(s, e, [new EXCEPT !.revision = @ + 1], view[s].quiescent)

-----------------------------------------------------------------------------
\* Submission. A known submission is answered before any limit is looked at.

Accepting(s) == ~fenced /\ close[s] = "open"

Answer(s, i, t, e) ==
    answers' = answers \cup {[session |-> s, sub |-> i, text |-> t, exec |-> e]}

\* Mutant of Admitted: the slot is looked up by the active limit alone.
AdmittedBeside(s, i) ==
    /\ ActiveCount < ActiveLimit
    /\ i # Legacy => LedgerSize < LedgerLimit

Admitted(s, i) ==
    /\ slot[s].exec = 0
    /\ ActiveCount < ActiveLimit
    /\ i # Legacy => LedgerSize < LedgerLimit

\* Mutant of Known: an ended execution no longer answers for its submission.
KnownWhileActive(s, i) ==
    i # Legacy /\ ledger[s][i] # 0 /\ record[ledger[s][i]].status \in Active

Known(s, i) == i # Legacy /\ ledger[s][i] # 0

SameText(s, i, t) == record[ledger[s][i]].text = t

Accept(s, i, t) ==
    /\ Accepting(s) /\ ~Known(s, i) /\ Admitted(s, i)
    /\ last < MaxExecs
    /\ LET e == last + 1 IN
       /\ last' = e
       /\ Publish(s, e, [session |-> s, sub |-> i, text |-> t, status |-> "accepted",
                         revision |-> 1, interrupt |-> FALSE], view[s].quiescent)
       /\ kept' = kept \cup {e}
       /\ slot' = [slot EXCEPT ![s] = [NoSlot EXCEPT !.exec = e, !.task = "starting"]]
       /\ ledger' = IF i = Legacy THEN ledger ELSE [ledger EXCEPT ![s][i] = e]
       /\ Answer(s, i, t, e)
    /\ UNCHANGED <<legacy, guard, serviceVars, entered, result>>

\* The client did not get the answer and submits again.
Resubmit(s, i, t) ==
    /\ Accepting(s) /\ Known(s, i) /\ SameText(s, i, t)
    /\ Answer(s, i, t, ledger[s][i])
    /\ UNCHANGED <<registryVars, guard, serviceVars, entered, result>>

\* get, on behalf of any client, lets legacy records expire.
Expire(n) ==
    /\ n \in 1..Len(legacy)
    /\ kept' = kept \ {legacy[k] : k \in 1..n}
    /\ legacy' = SubSeq(legacy, n + 1, Len(legacy))
    /\ UNCHANGED <<last, record, ledger, slot, view, guard, serviceVars, historyVars>>

-----------------------------------------------------------------------------
\* The registry's task of an invocation.

\* Which ended legacy executions are forgotten: the oldest, while there are more
\* than RecentLegacy of them or their time is over.
Retire(e) ==
    \E n \in 0..Len(legacy) :
        /\ Len(legacy) + 1 - n <= RecentLegacy
        /\ legacy' = SubSeq(Append(legacy, e), n + 1, Len(legacy) + 1)
        /\ kept' = kept \ {legacy[k] : k \in 1..n}

\* Mutant of Ledgered: the record of every ended execution may expire.
LedgeredNever(e) == FALSE

Ledgered(e) == record[e].sub # Legacy

\* Mutant of Quiescent: every end is taken for an observation of the Product.
QuiescentAlways(s) == [exec |-> slot[s].exec, status |-> slot[s].seen]

\* What becomes the binding's quiescent observation: an execution that never ran
\* leaves the one before it.
Quiescent(s) ==
    IF record[slot[s].exec].status = "running"
    THEN [exec |-> slot[s].exec, status |-> slot[s].seen] ELSE view[s].quiescent

\* Mutant of Finish: the state the task began with is published.
FinishStale(s, outcome) ==
    LET e == slot[s].exec IN
    /\ Publish(s, e, [record[e] EXCEPT !.status = outcome, !.revision = 2, !.interrupt = FALSE],
               Quiescent(s))
    /\ slot' = [slot EXCEPT ![s] = NoSlot]
    /\ IF Ledgered(e) THEN UNCHANGED <<legacy, kept>> ELSE Retire(e)
    /\ UNCHANGED <<last, ledger>>

\* _finish: the outcome is published and the slot is free again.
Finish(s, outcome) ==
    LET e == slot[s].exec IN
    /\ Publish(s, e, [record[e] EXCEPT !.status = outcome, !.revision = @ + 1], Quiescent(s))
    /\ slot' = [slot EXCEPT ![s] = NoSlot]
    /\ IF Ledgered(e) THEN UNCHANGED <<legacy, kept>> ELSE Retire(e)
    /\ UNCHANGED <<last, ledger>>

\* _finish refuses an outcome the Product's observations do not bear out.
BorneOut(s, outcome) ==
    /\ slot[s].seen = "none" => outcome = "interrupted"
    /\ record[slot[s].exec].status = "running" => slot[s].seen = outcome

Fails(s) ==
    /\ slot' = [slot EXCEPT ![s].task = "failed"]
    /\ UNCHANGED <<last, record, kept, legacy, ledger, view>>

\* The guard takes an execution when the one before it is over.
GuardFree(s) == guard[s].status \in {"none"} \cup Ended

StartGuard(s) ==
    guard' = [guard EXCEPT ![s] = [NewGuard EXCEPT !.exec = slot[s].exec,
                                   !.status = "accepted", !.task = "beginning",
                                   !.obs = guard[s].obs]]

\* _drive up to the wait for the guard. The Product may refuse to start.
DriveBegins(s) ==
    /\ slot[s].task = "starting"
    /\ \/ /\ Asked(slot[s].exec)
          /\ Finish(s, "interrupted")
          /\ UNCHANGED <<guard, left>>
       \/ /\ ~Asked(slot[s].exec)
          /\ Fault \/ (~GuardFree(s) /\ UNCHANGED left)
          /\ Finish(s, "failed")
          /\ UNCHANGED guard
       \/ /\ ~Asked(slot[s].exec) /\ GuardFree(s)
          /\ StartGuard(s)
          /\ slot' = [slot EXCEPT ![s].task = "waiting", ![s].started = TRUE]
          /\ UNCHANGED <<last, record, kept, legacy, ledger, view, left>>
    /\ UNCHANGED <<close, fenced, historyVars>>

\* Mutant of DriveEnds: a failed settlement ends the execution.
DriveEndsOwing(s) ==
    /\ slot[s].task = "waiting" /\ guard[s].task \in {"done", "debt"}
    /\ Finish(s, guard[s].candidate)
    /\ UNCHANGED <<guard, serviceVars, historyVars>>

\* The wait is over: the outcome is published, or the cleanup is owed and the slot
\* stays taken.
DriveEnds(s) ==
    /\ slot[s].task = "waiting" /\ guard[s].task \in {"done", "debt"}
    /\ IF guard[s].task = "done" /\ BorneOut(s, guard[s].candidate)
       THEN Finish(s, guard[s].candidate) ELSE Fails(s)
    /\ UNCHANGED <<guard, serviceVars, historyVars>>

\* The registry's task is cancelled from outside (the loop stops its tasks). The
\* guard's is shielded from that.
DriveCancelled(s) ==
    /\ slot[s].task \in {"starting", "waiting"}
    /\ Fault /\ Fails(s)
    /\ UNCHANGED <<guard, close, fenced, historyVars>>

\* Mutant of RetryBegins: what was interrupted is taken to be over.
RetryGivesUp(s) ==
    /\ slot[s].task = "retrying"
    /\ Finish(s, "interrupted")
    /\ UNCHANGED <<guard, serviceVars, historyVars>>

\* _retry: the input of an execution never started is not started now; otherwise
\* the guard is asked to settle again if it owes that, and waited for.
RetryBegins(s) ==
    /\ slot[s].task = "retrying"
    /\ IF slot[s].started
       THEN /\ guard' = [guard EXCEPT ![s].task = IF @ = "debt" THEN "settling" ELSE @]
            /\ slot' = [slot EXCEPT ![s].task = "waiting"]
            /\ UNCHANGED <<last, record, kept, legacy, ledger, view>>
       ELSE Finish(s, "interrupted") /\ UNCHANGED guard
    /\ UNCHANGED <<serviceVars, historyVars>>

-----------------------------------------------------------------------------
\* The guard's task in the Product.

\* _on_observation: what the guard tells, the registry publishes or remembers.
Observed(s, status) ==
    /\ slot' = [slot EXCEPT ![s].seen = status]
    /\ IF status = "running"
       THEN PublishNext(s, slot[s].exec, [record[slot[s].exec] EXCEPT !.status = "running"])
       ELSE UNCHANGED <<record, view>>
    /\ UNCHANGED <<last, kept, legacy, ledger>>

GuardBegins(s) ==
    LET g == guard[s] IN
    /\ g.task = "beginning"
    /\ IF g.asked
       THEN /\ guard' = [guard EXCEPT ![s].status = "interrupted", ![s].task = "done",
                                      ![s].candidate = "interrupted"]
            /\ UNCHANGED <<registryVars, historyVars>>
       ELSE /\ guard' = [guard EXCEPT ![s].status = "running", ![s].task = "running",
                                      ![s].obs = [exec |-> g.exec, status |-> "running"]]
            /\ Observed(s, "running")
            /\ entered' = [entered EXCEPT ![g.exec] = @ + 1]
            /\ UNCHANGED <<result, answers>>
    /\ UNCHANGED serviceVars

\* The work returns or raises; a cancelled work may still return what it has.
WorkEnds(s, outcome) ==
    /\ guard[s].task = "running"
    /\ guard' = [guard EXCEPT ![s].task = "settling", ![s].candidate = outcome]
    /\ result' = [result EXCEPT ![guard[s].exec] = outcome]
    /\ UNCHANGED <<registryVars, serviceVars, entered, answers>>

\* The Product's resources are quiescent: _commit tells the observers.
Settled(s) ==
    LET g == guard[s] IN
    /\ g.task = "settling"
    /\ guard' = [guard EXCEPT ![s].status = g.candidate, ![s].task = "done",
                              ![s].obs = [exec |-> g.exec, status |-> g.candidate]]
    /\ Observed(s, g.candidate)
    /\ UNCHANGED <<serviceVars, historyVars>>

SettleFails(s) ==
    /\ guard[s].task = "settling"
    /\ guard' = [guard EXCEPT ![s].task = "debt"]
    /\ Fault
    /\ UNCHANGED <<registryVars, close, fenced, historyVars>>

-----------------------------------------------------------------------------
\* Interrupts, retries and the end of a binding.

\* Mutant of GuardAsked: only work that runs is told.
GuardAskedLate(s) ==
    IF guard[s].task = "running" /\ ~guard[s].asked
    THEN guard' = [guard EXCEPT ![s].asked = TRUE, ![s].cancelled = TRUE]
    ELSE UNCHANGED guard

\* The guard remembers the request; work that was entered is cancelled, once, and
\* settlement never is.
GuardAsked(s) ==
    IF slot[s].started /\ guard[s].status \in Active /\ ~guard[s].asked
    THEN guard' = [guard EXCEPT ![s].asked = TRUE,
                                ![s].cancelled = guard[s].task = "running"]
    ELSE UNCHANGED guard

RequestInterrupt(s) ==
    IF Asked(slot[s].exec)
    THEN UNCHANGED <<record, view, guard>>
    ELSE /\ GuardAsked(s)
         /\ PublishNext(s, slot[s].exec, [record[slot[s].exec] EXCEPT !.interrupt = TRUE])

Interrupt(s) ==
    /\ slot[s].exec # 0 /\ ~Asked(slot[s].exec)
    /\ RequestInterrupt(s)
    /\ UNCHANGED <<last, kept, legacy, ledger, slot, serviceVars, historyVars>>

\* A task that failed is replaced; one that is not over is joined.
Rejoined(s) ==
    slot' = IF slot[s].task = "failed" THEN [slot EXCEPT ![s].task = "retrying"] ELSE slot

RetrySettlement(s) ==
    /\ slot[s].task = "failed"
    /\ Rejoined(s)
    /\ UNCHANGED <<last, record, kept, legacy, ledger, view, guard, serviceVars, historyVars>>

\* close_binding, on behalf of an owner that may have tried before.
CloseBinding(s) ==
    /\ close[s] \in {"open", "failed"}
    /\ close' = [close EXCEPT ![s] = "closing"]
    /\ IF slot[s].exec = 0
       THEN UNCHANGED <<record, view, guard, slot>>
       ELSE RequestInterrupt(s) /\ Rejoined(s)
    /\ UNCHANGED <<last, kept, legacy, ledger, fenced, left, historyVars>>

\* Mutant of CloseEnds: a settlement that failed is waited for again.
CloseEndsSettled(s) ==
    /\ close[s] = "closing" /\ slot[s].exec = 0
    /\ close' = [close EXCEPT ![s] = "closed"]
    /\ UNCHANGED <<registryVars, guard, fenced, left, historyVars>>

\* What the owner waited for is over.
CloseEnds(s) ==
    /\ close[s] = "closing"
    /\ \/ slot[s].exec = 0 /\ close' = [close EXCEPT ![s] = "closed"]
       \/ slot[s].task = "failed" /\ close' = [close EXCEPT ![s] = "failed"]
    /\ UNCHANGED <<registryVars, guard, fenced, left, historyVars>>

\* The session is opened again: a new binding of the same identity.
Reopen(s) ==
    /\ close[s] = "closed" /\ ~fenced /\ left.reopens > 0
    /\ close' = [close EXCEPT ![s] = "open"]
    /\ guard' = [guard EXCEPT ![s] = NewGuard]
    /\ view' = [view EXCEPT ![s] = NewView]
    /\ left' = [left EXCEPT !.reopens = @ - 1]
    /\ UNCHANGED <<last, record, kept, legacy, ledger, slot, fenced, historyVars>>

Fence ==
    /\ ~fenced /\ fenced' = TRUE
    /\ UNCHANGED <<registryVars, guard, close, left, historyVars>>

-----------------------------------------------------------------------------
Submits ==
    \E s \in Sessions, t \in Texts :
        \/ \E i \in Submissions \cup {Legacy} : Accept(s, i, t)
        \/ \E i \in Submissions : Resubmit(s, i, t)

Next ==
    \/ Submits \/ Fence
    \/ \E n \in Execs : Expire(n)
    \/ \E s \in Sessions :
          \/ DriveBegins(s) \/ DriveEnds(s) \/ DriveCancelled(s) \/ RetryBegins(s)
          \/ GuardBegins(s) \/ Settled(s) \/ SettleFails(s)
          \/ \E o \in Ended : WorkEnds(s, o)
          \/ Interrupt(s) \/ RetrySettlement(s)
          \/ CloseBinding(s) \/ CloseEnds(s) \/ Reopen(s)

Spec == Init /\ [][Next]_vars

\* The loop runs the tasks; work that was cancelled and settlements end.
FairSpec ==
    /\ Spec
    /\ \A s \in Sessions :
          /\ WF_vars(DriveBegins(s)) /\ WF_vars(DriveEnds(s)) /\ WF_vars(RetryBegins(s))
          /\ WF_vars(GuardBegins(s)) /\ WF_vars(Settled(s) \/ SettleFails(s))
          /\ WF_vars(guard[s].cancelled /\ \E o \in Ended : WorkEnds(s, o))
          /\ WF_vars(CloseEnds(s))

-----------------------------------------------------------------------------
\* Properties.

TypeOK ==
    /\ last \in 0..MaxExecs
    /\ record \in [Execs -> [session : Sessions, sub : Submissions \cup {Legacy},
                             text : Texts, status : Statuses, revision : Nat,
                             interrupt : BOOLEAN]]
    /\ kept \subseteq Execs
    /\ legacy \in Seq(Execs) /\ Len(legacy) <= RecentLegacy
    /\ ledger \in [Sessions -> [Submissions -> 0..MaxExecs]]
    /\ slot \in [Sessions -> [exec : 0..MaxExecs,
                              task : {"idle", "starting", "waiting", "failed", "retrying"},
                              started : BOOLEAN, seen : {"none", "running"} \cup Ended]]
    /\ guard \in [Sessions -> [exec : 0..MaxExecs, status : Statuses, asked : BOOLEAN,
                               cancelled : BOOLEAN,
                               task : {"idle", "beginning", "running", "settling", "debt", "done"},
                               candidate : {"none"} \cup Ended,
                               obs : [exec : 0..MaxExecs, status : Statuses]]]
    /\ view \in [Sessions -> [revision : Nat, active : 0..MaxExecs,
                              quiescent : [exec : 0..MaxExecs, status : Statuses]]]
    /\ close \in [Sessions -> {"open", "closing", "failed", "closed"}]
    /\ fenced \in BOOLEAN
    /\ left \in [faults : 0..MaxFaults, reopens : 0..MaxReopens]
    /\ entered \in [Execs -> Nat]
    /\ result \in [Execs -> {"none"} \cup Ended]

\* However often a client submits, over failures, retried settlements and reopened
\* bindings, a submission is one execution of the text it was submitted with, and
\* no input is run twice (test_duplicate_at_full_capacity_and_conflict...,
\* test_cleanup_failure_keeps_slot_and_retry_does_not_replay).
RunsOnce ==
    /\ \A e \in Execs : entered[e] <= 1
    /\ \A x \in answers : record[x.exec].text = x.text /\ record[x.exec].sub = x.sub
    /\ \A x, y \in answers :
          x.sub # Legacy /\ x.sub = y.sub /\ x.session = y.session => x.exec = y.exec

\* What the Product still owns, running, settling or owing its cleanup, is held by
\* the slot of its session, and its record has not ended: "Only Product settlement
\* releases an active slot", with the task of the registry failed or not.
WorkIsOwned ==
    \A s \in Sessions :
        Unsettled(s) =>
            /\ slot[s].exec = guard[s].exec /\ slot[s].started
            /\ record[slot[s].exec].status \in Active
            /\ close[s] # "closed"

\* A client that reads the view finds in it what the Product would say: between
\* executions the quiescent observation is the guard's, during one it is the same
\* execution (capture_execution_snapshot relies on it).
ViewIsObserved ==
    \A s \in Sessions :
        LET shown == view[s].active IN
        /\ shown = slot[s].exec
        /\ shown = 0 \/ record[shown].status = "accepted" => view[s].quiescent = guard[s].obs
        /\ shown # 0 /\ record[shown].status = "running" => guard[s].obs.exec = shown

\* The published outcome of work that ran is the one it returned, and an input that
\* did not run is never said to have succeeded.
OutcomeIsTrue ==
    \A e \in Execs :
        record[e].status \in Ended =>
            IF entered[e] > 0 THEN record[e].status = result[e] ELSE record[e].status # "succeeded"

\* A record is forgotten only when no submission and no slot refers to it any more:
\* find, get and retried submissions look it up without asking.
ReferredIsKept ==
    /\ \A s \in Sessions, i \in Submissions : ledger[s][i] # 0 => ledger[s][i] \in kept
    /\ \A s \in Sessions : slot[s].exec # 0 => slot[s].exec \in kept

\* Published states go forward: a revision never falls, every change has one of its
\* own, what has ended stays as it is and an interrupt is not taken back.
PublishedGoesForward ==
    [][\A e \in Execs :
          LET old == record[e]
              new == record'[e]
          IN  new # old => /\ new.revision = old.revision + 1
                           /\ old.status \notin Ended
                           /\ old.interrupt => new.interrupt
                           /\ new.status = "accepted" => old.status \in {"none", "accepted"}]_vars

\* An interrupted execution ends, or its registry task has failed and waits for a
\* retry; it is not lost between the two tasks, whatever either is doing.
InterruptEnds ==
    \A s \in Sessions :
        (slot[s].exec # 0 /\ Asked(slot[s].exec)) ~> (slot[s].task \in {"idle", "failed"})

\* close_binding returns or raises, and whoever retries a failed one gets on.
CloseReturns == \A s \in Sessions : (close[s] = "closing") ~> (close[s] # "closing")

\* The registry keeps what it promises of submissions.
Phase == [s \in Sessions |-> [i \in Submissions |->
            IF ledger[s][i] = 0 THEN "new" ELSE record[ledger[s][i]].status]]

Promise == INSTANCE Submissions WITH phase <- Phase

KeepsSubmissions == Promise!SubmissionsSpec
=============================================================================
