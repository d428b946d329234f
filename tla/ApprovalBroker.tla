---------------------------- MODULE ApprovalBroker ----------------------------
(***************************************************************************)
(* Requests for approval, the answers to them, and what is retained of an  *)
(* answer:                                                                 *)
(*                                                                         *)
(*   src/src/loushang/harness/approval/broker.py (ApprovalBroker,          *)
(*   InteractiveApprovalResolver), grants.py, rules.py, confirmations.py   *)
(*                                                                         *)
(* A request is asked by a task of its own. Requests that could be granted *)
(* alike share one question. An action is what a task, the presenter or an *)
(* owner does between two awaits.                                          *)
(*                                                                         *)
(* Left out: what is presented and presented again, the choice of the      *)
(* fallback, a second proposal or policy scope, the capacity of            *)
(* confirmations, event loops, action identifiers that are used again.     *)
(***************************************************************************)
EXTENDS Naturals

CONSTANTS
    Requests,
    OfChild,        \* those of a child agent; the others are the root's
    Grantable,      \* those with a session_grant
    Amendable,      \* those with a policy amendment
    NoRequest,
    MaxAnswers,     \* bound: answers of the presenter
    MaxTroubles     \* bound: cancelled callers, failures, presenters removed,
                    \* sessions closed, permissions revoked

ASSUME ApprovalAssumption ==
    /\ {OfChild, Grantable, Amendable} \subseteq SUBSET Requests
    /\ NoRequest \notin Requests
    /\ {MaxAnswers, MaxTroubles} \subseteq Nat

VARIABLES
    open,       \* _session_open
    disposed,   \* _disposed of the broker
    presenter,  \* whether there is one
    step,       \* how far the question of each request is
    future,     \* the decision it has, or will return
    caller,     \* what the caller of each request waits for
    leader,     \* _coalesced: the question of each actor that equal requests share
    grants,     \* the grant of each actor, by number
    rule,       \* the policy rule
    reserved,   \* _confirmation_requests
    fact,       \* _confirmations
    left,       \* what is left of the bounds
    got,        \* history: what each caller was told
    accepted,   \* history: the answers to each request that were accepted
    revoked     \* history: confirmations that must not be valid any more

ownerVars == <<open, disposed, presenter>>
questionVars == <<step, future, leader>>
permissionVars == <<grants, rule>>
factVars == <<reserved, fact, revoked>>
callerVars == <<caller, got>>
vars == <<ownerVars, questionVars, permissionVars, factVars, callerVars, left, accepted>>

Actors == {"root", "child"}
Actor(r) == IF r \in OfChild THEN "child" ELSE "root"
Shares(r) == r \in Grantable \cup Amendable

\* ApprovalDecision: a permission is known by its number.
Undecided == [allow |-> FALSE, by |-> "nobody", id |-> 0]
Deny == [allow |-> FALSE, by |-> "user", id |-> 0]
Closing == [allow |-> FALSE, by |-> "owner", id |-> 0]
Failed == [allow |-> FALSE, by |-> "presenter", id |-> 0]     \* an exception
Once == [allow |-> TRUE, by |-> "user", id |-> 0]
Granted(n) == [allow |-> TRUE, by |-> "grant", id |-> n]
Ruled(n) == [allow |-> TRUE, by |-> "rule", id |-> n]
Fallback(allow) == [allow |-> allow, by |-> "fallback", id |-> 0]

\* A question is in the broker's _pending until its task has gone on.
Pending(r) == step[r] \in {"asking", "late"}
Answered(r) == future[r] # Undecided

Trouble == left.troubles > 0 /\ left' = [left EXCEPT !.troubles = @ - 1]

Init ==
    /\ open = TRUE /\ disposed = FALSE /\ presenter = TRUE
    /\ step = [r \in Requests |-> "new"] /\ future = [r \in Requests |-> Undecided]
    /\ caller = [r \in Requests |-> NoRequest] /\ got = [r \in Requests |-> Undecided]
    /\ leader = [a \in Actors |-> NoRequest]
    /\ grants = [a \in Actors |-> 0] /\ rule = 0
    /\ reserved = [r \in Requests |-> "no"] /\ fact = [r \in Requests |-> Undecided]
    /\ left = [answers |-> MaxAnswers, troubles |-> MaxTroubles]
    /\ accepted = [r \in Requests |-> {}] /\ revoked = {}

\* preauthorize
Retained(r) ==
    CASE r \in Grantable /\ grants[Actor(r)] # 0 -> Granted(grants[Actor(r)])
      [] r \in Amendable /\ rule # 0 /\ ~(r \in Grantable /\ grants[Actor(r)] # 0) -> Ruled(rule)
      [] OTHER -> Undecided

-----------------------------------------------------------------------------
\* What the caller of resolve or confirm does with a decision.

\* require_current_confirmation of the fact d of request r.
Current(r, d) ==
    /\ open /\ fact[r] = d /\ d # Undecided
    /\ d.id # 0 => Retained(r) = d

\* The fact confirm returns, if any: an answer to this very request, or a permission
\* that is retained. The reservation must have stood all along.
Confirmed(r, d) ==
    IF open /\ d.allow /\ reserved[r] = "yes"
       /\ (fact[r] # Undecided \/ Retained(r) = d)
       /\ (d.id # 0 => Retained(r) = d)
    THEN d ELSE Undecided

\* The caller of r is told d; a confirmation is issued or dropped.
Told(r, d) ==
    /\ caller' = [caller EXCEPT ![r] = NoRequest]
    /\ got' = [got EXCEPT ![r] = d]
    /\ IF reserved[r] = "no" THEN UNCHANGED factVars
       ELSE /\ fact' = [fact EXCEPT ![r] = Confirmed(r, d)]
            /\ reserved' = [reserved EXCEPT ![r] = "no"]
            /\ UNCHANGED revoked

-----------------------------------------------------------------------------
\* Asking.

\* resolve, on its own or in a confirm that has reserved the request. What is retained
\* is told at once; a request that may be granted gets a task, or joins that of an
\* equal request; another one is asked in its caller's task.
Ask(r, confirms) ==
    /\ step[r] = "new" /\ caller[r] = NoRequest /\ got[r] = Undecided /\ open
    /\ IF Retained(r) # Undecided
       THEN /\ got' = [got EXCEPT ![r] = Retained(r)]
            /\ fact' = IF confirms THEN [fact EXCEPT ![r] = Retained(r)] ELSE fact
            /\ UNCHANGED <<caller, reserved, step, leader>>
       ELSE LET shared == leader[Actor(r)]
                joins == Shares(r) /\ shared # NoRequest
            IN  /\ caller' = [caller EXCEPT ![r] = IF joins THEN shared ELSE r]
                /\ reserved' = [reserved EXCEPT ![r] = IF confirms THEN "yes" ELSE "no"]
                /\ step' = IF joins THEN step
                           ELSE [step EXCEPT ![r] = CASE Shares(r) -> "created"
                                                      [] ~Shares(r) /\ presenter -> "asking"
                                                      [] OTHER -> "falling"]
                /\ leader' = IF Shares(r) /\ ~joins THEN [leader EXCEPT ![Actor(r)] = r] ELSE leader
                /\ UNCHANGED <<fact, got>>
    /\ UNCHANGED <<ownerVars, future, permissionVars, revoked, left, accepted>>

\* The task of a shared question starts: with no presenter by now it falls back.
Begins(r) ==
    /\ step[r] = "created"
    /\ step' = [step EXCEPT ![r] = IF presenter THEN "asking" ELSE "falling"]
    /\ UNCHANGED <<ownerVars, future, leader, permissionVars, factVars, callerVars, left, accepted>>

\* The timeout: what the presenter says from now on is refused, the fallback is asked.
TimesOut(r) ==
    /\ step[r] = "asking"
    /\ step' = [step EXCEPT ![r] = "late"]
    /\ UNCHANGED <<ownerVars, future, leader, permissionVars, factVars, callerVars, left, accepted>>

\* The question is over with decision d. Its caller waits for the task of a shared one
\* and goes on in the same step otherwise.
Over(r, d) ==
    /\ step' = [step EXCEPT ![r] = "over"]
    /\ future' = [future EXCEPT ![r] = d]
    /\ IF ~Shares(r) /\ caller[r] = r THEN Told(r, d) ELSE UNCHANGED <<factVars, callerVars>>
    /\ UNCHANGED <<ownerVars, leader, permissionVars, accepted>>

\* Mutant of Ends: the fallback has the last word after a timeout.
EndsLate(r) ==
    \/ step[r] = "asking" /\ Answered(r) /\ Over(r, future[r]) /\ UNCHANGED left
    \/ step[r] \in {"late", "falling"} /\ UNCHANGED left
       /\ \E allow \in BOOLEAN : Over(r, Fallback(allow))

\* The decision is there; else the fallback's, when it is due. A presenter that fails
\* raises to the caller, whatever was answered.
Ends(r) ==
    \/ /\ step[r] \in {"asking", "late"} /\ Answered(r)
       /\ Over(r, future[r]) /\ UNCHANGED left
    \/ /\ step[r] \in {"late", "falling"} /\ ~Answered(r)
       /\ \E allow \in BOOLEAN : Over(r, Fallback(allow))
       /\ UNCHANGED left
    \/ step[r] = "asking" /\ Over(r, Failed) /\ Trouble

\* The callers that share a question are told one by one.
Resumes(r) ==
    /\ caller[r] # NoRequest /\ Shares(r) /\ step[caller[r]] = "over"
    /\ Told(r, future[caller[r]])
    /\ UNCHANGED <<ownerVars, questionVars, permissionVars, left, accepted>>

\* The done callback of the shared task; until then an equal request joins it still.
Forgets(a) ==
    /\ leader[a] # NoRequest /\ step[leader[a]] = "over"
    /\ leader' = [leader EXCEPT ![a] = NoRequest]
    /\ UNCHANGED <<ownerVars, step, future, permissionVars, factVars, callerVars, left, accepted>>

\* A caller is cancelled: a shared question goes on without it.
CallerCancelled(r) ==
    /\ caller[r] # NoRequest /\ Trouble
    /\ caller' = [caller EXCEPT ![r] = NoRequest]
    /\ got' = [got EXCEPT ![r] = Closing]
    /\ reserved' = [reserved EXCEPT ![r] = "no"]
    /\ fact' = [fact EXCEPT ![r] = Undecided]
    /\ step' = IF Shares(r) THEN step ELSE [step EXCEPT ![r] = "over"]
    /\ UNCHANGED <<ownerVars, future, leader, permissionVars, revoked, accepted>>

-----------------------------------------------------------------------------
\* Answers: handle_result of a request that is still pending.

Accepts(r) == step[r] = "asking" /\ ~Answered(r)

\* An accepted allow confirms the request the question was made of.
Issues(r, d) ==
    fact' = IF d.allow /\ reserved[r] = "yes" THEN [fact EXCEPT ![r] = d] ELSE fact

Says(r, d) ==
    IF Accepts(r)
    THEN /\ future' = [future EXCEPT ![r] = d]
         /\ accepted' = [accepted EXCEPT ![r] = @ \cup {d}]
         /\ Issues(r, d)
    ELSE UNCHANGED <<future, accepted, fact>>

\* The number of a new permission.
Number == MaxAnswers - left.answers + 1

Replies(r) ==
    /\ Pending(r) /\ left.answers > 0
    /\ left' = [left EXCEPT !.answers = @ - 1]
    /\ UNCHANGED <<ownerVars, step, leader, reserved, revoked, callerVars>>

AnswerOnce(r) ==
    /\ Replies(r) /\ \E d \in {Once, Deny} : Says(r, d)
    /\ UNCHANGED permissionVars

\* A grant is issued over the one before it, and taken back if the answer is refused.
AnswerSession(r) ==
    /\ Replies(r) /\ r \in Grantable
    /\ Says(r, Granted(Number))
    /\ grants' = [grants EXCEPT ![Actor(r)] = IF Accepts(r) THEN Number ELSE 0]
    /\ UNCHANGED rule

\* A rule that exists is used again, and taken back if the answer is refused.
AnswerProject(r) ==
    /\ Replies(r) /\ r \in Amendable
    /\ LET used == IF rule = 0 THEN Number ELSE rule IN
       /\ Says(r, Ruled(used))
       /\ rule' = IF Accepts(r) THEN used ELSE 0
    /\ UNCHANGED grants

\* The rule cannot be written: it is retained all the same, and the answer is lost.
AnswerUnsaved(r) ==
    /\ Pending(r) /\ r \in Amendable /\ rule = 0 /\ left.answers > 0 /\ left.troubles > 0
    /\ rule' = Number
    /\ left' = [answers |-> left.answers - 1, troubles |-> left.troubles - 1]
    /\ UNCHANGED <<ownerVars, questionVars, grants, factVars, callerVars, accepted>>

-----------------------------------------------------------------------------
\* The owners: the session, child agents, the user and the coordinated action.

\* cancel_all and cancel_actor: what is pending and has no decision is denied.
Denied(rs) ==
    future' = [r \in Requests |-> IF r \in rs /\ Pending(r) /\ ~Answered(r) THEN Closing ELSE future[r]]

\* Mutant of Voided: what was confirmed is void, what is being confirmed is not.
VoidedFacts(rs) ==
    /\ fact' = [r \in Requests |-> IF r \in rs THEN Undecided ELSE fact[r]]
    /\ revoked' = revoked \cup {r \in rs : reserved[r] # "no" \/ fact[r] # Undecided}
    /\ UNCHANGED reserved

\* Confirmations of rs are void, those in the making too.
Voided(rs) ==
    /\ fact' = [r \in Requests |-> IF r \in rs THEN Undecided ELSE fact[r]]
    /\ reserved' = [r \in Requests |-> IF r \in rs /\ reserved[r] # "no" THEN "void" ELSE reserved[r]]
    /\ revoked' = revoked \cup {r \in rs : reserved[r] # "no" \/ fact[r] # Undecided}

Withdrawn(as) ==
    /\ grants' = [a \in Actors |-> IF a \in as THEN 0 ELSE grants[a]]
    /\ UNCHANGED rule

\* close_session keeps the grants, end_session does not.
CloseSession(ends) ==
    /\ open /\ open' = FALSE /\ Trouble
    /\ Denied(Requests) /\ Voided(Requests)
    /\ Withdrawn(IF ends THEN Actors ELSE {})
    /\ UNCHANGED <<disposed, presenter, step, leader, callerVars, accepted>>

OpenSession ==
    /\ ~open /\ open' = TRUE
    /\ UNCHANGED <<disposed, presenter, questionVars, permissionVars, factVars, callerVars, left, accepted>>

Dispose ==
    /\ ~disposed /\ disposed' = TRUE /\ Trouble
    /\ open' = FALSE /\ presenter' = FALSE
    /\ Denied(Requests) /\ Voided(Requests) /\ Withdrawn(Actors)
    /\ UNCHANGED <<step, leader, callerVars, accepted>>

SetPresenter(there) ==
    /\ presenter # there /\ there => ~disposed
    /\ presenter' = there /\ Trouble
    /\ UNCHANGED <<open, disposed, questionVars, permissionVars, factVars, callerVars, accepted>>

\* cancel_actor, and revoke_actor_grants when the child is gone for good.
CancelActor ==
    /\ Trouble
    /\ Denied(OfChild) /\ Voided(OfChild)
    /\ UNCHANGED <<ownerVars, step, leader, permissionVars, callerVars, accepted>>

RevokeActorGrants ==
    /\ Trouble /\ Withdrawn({"child"})
    /\ fact' = [r \in Requests |-> IF r \in OfChild THEN Undecided ELSE fact[r]]
    /\ revoked' = revoked \cup {r \in OfChild : fact[r] # Undecided /\ reserved[r] = "no"}
    /\ UNCHANGED <<ownerVars, questionVars, reserved, callerVars, accepted>>

\* revoke_grant and revoke_policy_rule
Revoke ==
    /\ Trouble
    /\ \/ \E a \in Actors : grants[a] # 0 /\ Withdrawn({a})
       \/ rule # 0 /\ rule' = 0 /\ UNCHANGED grants
    /\ UNCHANGED <<ownerVars, questionVars, factVars, callerVars, accepted>>

\* The coordinated action has settled.
Release(r) ==
    /\ fact[r] # Undecided /\ reserved[r] = "no"
    /\ fact' = [fact EXCEPT ![r] = Undecided]
    /\ revoked' = revoked \cup {r}
    /\ UNCHANGED <<ownerVars, questionVars, permissionVars, reserved, callerVars, left, accepted>>

Next ==
    \/ \E r \in Requests :
          \/ \E confirms \in BOOLEAN : Ask(r, confirms)
          \/ Begins(r) \/ TimesOut(r) \/ Ends(r) \/ Resumes(r) \/ CallerCancelled(r)
          \/ AnswerOnce(r) \/ AnswerSession(r) \/ AnswerProject(r) \/ AnswerUnsaved(r)
          \/ Release(r)
    \/ \E a \in Actors : Forgets(a)
    \/ \E ends \in BOOLEAN : CloseSession(ends)
    \/ \E there \in BOOLEAN : SetPresenter(there)
    \/ OpenSession \/ Dispose \/ CancelActor \/ RevokeActorGrants \/ Revoke

Spec == Init /\ [][Next]_vars

-----------------------------------------------------------------------------
\* Properties.

\* The decision a caller gets is the one that was recorded: at most one answer to a
\* question is accepted, and neither a timeout nor the fallback nor an owner that
\* closes overrides it ("The first valid terminal resolution wins").
FirstAnswerWins ==
    \A r \in Requests :
        /\ \A d, e \in accepted[r] : d = e
        /\ step[r] = "over" /\ future[r] \notin {Undecided, Failed} => accepted[r] \subseteq {future[r]}

\* A confirmation that is valid now has been valid since it was asked for: the session
\* was not closed and opened again, the actor not cancelled and the permission it rests
\* on not revoked in between, even while its caller waited; the fallback's word is none.
FactsAreCurrent ==
    \A r \in Requests :
        Current(r, fact[r]) => r \notin revoked /\ fact[r].by # "fallback"
=============================================================================
