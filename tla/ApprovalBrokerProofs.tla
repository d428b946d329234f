-------------------------- MODULE ApprovalBrokerProofs ------------------------
(***************************************************************************)
(* For every set of requests, every number of answers and of troubles, the *)
(* decision of a question is the answer that was accepted.                 *)
(***************************************************************************)
EXTENDS ApprovalBroker, TLAPS

Steps == {"new", "created", "asking", "late", "falling", "over"}

\* What a question has decided and what was accepted of it, as functions.
QuestionTypes ==
    /\ step \in [Requests -> Steps]
    /\ future = [r \in Requests |-> future[r]]
    /\ accepted = [r \in Requests |-> accepted[r]]

\* An accepted answer is the decision, which nothing but a failing presenter takes
\* away, and that ends the question; a question without decision accepted nothing.
AnswerStands ==
    \A r \in Requests :
        /\ \A d, e \in accepted[r] : d = e
        /\ future[r] # Failed => accepted[r] \subseteq {future[r]}
        /\ future[r] = Undecided => accepted[r] = {}
        /\ future[r] = Failed => step[r] = "over"

AnswerInv == QuestionTypes /\ AnswerStands

\* The decisions differ from one another: Undecided and Failed are no decision of a
\* presenter, an owner or a fallback.
LEMMA DecisionsDiffer ==
    /\ Undecided # Failed
    /\ \A d \in {Once, Deny, Closing} : d \notin {Undecided, Failed}
    /\ \A n : Granted(n) \notin {Undecided, Failed} /\ Ruled(n) \notin {Undecided, Failed}
    /\ \A allow : Fallback(allow) \notin {Undecided, Failed}
  <1>1. Undecided.by = "nobody" /\ Failed.by = "presenter"
    BY DEF Undecided, Failed
  <1>2. Once.by = "user" /\ Deny.by = "user" /\ Closing.by = "owner"
    BY DEF Once, Deny, Closing
  <1>3. \A n : Granted(n).by = "grant" /\ Ruled(n).by = "rule"
    BY DEF Granted, Ruled
  <1>4. \A allow : Fallback(allow).by = "fallback"
    BY DEF Fallback
  <1> HIDE DEF Undecided, Failed, Once, Deny, Closing, Granted, Ruled, Fallback
  <1>5. QED
    BY <1>1, <1>2, <1>3, <1>4

LEMMA AnswerInit == Init => AnswerInv
  BY DecisionsDiffer DEF Init, AnswerInv, QuestionTypes, AnswerStands, Steps

\* A step of one question that leaves decisions and answers alone, and no ended
\* question goes on.
LEMMA OnlyTheStep ==
    ASSUME AnswerInv, NEW r \in Requests, NEW to \in Steps,
           step[r] = "over" => to = "over",
           step' = [step EXCEPT ![r] = to], UNCHANGED <<future, accepted>>
    PROVE  AnswerInv'
  BY DEF AnswerInv, QuestionTypes, AnswerStands, Steps

\* The question is over with its decision, with a fallback when it has none, or failed.
LEMMA OverKeeps ==
    ASSUME AnswerInv, NEW r \in Requests, NEW d, Over(r, d),
           \/ Answered(r) /\ d = future[r]
           \/ ~Answered(r) /\ d \notin {Undecided, Failed}
           \/ d = Failed
    PROVE  AnswerInv'
  <1>1. /\ step' = [step EXCEPT ![r] = "over"]
        /\ future' = [future EXCEPT ![r] = d] /\ accepted' = accepted
    BY DEF Over
  <1>2. QuestionTypes'
    BY <1>1 DEF AnswerInv, QuestionTypes, Steps
  <1>3. AnswerStands'
    BY <1>1, DecisionsDiffer DEF AnswerInv, QuestionTypes, AnswerStands, Answered
  <1>4. QED
    BY <1>2, <1>3 DEF AnswerInv

\* An answer is accepted while the question has no decision, and is the decision then.
LEMMA SaysKeeps ==
    ASSUME AnswerInv, NEW r \in Requests, NEW d, d \notin {Undecided, Failed},
           Says(r, d), UNCHANGED step
    PROVE  AnswerInv'
  <1>1. CASE Accepts(r)
    <2>1. /\ step[r] = "asking" /\ future[r] = Undecided
          /\ future' = [future EXCEPT ![r] = d]
          /\ accepted' = [accepted EXCEPT ![r] = @ \cup {d}]
      BY <1>1 DEF Says, Accepts, Answered
    <2>2. accepted[r] = {}
      BY <2>1 DEF AnswerInv, AnswerStands
    <2>3. accepted'[r] = {d} /\ future'[r] = d
      BY <2>1, <2>2 DEF AnswerInv, QuestionTypes
    <2>4. \A q \in Requests \ {r} : accepted'[q] = accepted[q] /\ future'[q] = future[q]
      BY <2>1 DEF AnswerInv, QuestionTypes
    <2>5. QuestionTypes'
      BY <2>1 DEF AnswerInv, QuestionTypes
    <2>6. AnswerStands'
      BY <2>3, <2>4 DEF AnswerInv, AnswerStands
    <2>7. QED
      BY <2>5, <2>6 DEF AnswerInv
  <1>2. CASE ~Accepts(r)
    BY <1>2 DEF Says, AnswerInv, QuestionTypes, AnswerStands
  <1>3. QED
    BY <1>1, <1>2

\* Owners deny what is pending and has no decision.
LEMMA DeniedKeeps ==
    ASSUME AnswerInv, NEW rs, Denied(rs), UNCHANGED <<step, accepted>>
    PROVE  AnswerInv'
  <1>1. \A r \in Requests :
            \/ future'[r] = future[r]
            \/ future[r] = Undecided /\ future'[r] = Closing
    BY DEF Denied, Answered
  <1>2. QuestionTypes'
    BY DEF Denied, AnswerInv, QuestionTypes
  <1>3. AnswerStands'
    BY <1>1, DecisionsDiffer DEF AnswerInv, AnswerStands
  <1>4. QED
    BY <1>2, <1>3 DEF AnswerInv

\* A step that touches no question.
LEMMA NoQuestion ==
    ASSUME AnswerInv, UNCHANGED <<step, future, accepted>>
    PROVE  AnswerInv'
  BY DEF AnswerInv, QuestionTypes, AnswerStands

LEMMA AskingKeeps ==
    ASSUME AnswerInv, NEW r \in Requests,
           \/ \E confirms \in BOOLEAN : Ask(r, confirms)
           \/ Begins(r) \/ TimesOut(r) \/ CallerCancelled(r)
    PROVE  AnswerInv'
  <1>1. ASSUME NEW confirms \in BOOLEAN, Ask(r, confirms) PROVE AnswerInv'
    <2>1. UNCHANGED <<future, accepted>> /\ step[r] = "new"
      BY <1>1 DEF Ask
    <2>2. \/ step' = step
          \/ \E to \in {"created", "asking", "falling"} : step' = [step EXCEPT ![r] = to]
      BY <1>1 DEF Ask
    <2>3. CASE step' = step
      BY <2>1, <2>3, NoQuestion
    <2>4. ASSUME NEW to \in {"created", "asking", "falling"}, step' = [step EXCEPT ![r] = to]
          PROVE AnswerInv'
      <3>1. to \in Steps
        BY DEF Steps
      <3>2. QED
        BY <2>1, <2>4, <3>1, OnlyTheStep
    <2>5. QED
      BY <2>2, <2>3, <2>4
  <1>2. CASE Begins(r)
    <2>1. /\ UNCHANGED <<future, accepted>> /\ step[r] = "created"
          /\ step' = [step EXCEPT ![r] = IF presenter THEN "asking" ELSE "falling"]
      BY <1>2 DEF Begins
    <2>2. (IF presenter THEN "asking" ELSE "falling") \in Steps
      BY DEF Steps
    <2>3. QED
      BY <2>1, <2>2, OnlyTheStep
  <1>3. CASE TimesOut(r)
    <2>1. /\ UNCHANGED <<future, accepted>> /\ step[r] = "asking"
          /\ step' = [step EXCEPT ![r] = "late"]
      BY <1>3 DEF TimesOut
    <2>2. "late" \in Steps
      BY DEF Steps
    <2>3. QED
      BY <2>1, <2>2, OnlyTheStep
  <1>4. CASE CallerCancelled(r)
    <2>1. /\ UNCHANGED <<future, accepted>>
          /\ step' = step \/ step' = [step EXCEPT ![r] = "over"]
      BY <1>4 DEF CallerCancelled
    <2>2. "over" \in Steps
      BY DEF Steps
    <2>3. QED
      BY <2>1, <2>2, OnlyTheStep, NoQuestion
  <1>5. QED
    BY <1>1, <1>2, <1>3, <1>4

LEMMA EndsKeeps ==
    ASSUME AnswerInv, NEW r \in Requests, Ends(r)
    PROVE  AnswerInv'
  <1>1. CASE Answered(r) /\ Over(r, future[r])
    BY <1>1, OverKeeps
  <1>2. ASSUME ~Answered(r), NEW allow \in BOOLEAN, Over(r, Fallback(allow)) PROVE AnswerInv'
    BY <1>2, OverKeeps, DecisionsDiffer
  <1>3. CASE Over(r, Failed)
    BY <1>3, OverKeeps
  <1>4. QED
    BY <1>1, <1>2, <1>3 DEF Ends

LEMMA AnswersKeep ==
    ASSUME AnswerInv, NEW r \in Requests,
           AnswerOnce(r) \/ AnswerSession(r) \/ AnswerProject(r) \/ AnswerUnsaved(r)
    PROVE  AnswerInv'
  <1>1. ASSUME NEW d, d \notin {Undecided, Failed}, Replies(r), Says(r, d) PROVE AnswerInv'
    <2>1. UNCHANGED step
      BY <1>1 DEF Replies
    <2>2. QED
      BY <1>1, <2>1, SaysKeeps
  <1>2. CASE AnswerOnce(r)
    BY <1>1, <1>2, DecisionsDiffer DEF AnswerOnce
  <1>3. CASE AnswerSession(r)
    BY <1>1, <1>3, DecisionsDiffer DEF AnswerSession
  <1>4. CASE AnswerProject(r)
    BY <1>1, <1>4, DecisionsDiffer DEF AnswerProject
  <1>5. CASE AnswerUnsaved(r)
    BY <1>5, NoQuestion DEF AnswerUnsaved, questionVars
  <1>6. QED
    BY <1>2, <1>3, <1>4, <1>5

LEMMA OwnersKeep ==
    ASSUME AnswerInv,
           \/ \E ends \in BOOLEAN : CloseSession(ends)
           \/ Dispose \/ CancelActor
    PROVE  AnswerInv'
  <1>1. CASE \E ends \in BOOLEAN : CloseSession(ends)
    BY <1>1, DeniedKeeps DEF CloseSession
  <1>2. CASE Dispose
    BY <1>2, DeniedKeeps DEF Dispose
  <1>3. CASE CancelActor
    BY <1>3, DeniedKeeps DEF CancelActor
  <1>4. QED
    BY <1>1, <1>2, <1>3

LEMMA AnswerStep == AnswerInv /\ [Next]_vars => AnswerInv'
  <1> SUFFICES ASSUME AnswerInv, [Next]_vars PROVE AnswerInv'
    OBVIOUS
  <1>1. ASSUME NEW r \in Requests,
               \/ \E confirms \in BOOLEAN : Ask(r, confirms)
               \/ Begins(r) \/ TimesOut(r) \/ CallerCancelled(r)
        PROVE AnswerInv'
    BY <1>1, AskingKeeps
  <1>2. ASSUME NEW r \in Requests, Ends(r) PROVE AnswerInv'
    BY <1>2, EndsKeeps
  <1>3. ASSUME NEW r \in Requests, Resumes(r) \/ Release(r) PROVE AnswerInv'
    BY <1>3, NoQuestion DEF Resumes, Release, questionVars
  <1>4. ASSUME NEW r \in Requests,
               AnswerOnce(r) \/ AnswerSession(r) \/ AnswerProject(r) \/ AnswerUnsaved(r)
        PROVE AnswerInv'
    BY <1>4, AnswersKeep
  <1>5. ASSUME NEW a \in Actors, Forgets(a) PROVE AnswerInv'
    BY <1>5, NoQuestion DEF Forgets
  <1>6. CASE (\E ends \in BOOLEAN : CloseSession(ends)) \/ Dispose \/ CancelActor
    BY <1>6, OwnersKeep
  <1>7. CASE (\E there \in BOOLEAN : SetPresenter(there)) \/ OpenSession \/ RevokeActorGrants \/ Revoke
    BY <1>7, NoQuestion DEF SetPresenter, OpenSession, RevokeActorGrants, Revoke, questionVars
  <1>8. CASE UNCHANGED vars
    BY <1>8, NoQuestion DEF vars, questionVars
  <1>9. QED
    BY <1>1, <1>2, <1>3, <1>4, <1>5, <1>6, <1>7, <1>8 DEF Next

\* The decision a caller gets is the answer that was accepted, and there is one at
\* most: no timeout, fallback, cancelled caller or closing owner overrides it.
THEOREM AcceptedAnswerWins == Spec => []FirstAnswerWins
  <1>1. AnswerInv => FirstAnswerWins
    BY DEF AnswerInv, AnswerStands, FirstAnswerWins
  <1>2. QED
    BY AnswerInit, AnswerStep, <1>1, PTL DEF Spec

-----------------------------------------------------------------------------
\* Confirmations. Who waits, and for which question.
CallerTypes ==
    /\ caller \in [Requests -> Requests \cup {NoRequest}]
    /\ got = [r \in Requests |-> got[r]]
    /\ leader \in [Actors -> Requests \cup {NoRequest}]
    /\ reserved \in [Requests -> {"no", "yes", "void"}]
    /\ fact = [r \in Requests |-> fact[r]]

\* The caller of a request that is asked itself waits for that question, another one
\* for a shared question; a question that is over and has a caller has a decision.
CallersWait ==
    /\ \A a \in Actors : leader[a] # NoRequest => Shares(leader[a])
    /\ \A r \in Requests :
          /\ step[r] # "new" => caller[r] \in {r, NoRequest}
          /\ caller[r] # NoRequest =>
                IF Shares(r) THEN Shares(caller[r]) ELSE caller[r] = r /\ step[r] # "over"
          /\ Shares(r) /\ step[r] = "over" => future[r] # Undecided

\* A request is asked once: whoever was told, or waits, does not ask it again.
Asked(r) == caller[r] # NoRequest \/ got[r] # Undecided

\* What was revoked stays so: it has no fact, nothing is being confirmed, and it is not
\* asked again. While a request is being confirmed its fact is an accepted answer.
FactsStand ==
    \A r \in Requests :
        /\ r \in revoked => fact[r] = Undecided /\ reserved[r] # "yes" /\ Asked(r)
        /\ reserved[r] # "no" => caller[r] # NoRequest
        /\ fact[r] # Undecided => Asked(r)
        /\ fact[r].by # "fallback"
        /\ reserved[r] = "yes" /\ fact[r] # Undecided => caller[r] = r /\ accepted[r] # {}
        /\ \A d \in accepted[r] : d.by # "fallback"

FactInv == AnswerInv /\ CallerTypes /\ CallersWait /\ FactsStand

\* Nobody but the fallback speaks for the fallback, and it rests on no permission.
LEMMA WhoDecides ==
    /\ \A d \in {Undecided, Failed, Once, Deny, Closing} : d.by # "fallback"
    /\ \A n : Granted(n).by # "fallback" /\ Ruled(n).by # "fallback"
    /\ \A allow : Fallback(allow).by = "fallback"
    /\ ~Failed.allow /\ ~Closing.allow
    /\ \A r \in Requests : Retained(r).by # "fallback"
  <1>1. /\ \A d \in {Undecided, Failed, Once, Deny, Closing} : d.by # "fallback"
        /\ ~Failed.allow /\ ~Closing.allow
    BY DEF Undecided, Failed, Once, Deny, Closing
  <1>2. \A n : Granted(n).by # "fallback" /\ Ruled(n).by # "fallback"
    BY DEF Granted, Ruled
  <1>3. \A allow : Fallback(allow).by = "fallback"
    BY DEF Fallback
  <1>4. ASSUME NEW r \in Requests PROVE Retained(r).by # "fallback"
    <2>1. Retained(r) = Undecided \/ \E n : Retained(r) \in {Granted(n), Ruled(n)}
      <3>1. CASE r \in Grantable /\ grants[Actor(r)] # 0
        BY <3>1 DEF Retained
      <3>2. CASE ~(r \in Grantable /\ grants[Actor(r)] # 0)
        BY <3>2 DEF Retained
      <3>3. QED
        BY <3>1, <3>2
    <2>2. QED
      BY <1>1, <1>2, <2>1
  <1>5. QED
    BY <1>1, <1>2, <1>3, <1>4

LEMMA FactInit == Init => FactInv
  BY AnswerInit, WhoDecides
     DEF Init, FactInv, CallerTypes, CallersWait, FactsStand, Asked, Actors

\* A step that changes nothing of the callers, the facts and the answers.
LEMMA NoFact ==
    ASSUME FactInv, UNCHANGED <<caller, got, leader, reserved, fact, revoked, accepted>>
    PROVE  CallerTypes' /\ FactsStand'
  BY DEF FactInv, CallerTypes, FactsStand, Asked

\* The caller of r is told d: a decision of the fallback confirms nothing.
LEMMA ToldKeeps ==
    ASSUME FactInv, NEW r \in Requests, NEW d, d # Undecided, Told(r, d),
           UNCHANGED <<leader, accepted>>,
           reserved[r] = "yes" /\ d.by = "fallback" => fact[r] = Undecided
    PROVE  CallerTypes' /\ FactsStand'
  <1>1. /\ caller' = [caller EXCEPT ![r] = NoRequest]
        /\ got' = [got EXCEPT ![r] = d]
        /\ revoked' = revoked
    BY DEF Told, factVars
  <1>2. \/ reserved[r] = "no" /\ UNCHANGED <<fact, reserved>>
        \/ /\ fact' = [fact EXCEPT ![r] = Confirmed(r, d)]
           /\ reserved' = [reserved EXCEPT ![r] = "no"]
    BY DEF Told, factVars
  <1>3. \/ Confirmed(r, d) = Undecided
        \/ Confirmed(r, d) = d /\ reserved[r] = "yes" /\ d.by # "fallback"
    BY WhoDecides DEF Confirmed
  <1> HIDE DEF Confirmed
  <1>4. CallerTypes'
    BY <1>1, <1>2 DEF FactInv, CallerTypes
  <1>5. reserved'[r] = "no" /\ got'[r] = d /\ fact'[r] \in {fact[r], Undecided, d}
    BY <1>1, <1>2, <1>3 DEF FactInv, CallerTypes
  <1>6. r \in revoked => fact'[r] = Undecided
    BY <1>1, <1>2, <1>3 DEF FactInv, CallerTypes, FactsStand
  <1>7. fact'[r].by # "fallback"
    BY <1>2, <1>3, WhoDecides DEF FactInv, CallerTypes, FactsStand
  <1>8. \A q \in Requests \ {r} :
            /\ caller'[q] = caller[q] /\ got'[q] = got[q]
            /\ fact'[q] = fact[q] /\ reserved'[q] = reserved[q]
    BY <1>1, <1>2 DEF FactInv, CallerTypes
  <1>9. FactsStand'
    BY <1>1, <1>5, <1>6, <1>7, <1>8 DEF FactInv, FactsStand, Asked
  <1>10. QED
    BY <1>4, <1>9

\* A question that has begun is over: its caller, if it waits in the question itself,
\* is told.
LEMMA OverFacts ==
    ASSUME FactInv, NEW r \in Requests, NEW d, d # Undecided, step[r] \notin {"new", "over"},
           Over(r, d), reserved[r] = "yes" /\ d.by = "fallback" => fact[r] = Undecided
    PROVE  CallerTypes' /\ CallersWait' /\ FactsStand'
  <1>1. UNCHANGED <<leader, accepted>>
    BY DEF Over
  <1>2. CallerTypes' /\ FactsStand'
    <2>1. CASE ~Shares(r) /\ caller[r] = r
      BY <1>1, <2>1, ToldKeeps DEF Over
    <2>2. CASE ~(~Shares(r) /\ caller[r] = r)
      BY <1>1, <2>2, NoFact DEF Over, factVars, callerVars
    <2>3. QED
      BY <2>1, <2>2
  <1>3. /\ step' = [step EXCEPT ![r] = "over"] /\ future' = [future EXCEPT ![r] = d]
        /\ step'[r] = "over" /\ future'[r] = d
    BY DEF Over, FactInv, AnswerInv, QuestionTypes
  <1>4. caller[r] \in {r, NoRequest} /\ r # NoRequest
    BY ApprovalAssumption DEF FactInv, CallersWait
  <1>5. \/ caller' = caller /\ (Shares(r) \/ caller[r] # r)
        \/ caller' = [caller EXCEPT ![r] = NoRequest]
    BY DEF Over, Told, callerVars
  <1>6. caller'[r] = NoRequest \/ (Shares(r) /\ caller' = caller)
    BY <1>4, <1>5 DEF FactInv, CallerTypes
  <1>7. \A q \in Requests \ {r} :
            caller'[q] = caller[q] /\ step'[q] = step[q] /\ future'[q] = future[q]
    BY <1>3, <1>5 DEF FactInv, CallerTypes, AnswerInv, QuestionTypes
  <1>8. CallersWait'
    BY <1>1, <1>3, <1>4, <1>6, <1>7 DEF FactInv, CallersWait
  <1>9. QED
    BY <1>2, <1>8

LEMMA EndsFacts ==
    ASSUME FactInv, NEW r \in Requests, Ends(r)
    PROVE  FactInv'
  <1>1. AnswerInv'
    BY EndsKeeps DEF FactInv
  <1>2. step[r] \notin {"new", "over"}
    BY DEF Ends
  <1>3. CASE Answered(r) /\ Over(r, future[r])
    <2>1. future[r] # Undecided
      BY <1>3 DEF Answered
    <2>2. reserved[r] = "yes" /\ fact[r] # Undecided => future[r].by # "fallback"
      BY <1>2 DEF FactInv, AnswerInv, AnswerStands, FactsStand
    <2>3. QED
      BY <1>1, <1>2, <1>3, <2>1, <2>2, OverFacts DEF FactInv
  <1>4. ASSUME ~Answered(r), NEW allow \in BOOLEAN, Over(r, Fallback(allow)) PROVE FactInv'
    <2>1. accepted[r] = {}
      BY <1>4 DEF Answered, FactInv, AnswerInv, AnswerStands
    <2>2. reserved[r] = "yes" => fact[r] = Undecided
      BY <2>1 DEF FactInv, FactsStand
    <2>3. Fallback(allow) # Undecided
      BY DecisionsDiffer
    <2>4. QED
      BY <1>1, <1>2, <1>4, <2>2, <2>3, OverFacts DEF FactInv
  <1>5. CASE Over(r, Failed)
    <2>1. Failed # Undecided /\ Failed.by # "fallback"
      BY DecisionsDiffer, WhoDecides
    <2>2. QED
      BY <1>1, <1>2, <1>5, <2>1, OverFacts DEF FactInv
  <1>6. QED
    BY <1>3, <1>4, <1>5 DEF Ends

LEMMA ResumesFacts ==
    ASSUME FactInv, NEW r \in Requests, Resumes(r)
    PROVE  FactInv'
  <1> DEFINE shared == caller[r]
  <1>1. /\ shared \in Requests /\ Shares(r) /\ step[shared] = "over"
        /\ Told(r, future[shared])
        /\ UNCHANGED <<step, future, leader, accepted>>
    BY DEF Resumes, questionVars, FactInv, CallerTypes
  <1>2. Shares(shared) /\ future[shared] # Undecided
    BY <1>1, ApprovalAssumption DEF FactInv, CallersWait
  <1>3. reserved[r] = "yes" /\ future[shared].by = "fallback" => fact[r] = Undecided
    <2>1. SUFFICES ASSUME reserved[r] = "yes", fact[r] # Undecided
                   PROVE  future[shared].by # "fallback"
      OBVIOUS
    <2>2. shared = r /\ accepted[r] # {} /\ \A d \in accepted[r] : d.by # "fallback"
      BY <2>1 DEF FactInv, FactsStand
    <2>3. future[r] = Failed \/ future[r] \in accepted[r]
      BY <2>2 DEF FactInv, AnswerInv, AnswerStands
    <2>4. QED
      BY <2>2, <2>3, WhoDecides
  <1>4. CallerTypes' /\ FactsStand'
    BY <1>1, <1>2, <1>3, ToldKeeps
  <1>5. caller' = [caller EXCEPT ![r] = NoRequest]
    BY <1>1 DEF Told
  <1>6. CallersWait'
    BY <1>1, <1>5 DEF FactInv, CallerTypes, CallersWait
  <1>7. AnswerInv'
    BY <1>1, NoQuestion DEF FactInv
  <1>8. QED
    BY <1>4, <1>6, <1>7 DEF FactInv

\* A request that is asked was not told before and does not wait: it has no fact and
\* nothing of it was revoked.
LEMMA AskFacts ==
    ASSUME FactInv, NEW r \in Requests, NEW confirms \in BOOLEAN, Ask(r, confirms)
    PROVE  FactInv'
  <1>1. /\ step[r] = "new" /\ caller[r] = NoRequest /\ got[r] = Undecided
        /\ UNCHANGED <<future, revoked, accepted>>
    BY DEF Ask
  <1>2. r \notin revoked /\ fact[r] = Undecided /\ reserved[r] = "no"
    BY <1>1 DEF FactInv, CallerTypes, FactsStand, Asked
  <1>3. AnswerInv'
    BY AskingKeeps DEF FactInv
  <1>4. CASE Retained(r) # Undecided
    <2>1. /\ got' = [got EXCEPT ![r] = Retained(r)]
          /\ \/ fact' = [fact EXCEPT ![r] = Retained(r)]
             \/ fact' = fact
          /\ UNCHANGED <<caller, reserved, step, leader>>
      BY <1>4 DEF Ask
    <2>2. CallerTypes' /\ CallersWait'
      BY <1>1, <2>1 DEF FactInv, CallerTypes, CallersWait
    <2>3. got'[r] # Undecided /\ fact'[r] \in {Undecided, Retained(r)}
      BY <1>2, <1>4, <2>1 DEF FactInv, CallerTypes
    <2>4. \A q \in Requests \ {r} : got'[q] = got[q] /\ fact'[q] = fact[q]
      BY <2>1 DEF FactInv, CallerTypes
    <2>5. FactsStand'
      BY <1>1, <1>2, <2>1, <2>3, <2>4, WhoDecides DEF FactInv, FactsStand, Asked
    <2>6. QED
      BY <1>3, <2>2, <2>5 DEF FactInv
  <1>5. CASE Retained(r) = Undecided
    <2> DEFINE shared == leader[Actor(r)]
               joins == Shares(r) /\ shared # NoRequest
    <2>1. /\ caller' = [caller EXCEPT ![r] = IF joins THEN shared ELSE r]
          /\ reserved' = [reserved EXCEPT ![r] = IF confirms THEN "yes" ELSE "no"]
          /\ UNCHANGED <<fact, got>>
      BY <1>5 DEF Ask
    <2>2. \/ joins /\ step' = step
          \/ ~joins /\ \E to \in {"created", "asking", "falling"} : step' = [step EXCEPT ![r] = to]
      BY <1>5 DEF Ask
    <2>3. leader' = IF Shares(r) /\ ~joins THEN [leader EXCEPT ![Actor(r)] = r] ELSE leader
      BY <1>5 DEF Ask
    <2>4. Actor(r) \in Actors /\ shared \in Requests \cup {NoRequest} /\ r # NoRequest
      BY ApprovalAssumption DEF Actor, Actors, FactInv, CallerTypes
    <2>5. caller'[r] = (IF joins THEN shared ELSE r) /\ caller'[r] # NoRequest
      BY <2>1, <2>4 DEF FactInv, CallerTypes
    <2>6. \A q \in Requests \ {r} :
              caller'[q] = caller[q] /\ reserved'[q] = reserved[q] /\ step'[q] = step[q]
      BY <2>1, <2>2 DEF FactInv, CallerTypes, AnswerInv, QuestionTypes
    <2>7. /\ joins => step'[r] = "new"
          /\ step'[r] # "over"
      BY <1>1, <2>2 DEF FactInv, AnswerInv, QuestionTypes
    <2>8. joins => Shares(shared)
      BY <2>4 DEF FactInv, CallersWait
    <2>9. CallerTypes'
      BY <2>1, <2>3, <2>4 DEF FactInv, CallerTypes
    <2>10. \A a \in Actors : leader'[a] # NoRequest => Shares(leader'[a])
      BY <2>3 DEF FactInv, CallerTypes, CallersWait
    <2>11. CallersWait'
      BY <1>1, <2>5, <2>6, <2>7, <2>8, <2>10 DEF FactInv, CallersWait
    <2>12. FactsStand'
      BY <1>1, <1>2, <2>1, <2>5, <2>6 DEF FactInv, FactsStand, Asked
    <2>13. QED
      BY <1>3, <2>9, <2>11, <2>12 DEF FactInv
  <1>6. QED
    BY <1>4, <1>5

\* A question goes on: no caller learns of it.
LEMMA GoesOnFacts ==
    ASSUME FactInv, NEW r \in Requests, Begins(r) \/ TimesOut(r)
    PROVE  FactInv'
  <1>1. /\ UNCHANGED <<future, leader, factVars, callerVars, accepted>>
        /\ step[r] # "new" /\ step[r] # "over"
        /\ \E to \in {"asking", "falling", "late"} : step' = [step EXCEPT ![r] = to]
    BY DEF Begins, TimesOut
  <1>2. AnswerInv'
    BY AskingKeeps DEF FactInv
  <1>3. CallersWait'
    BY <1>1 DEF FactInv, CallersWait, AnswerInv, QuestionTypes, callerVars
  <1>4. QED
    BY <1>1, <1>2, <1>3, NoFact DEF FactInv, factVars, callerVars

LEMMA ForgetsFacts ==
    ASSUME FactInv, NEW a \in Actors, Forgets(a)
    PROVE  FactInv'
  <1>1. /\ leader' = [leader EXCEPT ![a] = NoRequest]
        /\ UNCHANGED <<step, future, factVars, callerVars, accepted>>
    BY DEF Forgets
  <1>2. AnswerInv'
    BY <1>1, NoQuestion DEF FactInv
  <1>3. CallerTypes' /\ CallersWait'
    BY <1>1 DEF FactInv, CallerTypes, CallersWait, callerVars, factVars
  <1>4. FactsStand'
    BY <1>1 DEF FactInv, FactsStand, Asked, callerVars, factVars
  <1>5. QED
    BY <1>2, <1>3, <1>4 DEF FactInv

LEMMA CancelledFacts ==
    ASSUME FactInv, NEW r \in Requests, CallerCancelled(r)
    PROVE  FactInv'
  <1>1. /\ caller' = [caller EXCEPT ![r] = NoRequest]
        /\ got' = [got EXCEPT ![r] = Closing]
        /\ reserved' = [reserved EXCEPT ![r] = "no"]
        /\ fact' = [fact EXCEPT ![r] = Undecided]
        /\ step' = IF Shares(r) THEN step ELSE [step EXCEPT ![r] = "over"]
        /\ UNCHANGED <<future, leader, revoked, accepted>>
    BY DEF CallerCancelled
  <1>2. AnswerInv'
    BY AskingKeeps DEF FactInv
  <1>3. CallerTypes'
    BY <1>1 DEF FactInv, CallerTypes
  <1>4. CallersWait'
    BY <1>1 DEF FactInv, CallerTypes, CallersWait, AnswerInv, QuestionTypes
  <1>5. Closing # Undecided /\ Undecided.by # "fallback"
    BY DecisionsDiffer, WhoDecides
  <1>6. FactsStand'
    BY <1>1, <1>5 DEF FactInv, CallerTypes, FactsStand, Asked
  <1>7. QED
    BY <1>2, <1>3, <1>4, <1>6 DEF FactInv

\* An answer that is accepted confirms the request whose question it was.
LEMMA SaysFacts ==
    ASSUME FactInv, NEW r \in Requests, NEW d, d \notin {Undecided, Failed}, d.by # "fallback",
           Replies(r), Says(r, d)
    PROVE  FactInv'
  <1>1. UNCHANGED <<step, leader, reserved, revoked, caller, got>>
    BY DEF Replies, callerVars
  <1>2. AnswerInv'
    BY <1>1, SaysKeeps DEF FactInv
  <1>3. CASE ~Accepts(r)
    <2>1. UNCHANGED <<future, accepted, fact>>
      BY <1>3 DEF Says
    <2>2. CallersWait'
      BY <1>1, <2>1 DEF FactInv, CallersWait
    <2>3. QED
      BY <1>1, <1>2, <2>1, <2>2, NoFact DEF FactInv
  <1>4. CASE Accepts(r)
    <2>1. /\ step[r] = "asking"
          /\ future' = [future EXCEPT ![r] = d]
          /\ accepted' = [accepted EXCEPT ![r] = @ \cup {d}]
          /\ \/ fact' = fact
             \/ reserved[r] = "yes" /\ fact' = [fact EXCEPT ![r] = d]
      BY <1>4 DEF Says, Accepts, Issues
    <2>2. CallerTypes' /\ CallersWait'
      BY <1>1, <2>1 DEF FactInv, CallerTypes, CallersWait, AnswerInv, QuestionTypes
    <2>3. caller[r] \in {r, NoRequest}
      BY <2>1 DEF FactInv, CallersWait
    <2>4. accepted'[r] = accepted[r] \cup {d}
      BY <2>1 DEF FactInv, AnswerInv, QuestionTypes
    <2>5. \A q \in Requests \ {r} : fact'[q] = fact[q] /\ accepted'[q] = accepted[q]
      BY <2>1 DEF FactInv, CallerTypes, AnswerInv, QuestionTypes
    <2>6. fact'[r] = fact[r] \/ (reserved[r] = "yes" /\ fact'[r] = d)
      BY <2>1 DEF FactInv, CallerTypes
    <2>7. FactsStand'
      BY <1>1, <2>3, <2>4, <2>5, <2>6 DEF FactInv, FactsStand, Asked
    <2>8. QED
      BY <1>2, <2>2, <2>7 DEF FactInv
  <1>5. QED
    BY <1>3, <1>4

LEMMA AnswersFacts ==
    ASSUME FactInv, NEW r \in Requests, AnswerOnce(r) \/ AnswerSession(r) \/ AnswerProject(r)
    PROVE  FactInv'
  <1>1. CASE AnswerOnce(r)
    BY <1>1, SaysFacts, DecisionsDiffer, WhoDecides DEF AnswerOnce
  <1>2. CASE AnswerSession(r)
    BY <1>2, SaysFacts, DecisionsDiffer, WhoDecides DEF AnswerSession
  <1>3. CASE AnswerProject(r)
    BY <1>3, SaysFacts, DecisionsDiffer, WhoDecides DEF AnswerProject
  <1>4. QED
    BY <1>1, <1>2, <1>3

\* An owner makes the facts of rs void, those in the making too.
LEMMA VoidedFactsStand ==
    ASSUME FactInv, NEW rs \in SUBSET Requests, Voided(rs), Denied(rs),
           UNCHANGED <<step, leader, callerVars, accepted>>
    PROVE  FactInv'
  <1>1. AnswerInv'
    BY DeniedKeeps DEF FactInv
  <1>2. CallerTypes'
    BY DEF FactInv, CallerTypes, Voided, callerVars
  <1>3. \A r \in Requests : future[r] # Undecided => future'[r] # Undecided
    BY DEF Denied, Answered
  <1>4. CallersWait'
    BY <1>3 DEF FactInv, CallersWait, callerVars
  <1>5. \A r \in Requests :
            /\ fact'[r] = IF r \in rs THEN Undecided ELSE fact[r]
            /\ reserved'[r] = IF r \in rs /\ reserved[r] # "no" THEN "void" ELSE reserved[r]
            /\ r \in revoked' =>
                   r \in revoked \/ (r \in rs /\ (reserved[r] # "no" \/ fact[r] # Undecided))
    BY DEF Voided
  <1>6. FactsStand'
    BY <1>5, WhoDecides DEF FactInv, FactsStand, Asked, callerVars
  <1>7. QED
    BY <1>1, <1>2, <1>4, <1>6 DEF FactInv

LEMMA OwnersFacts ==
    ASSUME FactInv,
           \/ \E ends \in BOOLEAN : CloseSession(ends)
           \/ Dispose \/ CancelActor
    PROVE  FactInv'
  <1>1. Requests \in SUBSET Requests /\ OfChild \in SUBSET Requests
    BY ApprovalAssumption
  <1>2. CASE \E ends \in BOOLEAN : CloseSession(ends)
    BY <1>1, <1>2, VoidedFactsStand DEF CloseSession
  <1>3. CASE Dispose
    BY <1>1, <1>3, VoidedFactsStand DEF Dispose
  <1>4. CASE CancelActor
    BY <1>1, <1>4, VoidedFactsStand DEF CancelActor
  <1>5. QED
    BY <1>2, <1>3, <1>4

\* A fact is taken back.
LEMMA TakenBackFacts ==
    ASSUME FactInv, RevokeActorGrants \/ \E r \in Requests : Release(r)
    PROVE  FactInv'
  <1>1. UNCHANGED <<step, future, leader, reserved, caller, got, accepted>>
    BY DEF RevokeActorGrants, Release, questionVars, callerVars
  <1>2. /\ fact' = [r \in Requests |-> fact'[r]]
        /\ \A r \in Requests :
               /\ fact'[r] \in {fact[r], Undecided}
               /\ r \in revoked' \ revoked =>
                      fact'[r] = Undecided /\ fact[r] # Undecided /\ reserved[r] = "no"
    BY DEF RevokeActorGrants, Release, FactInv, CallerTypes
  <1>3. AnswerInv'
    BY <1>1, NoQuestion DEF FactInv
  <1>4. CallerTypes' /\ CallersWait'
    BY <1>1, <1>2 DEF FactInv, CallerTypes, CallersWait
  <1>5. FactsStand'
    BY <1>1, <1>2, WhoDecides DEF FactInv, FactsStand, Asked
  <1>6. QED
    BY <1>3, <1>4, <1>5 DEF FactInv

LEMMA FactStep == FactInv /\ [Next]_vars => FactInv'
  <1> SUFFICES ASSUME FactInv, [Next]_vars PROVE FactInv'
    OBVIOUS
  <1>1. ASSUME UNCHANGED <<questionVars, factVars, callerVars, accepted>> PROVE FactInv'
    <2>1. AnswerInv' /\ CallersWait'
      BY <1>1, NoQuestion DEF FactInv, CallersWait, questionVars, callerVars
    <2>2. QED
      BY <1>1, <2>1, NoFact DEF FactInv, questionVars, factVars, callerVars
  <1>2. ASSUME NEW r \in Requests, \E confirms \in BOOLEAN : Ask(r, confirms) PROVE FactInv'
    BY <1>2, AskFacts
  <1>3. ASSUME NEW r \in Requests, Begins(r) \/ TimesOut(r) PROVE FactInv'
    BY <1>3, GoesOnFacts
  <1>4. ASSUME NEW r \in Requests, Ends(r) \/ Resumes(r) \/ CallerCancelled(r) PROVE FactInv'
    BY <1>4, EndsFacts, ResumesFacts, CancelledFacts
  <1>5. ASSUME NEW r \in Requests, AnswerOnce(r) \/ AnswerSession(r) \/ AnswerProject(r)
        PROVE FactInv'
    BY <1>5, AnswersFacts
  <1>6. ASSUME NEW r \in Requests, AnswerUnsaved(r) PROVE FactInv'
    BY <1>1, <1>6 DEF AnswerUnsaved
  <1>7. ASSUME NEW a \in Actors, Forgets(a) PROVE FactInv'
    BY <1>7, ForgetsFacts
  <1>8. CASE (\E ends \in BOOLEAN : CloseSession(ends)) \/ Dispose \/ CancelActor
    BY <1>8, OwnersFacts
  <1>9. CASE RevokeActorGrants \/ \E r \in Requests : Release(r)
    BY <1>9, TakenBackFacts
  <1>10. CASE (\E there \in BOOLEAN : SetPresenter(there)) \/ OpenSession \/ Revoke
    BY <1>1, <1>10 DEF SetPresenter, OpenSession, Revoke
  <1>11. CASE UNCHANGED vars
    BY <1>1, <1>11 DEF vars
  <1>12. QED
    BY <1>2, <1>3, <1>4, <1>5, <1>6, <1>7, <1>8, <1>9, <1>10, <1>11 DEF Next

\* A confirmation that is valid was not revoked since it was asked for, whatever was
\* closed, cancelled or withdrawn while its caller waited, and is nobody's default.
THEOREM ConfirmationsStand == Spec => []FactsAreCurrent
  <1>1. FactInv => FactsAreCurrent
    BY DEF FactInv, FactsStand, FactsAreCurrent, Current
  <1>2. QED
    BY FactInit, FactStep, <1>1, PTL DEF Spec
=============================================================================
