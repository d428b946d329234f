---------------------------- MODULE ExecutionProofs ---------------------------
(***************************************************************************)
(* For any number of sessions, submissions, executions and faults: no      *)
(* input runs twice, what the Product owns is held by the slot of its      *)
(* session, outcomes are true, records that are referred to are kept, the  *)
(* registry implements the promise of Submissions, and its view shows what *)
(* the Product observed. For a buffer of any size and any number of        *)
(* captures, a client that watches misses nothing.                         *)
(***************************************************************************)
EXTENDS ExecutionStream, SequenceTheorems, WellFoundedInduction, TLAPS

\* Executions are numbered as they are accepted.
Numbered ==
    /\ \A e \in Execs : (record[e].status = "none" <=> e > last) /\ (e > last => entered[e] = 0)
    /\ \A s \in Sessions : slot[s].exec <= last /\ guard[s].exec <= last

\* An execution is active while it is in the slot of its session, and then only; it is
\* running once its work was entered.
SlotOK(s) ==
    /\ slot[s].exec = 0 <=> slot[s].task = "idle"
    /\ slot[s].exec # 0 =>
          /\ record[slot[s].exec].session = s
          /\ record[slot[s].exec].status =
                IF entered[slot[s].exec] > 0 THEN "running" ELSE "accepted"
          /\ ~slot[s].started => entered[slot[s].exec] = 0
    /\ slot[s].exec = 0 \/ slot[s].task = "starting" => ~slot[s].started
    /\ slot[s].task = "waiting" => slot[s].started
    /\ close[s] = "closed" => slot[s].exec = 0

ActiveInSlot(e) == record[e].status \in Active => slot[record[e].session].exec = e

\* The guard works for the slot that started it, and its candidate is what the work of
\* its execution returned.
GuardOK(s) ==
    /\ slot[s].started => guard[s].exec = slot[s].exec
    /\ Unsettled(s) => slot[s].started
    /\ guard[s].exec # 0 => record[guard[s].exec].session = s
    /\ guard[s].exec = 0 => guard[s].task = "idle"
    /\ guard[s].task = "beginning" => entered[guard[s].exec] = 0
    /\ guard[s].task \in {"running", "settling", "debt"} => entered[guard[s].exec] > 0
    /\ guard[s].task \in {"settling", "debt", "done"} =>
          /\ guard[s].candidate \in Ended
          /\ guard[s].candidate =
                IF entered[guard[s].exec] > 0 THEN result[guard[s].exec] ELSE "interrupted"

Slots == (\A s \in Sessions : SlotOK(s)) /\ (\A e \in Execs : ActiveInSlot(e))
Guards == \A s \in Sessions : GuardOK(s)

\* A submission leads to the execution that was made of it, and so does every answer.
Submitted ==
    /\ \A s \in Sessions, i \in Submissions : ledger[s][i] # 0 =>
          /\ ledger[s][i] <= last
          /\ record[ledger[s][i]].session = s /\ record[ledger[s][i]].sub = i
    /\ \A x \in answers :
          /\ x.exec \in 1..last
          /\ record[x.exec].text = x.text /\ record[x.exec].sub = x.sub
          /\ x.sub # Legacy => /\ x.session \in Sessions /\ x.sub \in Submissions
                               /\ ledger[x.session][x.sub] = x.exec

\* No work was entered twice; what has ended ended as its work did.
HistoryOK(e) ==
    /\ entered[e] <= 1
    /\ record[e].status \in Ended =>
          IF entered[e] > 0 THEN record[e].status = result[e] ELSE record[e].status # "succeeded"
Histories == \A e \in Execs : HistoryOK(e)

\* What may be forgotten is ended and has no submission.
Keeps ==
    /\ \A k \in DOMAIN legacy : record[legacy[k]].sub = Legacy /\ record[legacy[k]].status \in Ended
    /\ ReferredIsKept

RegistryInv == TypeOK /\ Numbered /\ Slots /\ Guards /\ Submitted /\ Histories /\ Keeps

-----------------------------------------------------------------------------
\* Types.
RecordType == [session : Sessions, sub : Submissions \cup {Legacy}, text : Texts,
               status : Statuses, revision : Nat, interrupt : BOOLEAN]
SlotType == [exec : 0..MaxExecs, task : {"idle", "starting", "waiting", "failed", "retrying"},
             started : BOOLEAN, seen : {"none", "running"} \cup Ended]
Observations == [exec : 0..MaxExecs, status : Statuses]
GuardType == [exec : 0..MaxExecs, status : Statuses, asked : BOOLEAN, cancelled : BOOLEAN,
              task : {"idle", "beginning", "running", "settling", "debt", "done"},
              candidate : {"none"} \cup Ended, obs : Observations]
ViewType == [revision : Nat, active : 0..MaxExecs, quiescent : Observations]

LEMMA Types ==
    TypeOK <=>
      /\ last \in 0..MaxExecs /\ record \in [Execs -> RecordType]
      /\ kept \subseteq Execs /\ legacy \in Seq(Execs) /\ Len(legacy) <= RecentLegacy
      /\ ledger \in [Sessions -> [Submissions -> 0..MaxExecs]]
      /\ slot \in [Sessions -> SlotType] /\ guard \in [Sessions -> GuardType]
      /\ view \in [Sessions -> ViewType]
      /\ close \in [Sessions -> {"open", "closing", "failed", "closed"}] /\ fenced \in BOOLEAN
      /\ left \in [faults : 0..MaxFaults, reopens : 0..MaxReopens]
      /\ entered \in [Execs -> Nat] /\ result \in [Execs -> {"none"} \cup Ended]
  BY DEF TypeOK, RecordType, SlotType, GuardType, ViewType, Observations

\* The bounds only shrink.
LEMMA LeftKeeps ==
    ASSUME TypeOK, Fault \/ left' = left
    PROVE  left' \in [faults : 0..MaxFaults, reopens : 0..MaxReopens]
  <1>1. CASE Fault
    <2>1. left \in [faults : 0..MaxFaults, reopens : 0..MaxReopens]
      BY Types
    <2>2. left.faults \in 0..MaxFaults /\ left.faults > 0 /\ MaxFaults \in Nat
      BY <1>1, <2>1, LimitsAssumption DEF Fault
    <2>3. left.faults - 1 \in 0..MaxFaults
      BY <2>2
    <2>4. QED
      BY <1>1, <2>1, <2>3 DEF Fault
  <1>2. QED
    BY <1>1, Types

LEMMA StatusesAre ==
    /\ Ended \subseteq Statuses /\ Active \subseteq Statuses /\ "none" \in Statuses
    /\ Ended \cap Active = {} /\ "none" \notin Ended \cup Active
    /\ Active = {"accepted", "running"} /\ Ended = {"succeeded", "failed", "interrupted"}
  BY DEF Statuses, Ended, Active

\* Publishing a state of e leaves the other records and views alone.
LEMMA PublishKeeps ==
    ASSUME TypeOK, NEW s \in Sessions, NEW e \in Execs, NEW new \in RecordType,
           NEW quiescent \in Observations, Publish(s, e, new, quiescent)
    PROVE  /\ record' \in [Execs -> RecordType] /\ view' \in [Sessions -> ViewType]
           /\ record'[e] = new /\ \A x \in Execs \ {e} : record'[x] = record[x]
  <1>1. record \in [Execs -> RecordType] /\ view \in [Sessions -> ViewType]
    BY Types
  <1>2. record' = [record EXCEPT ![e] = new]
    BY DEF Publish
  <1>3. view' = [view EXCEPT ![s] = [revision |-> view[s].revision + 1,
                                     active |-> IF new.status \in Ended THEN 0 ELSE e,
                                     quiescent |-> quiescent]]
    BY DEF Publish
  <1>4. [revision |-> view[s].revision + 1, active |-> IF new.status \in Ended THEN 0 ELSE e,
         quiescent |-> quiescent] \in ViewType
    <2>1. view[s].revision + 1 \in Nat
      BY <1>1 DEF ViewType
    <2>2. (IF new.status \in Ended THEN 0 ELSE e) \in 0..MaxExecs
      BY LimitsAssumption DEF Execs
    <2>3. QED
      BY <2>1, <2>2 DEF ViewType
  <1>5. QED
    BY <1>1, <1>2, <1>3, <1>4

LEMMA PublishNextKeeps ==
    ASSUME TypeOK, NEW s \in Sessions, NEW e \in Execs, NEW new \in RecordType,
           PublishNext(s, e, new)
    PROVE  /\ record' \in [Execs -> RecordType] /\ view' \in [Sessions -> ViewType]
           /\ record'[e] = [new EXCEPT !.revision = @ + 1]
           /\ \A x \in Execs \ {e} : record'[x] = record[x]
  <1>1. [new EXCEPT !.revision = @ + 1] \in RecordType
    BY DEF RecordType
  <1>2. view[s].quiescent \in Observations
    BY Types DEF ViewType
  <1>3. QED
    BY <1>1, <1>2, PublishKeeps DEF PublishNext

-----------------------------------------------------------------------------
\* Different sessions have different executions.
LEMMA Apart ==
    ASSUME RegistryInv, NEW s \in Sessions, NEW u \in Sessions \ {s}, slot[s].exec # 0
    PROVE  slot[u].exec # slot[s].exec /\ guard[u].exec # slot[s].exec
  BY DEF RegistryInv, Slots, SlotOK, Guards, GuardOK

LEMMA InSlot ==
    ASSUME RegistryInv, NEW s \in Sessions, slot[s].task # "idle"
    PROVE  /\ slot[s].exec \in Execs /\ slot[s].exec <= last
           /\ record[slot[s].exec].session = s /\ record[slot[s].exec].status \in Active
  <1>1. slot[s] \in SlotType
    BY Types DEF RegistryInv
  <1>2. QED
    BY <1>1 DEF RegistryInv, Slots, SlotOK, Numbered, SlotType, Execs, Active

\* A step of one session and of the execution in its slot.
LEMMA LocalStep ==
    ASSUME RegistryInv, NEW s \in Sessions,
           UNCHANGED <<last, ledger, answers>>,
           \A u \in Sessions \ {s} : slot'[u] = slot[u] /\ guard'[u] = guard[u] /\ close'[u] = close[u],
           \A e \in Execs : e = slot[s].exec
              \/ (record'[e] = record[e] /\ entered'[e] = entered[e] /\ result'[e] = result[e]),
           \A e \in Execs : e = slot[s].exec =>
              /\ record'[e].session = s /\ record'[e].sub = record[e].sub
              /\ record'[e].text = record[e].text /\ record'[e].status # "none"
              /\ ActiveInSlot(e)' /\ HistoryOK(e)',
           slot'[s].exec \in {0, slot[s].exec}, guard'[s].exec \in {0, guard[s].exec, slot[s].exec},
           SlotOK(s)', GuardOK(s)'
    PROVE  Numbered' /\ Slots' /\ Guards' /\ Submitted' /\ Histories'
  <1> DEFINE e == slot[s].exec
  <1>1. e \in 0..MaxExecs /\ (e # 0 => e \in Execs /\ e <= last /\ record[e].session = s
                                       /\ record[e].status \in Active)
    <2>1. slot[s] \in SlotType
      BY Types DEF RegistryInv
    <2>2. QED
      BY <2>1, InSlot DEF RegistryInv, Slots, SlotOK, SlotType
  <1>2. \A u \in Sessions \ {s} : e # 0 => slot[u].exec # e /\ guard[u].exec # e
    BY Apart
  <1>3. \A x \in Execs : record'[x].session = record[x].session /\ record'[x].sub = record[x].sub
                         /\ record'[x].text = record[x].text
                         /\ (record'[x].status = "none" <=> record[x].status = "none")
    BY <1>1, StatusesAre DEF Execs
  <1>4. \A u \in Sessions : slot[u].exec \in 0..MaxExecs /\ guard[u].exec \in 0..MaxExecs
    <2>1. \A u \in Sessions : slot[u] \in SlotType /\ guard[u] \in GuardType
      BY Types DEF RegistryInv
    <2>2. QED
      BY <2>1 DEF SlotType, GuardType
  <1>5. 0 \notin Execs /\ \A x \in 0..MaxExecs : x = 0 \/ x \in Execs
    BY DEF Execs
  <1>6. Numbered'
    <2>1. \A x \in Execs : (record'[x].status = "none" <=> x > last) /\ (x > last => entered'[x] = 0)
      <3>1. last \in Nat /\ \A x \in Execs : x \in Nat /\ (x = e => ~(x > last))
        BY <1>1, Types, LimitsAssumption DEF RegistryInv, Execs
      <3>2. QED
        BY <1>3, <3>1 DEF RegistryInv, Numbered
    <2>2. \A u \in Sessions : slot'[u].exec <= last /\ guard'[u].exec <= last
      <3>1. 0 <= last
        BY Types DEF RegistryInv
      <3>2. QED
        BY <3>1 DEF RegistryInv, Numbered
    <2>3. QED
      BY <2>1, <2>2 DEF Numbered
  <1>7. ASSUME NEW u \in Sessions PROVE SlotOK(u)' /\ GuardOK(u)'
    <2>1. CASE u = s
      BY <2>1
    <2>2. CASE u # s
      <3>1. /\ slot'[u] = slot[u] /\ guard'[u] = guard[u] /\ close'[u] = close[u]
            /\ \A x \in {slot[u].exec, guard[u].exec} : x # 0 =>
                   x # e /\ record'[x] = record[x] /\ entered'[x] = entered[x] /\ result'[x] = result[x]
        BY <1>2, <1>4, <1>5, <2>2
      <3>2. SlotOK(u)'
        BY <3>1 DEF RegistryInv, Slots, SlotOK
      <3>3. GuardOK(u)'
        BY <3>1 DEF RegistryInv, Guards, GuardOK, Unsettled
      <3>4. QED
        BY <3>2, <3>3
    <2>3. QED
      BY <2>1, <2>2
  <1>8. ASSUME NEW x \in Execs PROVE ActiveInSlot(x)' /\ HistoryOK(x)'
    <2>1. CASE x = e
      BY <1>5, <2>1
    <2>2. CASE x # e
      <3>1. record'[x] = record[x] /\ entered'[x] = entered[x] /\ result'[x] = result[x]
        BY <2>2
      <3>2. record[x].session \in Sessions
        <4>1. record[x] \in RecordType
          BY Types DEF RegistryInv
        <4>2. QED
          BY <4>1 DEF RecordType
      <3>3. record[x].status \in Active => record[x].session # s
        BY <2>2 DEF RegistryInv, Slots, ActiveInSlot
      <3>4. ActiveInSlot(x)'
        BY <3>1, <3>2, <3>3 DEF RegistryInv, Slots, ActiveInSlot
      <3>5. HistoryOK(x)'
        BY <3>1 DEF RegistryInv, Histories, HistoryOK
      <3>6. QED
        BY <3>4, <3>5
    <2>3. QED
      BY <2>1, <2>2
  <1>9. Submitted'
    <2>1. \A t \in Sessions, i \in Submissions : ledger[t][i] # 0 => ledger[t][i] \in Execs
      BY <1>5, Types DEF RegistryInv
    <2>2. \A x \in answers : x.exec \in Execs
      BY Types, LimitsAssumption DEF RegistryInv, Submitted, Execs
    <2>3. QED
      BY <1>3, <2>1, <2>2 DEF RegistryInv, Submitted
  <1>10. QED
    BY <1>6, <1>7, <1>8, <1>9 DEF Slots, Guards, Histories

\* A step that forgets no record.
LEMMA KeepsStill ==
    ASSUME RegistryInv, UNCHANGED <<legacy, kept, ledger>>,
           \A u \in Sessions : slot'[u].exec \in {0, slot[u].exec},
           \A e \in Execs : /\ record'[e].sub = record[e].sub
                            /\ record[e].status \in Ended => record'[e].status \in Ended
    PROVE  Keeps'
  <1>1. \A k \in DOMAIN legacy : legacy[k] \in Execs
    BY Types DEF RegistryInv
  <1>2. QED
    BY <1>1 DEF RegistryInv, Keeps, ReferredIsKept

\* Only the task of a slot and what it has seen change, or the guard, or the binding.
LEMMA RecordsStay ==
    ASSUME RegistryInv, NEW s \in Sessions,
           UNCHANGED <<last, record, kept, legacy, ledger, view, fenced, answers, entered, result>>,
           close' \in [Sessions -> {"open", "closing", "failed", "closed"}],
           left' \in [faults : 0..MaxFaults, reopens : 0..MaxReopens],
           slot' \in [Sessions -> SlotType], guard' \in [Sessions -> GuardType],
           \A u \in Sessions \ {s} : slot'[u] = slot[u] /\ guard'[u] = guard[u] /\ close'[u] = close[u],
           slot'[s].exec = slot[s].exec, guard'[s].exec \in {0, guard[s].exec, slot[s].exec},
           SlotOK(s)', GuardOK(s)'
    PROVE  RegistryInv'
  <1>1. TypeOK'
    BY Types, LimitsAssumption DEF RegistryInv, TypeOK, SlotType, GuardType, Observations
  <1>2. \A e \in Execs : e = slot[s].exec =>
              /\ record'[e].session = s /\ record'[e].sub = record[e].sub
              /\ record'[e].text = record[e].text /\ record'[e].status # "none"
              /\ ActiveInSlot(e)' /\ HistoryOK(e)'
    <2>1. SUFFICES ASSUME NEW e \in Execs, e = slot[s].exec
                   PROVE  /\ record[e].session = s /\ record[e].status # "none"
                          /\ ActiveInSlot(e)' /\ HistoryOK(e)'
      OBVIOUS
    <2>2. e # 0
      BY DEF Execs
    <2>3. record[e].session = s /\ record[e].status # "none"
      BY <2>1, <2>2, StatusesAre DEF RegistryInv, Slots, SlotOK
    <2>4. ActiveInSlot(e)' /\ HistoryOK(e)'
      BY <2>1, <2>3 DEF RegistryInv, ActiveInSlot, Histories, HistoryOK
    <2>5. QED
      BY <2>3, <2>4
  <1>3. Numbered' /\ Slots' /\ Guards' /\ Submitted' /\ Histories'
    BY <1>2, LocalStep
  <1>4. Keeps'
    BY KeepsStill
  <1>5. QED
    BY <1>1, <1>3, <1>4 DEF RegistryInv

-----------------------------------------------------------------------------
\* The outcome is published and the slot is free.

\* Which legacy records are forgotten: none that a submission or a slot refers to.
LEMMA RetireKeeps ==
    ASSUME RegistryInv, NEW e \in Execs, record[e].sub = Legacy,
           record'[e].status \in Ended, \A x \in Execs : record'[x].sub = record[x].sub,
           \A x \in Execs \ {e} : record'[x].status = record[x].status,
           \A u \in Sessions : slot'[u].exec \in {0, slot[u].exec} /\ slot'[u].exec # e,
           ledger' = ledger, Retire(e)
    PROVE  Keeps' /\ kept' \subseteq Execs /\ legacy' \in Seq(Execs) /\ Len(legacy') <= RecentLegacy
  <1> DEFINE long == Append(legacy, e)
  <1>1. PICK n \in 0..Len(legacy) :
            /\ Len(legacy) + 1 - n <= RecentLegacy
            /\ legacy' = SubSeq(long, n + 1, Len(legacy) + 1)
            /\ kept' = kept \ {legacy[k] : k \in 1..n}
    BY DEF Retire
  <1>2. legacy \in Seq(Execs) /\ kept \subseteq Execs /\ Len(legacy) \in Nat /\ DOMAIN legacy = 1..Len(legacy)
    BY Types DEF RegistryInv
  <1>3. /\ long \in Seq(Execs) /\ Len(long) = Len(legacy) + 1 /\ long[Len(legacy) + 1] = e
        /\ \A k \in 1..Len(legacy) : long[k] = legacy[k]
    BY <1>2
  <1> HIDE DEF long
  <1>4. /\ legacy' \in Seq(Execs) /\ Len(legacy') = Len(legacy) + 1 - n
        /\ \A k \in 1..Len(legacy') : \E j \in 1..(Len(legacy) + 1) : legacy'[k] = long[j]
    <2>1. n + 1 \in 1..(Len(long) + 1) /\ Len(long) \in Nat
      BY <1>2, <1>3
    <2>2. \A k \in (n + 1)..Len(long) : k \in 1..Len(long)
      BY <2>1
    <2>3. /\ SubSeq(long, n + 1, Len(long)) \in Seq(Execs)
          /\ Len(SubSeq(long, n + 1, Len(long))) = Len(long) - n
          /\ \A k \in 1..(Len(long) - n) : SubSeq(long, n + 1, Len(long))[k] = long[n + k]
      BY <1>2, <1>3, <2>1
    <2>4. \A k \in 1..(Len(long) - n) : n + k \in 1..Len(long)
      BY <1>2, <1>3
    <2>5. QED
      BY <1>1, <1>3, <2>3, <2>4
  <1>5. \A k \in 1..Len(legacy) : /\ legacy[k] \in Execs /\ record[legacy[k]].sub = Legacy
                                  /\ record[legacy[k]].status \in Ended
    BY <1>2 DEF RegistryInv, Keeps
  <1>6. \A k \in DOMAIN legacy' : record'[legacy'[k]].sub = Legacy /\ record'[legacy'[k]].status \in Ended
    <2>1. SUFFICES ASSUME NEW k \in 1..Len(legacy')
                   PROVE  record'[legacy'[k]].sub = Legacy /\ record'[legacy'[k]].status \in Ended
      BY <1>4
    <2>2. PICK j \in 1..(Len(legacy) + 1) : legacy'[k] = long[j]
      BY <1>4
    <2>3. CASE j = Len(legacy) + 1
      BY <1>3, <2>2, <2>3
    <2>4. CASE j \in 1..Len(legacy)
      BY <1>3, <1>5, <2>2, <2>4
    <2>5. QED
      BY <1>2, <2>3, <2>4
  <1>7. ASSUME NEW t \in Sessions, NEW i \in Submissions, ledger[t][i] # 0
        PROVE  ledger[t][i] \in kept'
    <2>1. record[ledger[t][i]].sub = i /\ i # Legacy /\ ledger[t][i] \in kept
      BY <1>7, LimitsAssumption DEF RegistryInv, Submitted, Keeps, ReferredIsKept
    <2>2. QED
      BY <1>1, <1>2, <1>5, <2>1
  <1>8. ASSUME NEW u \in Sessions, slot'[u].exec # 0 PROVE slot'[u].exec \in kept'
    <2>1. slot'[u].exec = slot[u].exec /\ slot[u].exec \in kept
      BY <1>8 DEF RegistryInv, Keeps, ReferredIsKept
    <2>2. record[slot[u].exec].status \notin Ended
      BY <1>8, <2>1, StatusesAre DEF RegistryInv, Slots, SlotOK
    <2>3. QED
      BY <1>1, <1>2, <1>5, <2>1, <2>2
  <1>9. kept' \subseteq Execs /\ Len(legacy') <= RecentLegacy
    BY <1>1, <1>2, <1>4
  <1>10. QED
    BY <1>4, <1>6, <1>7, <1>8, <1>9 DEF Keeps, ReferredIsKept

\* What Finish changes of the records.
LEMMA FinishEffect ==
    ASSUME RegistryInv, NEW s \in Sessions, slot[s].task # "idle", NEW outcome \in Ended,
           Finish(s, outcome)
    PROVE  LET e == slot[s].exec IN
           /\ record' \in [Execs -> RecordType] /\ view' \in [Sessions -> ViewType]
           /\ record'[e].status = outcome /\ record'[e].sub = record[e].sub
           /\ record'[e].text = record[e].text /\ record'[e].session = s
           /\ record'[e].revision = record[e].revision + 1
           /\ record'[e].interrupt = record[e].interrupt
           /\ \A x \in Execs \ {e} : record'[x] = record[x]
  <1> DEFINE e == slot[s].exec
             new == [record[e] EXCEPT !.status = outcome, !.revision = @ + 1]
  <1>1. e \in Execs /\ record[e].session = s
    BY InSlot
  <1>2. record[e] \in RecordType
    BY <1>1, Types DEF RegistryInv
  <1>3. /\ new \in RecordType /\ new.status = outcome /\ new.sub = record[e].sub
        /\ new.text = record[e].text /\ new.session = record[e].session
        /\ new.revision = record[e].revision + 1 /\ new.interrupt = record[e].interrupt
    <2>1. ASSUME NEW r \in RecordType, NEW v, v = [r EXCEPT !.status = outcome, !.revision = r.revision + 1]
          PROVE  /\ v \in RecordType /\ v.status = outcome /\ v.sub = r.sub
                 /\ v.text = r.text /\ v.session = r.session
                 /\ v.revision = r.revision + 1 /\ v.interrupt = r.interrupt
      <3>1. r.revision + 1 \in Nat /\ outcome \in Statuses
        BY StatusesAre DEF RecordType
      <3>2. QED
        BY <2>1, <3>1 DEF RecordType
    <2>2. new = [record[e] EXCEPT !.status = outcome, !.revision = record[e].revision + 1]
      OBVIOUS
    <2> HIDE DEF new, e
    <2>3. QED
      BY <1>2, <2>1, <2>2
  <1>4. Quiescent(s) \in Observations
    <2>1. view[s] \in ViewType /\ slot[s] \in SlotType
      BY Types DEF RegistryInv
    <2>2. view[s].quiescent \in Observations /\ slot[s].exec \in 0..MaxExecs /\ slot[s].seen \in Statuses
      BY <2>1 DEF ViewType, SlotType, Statuses, Active, Ended
    <2>3. QED
      BY <2>2 DEF Quiescent, Observations
  <1>5. Publish(s, e, new, Quiescent(s))
    BY DEF Finish
  <1> HIDE DEF new, e
  <1>6. /\ record' \in [Execs -> RecordType] /\ view' \in [Sessions -> ViewType]
        /\ record'[e] = new /\ \A x \in Execs \ {e} : record'[x] = record[x]
    BY <1>1, <1>3, <1>4, <1>5, PublishKeeps DEF RegistryInv
  <1>7. QED
    BY <1>1, <1>3, <1>6 DEF e

LEMMA FinishKeeps ==
    ASSUME RegistryInv, NEW s \in Sessions, slot[s].task # "idle", NEW outcome \in Ended,
           Finish(s, outcome), Fault \/ left' = left, ~Unsettled(s),
           UNCHANGED <<guard, close, fenced, historyVars>>,
           entered[slot[s].exec] > 0 => outcome = result[slot[s].exec],
           ~(entered[slot[s].exec] > 0) => outcome # "succeeded"
    PROVE  RegistryInv'
  <1> DEFINE e == slot[s].exec
  <1>1. e \in Execs /\ record[e].session = s /\ record[e].status \in Active
    BY InSlot
  <1>2. /\ record' \in [Execs -> RecordType] /\ view' \in [Sessions -> ViewType]
        /\ record'[e].status = outcome /\ record'[e].sub = record[e].sub
        /\ record'[e].text = record[e].text /\ record'[e].session = s
        /\ \A x \in Execs \ {e} : record'[x] = record[x]
    BY FinishEffect
  <1>3. /\ slot' = [slot EXCEPT ![s] = NoSlot] /\ UNCHANGED <<last, ledger>>
        /\ \/ UNCHANGED <<legacy, kept>>
           \/ record[e].sub = Legacy /\ Retire(e)
    BY DEF Finish, Ledgered
  <1>4. /\ slot'[s] = NoSlot /\ NoSlot \in SlotType /\ NoSlot.exec = 0 /\ NoSlot.task = "idle"
        /\ ~NoSlot.started
        /\ slot' \in [Sessions -> SlotType] /\ \A u \in Sessions \ {s} : slot'[u] = slot[u]
    <2>1. NoSlot \in SlotType
      BY LimitsAssumption DEF NoSlot, SlotType
    <2>2. slot \in [Sessions -> SlotType]
      BY Types DEF RegistryInv
    <2>3. QED
      BY <1>3, <2>1, <2>2 DEF NoSlot
  <1>5. Keeps' /\ kept' \subseteq Execs /\ legacy' \in Seq(Execs) /\ Len(legacy') <= RecentLegacy
    <2>1. /\ \A x \in Execs : record'[x].sub = record[x].sub
          /\ \A x \in Execs \ {e} : record'[x].status = record[x].status
          /\ \A u \in Sessions : slot'[u].exec \in {0, slot[u].exec}
      BY <1>2, <1>4
    <2>2. CASE UNCHANGED <<legacy, kept>>
      <3>1. \A x \in Execs : record[x].status \in Ended => record'[x].status \in Ended
        BY <1>1, <1>2
      <3>2. Keeps'
        BY <1>3, <2>1, <2>2, <3>1, KeepsStill
      <3>3. QED
        BY <2>2, <3>2, Types DEF RegistryInv
    <2>3. CASE record[e].sub = Legacy /\ Retire(e)
      <3>1. e # 0 /\ \A u \in Sessions : slot'[u].exec # e
        BY <1>1, <1>4, Apart DEF Execs
      <3>2. QED
        BY <1>1, <1>2, <1>3, <2>1, <2>3, <3>1, RetireKeeps
    <2>4. QED
      BY <1>3, <2>2, <2>3
  <1>6. UNCHANGED <<close, fenced, entered, result, answers, guard>>
    BY DEF historyVars
  <1>7. TypeOK'
    BY <1>2, <1>3, <1>4, <1>5, <1>6, Types, LeftKeeps
       DEF RegistryInv, TypeOK, RecordType, SlotType, GuardType, ViewType, Observations
  <1>8. SlotOK(s)'
    BY <1>4 DEF SlotOK
  <1>9. GuardOK(s)'
    <2>1. guard[s].exec # 0 => guard[s].exec \in Execs
      BY Types DEF RegistryInv, GuardType, Execs
    <2>2. guard[s].exec # 0 => record'[guard[s].exec].session = s
      BY <1>2, <2>1 DEF RegistryInv, Guards, GuardOK
    <2>3. QED
      BY <1>4, <1>6, <2>2 DEF RegistryInv, Guards, GuardOK, Unsettled
  <1>10. \A x \in Execs : x = slot[s].exec =>
              /\ record'[x].session = s /\ record'[x].sub = record[x].sub
              /\ record'[x].text = record[x].text /\ record'[x].status # "none"
              /\ ActiveInSlot(x)' /\ HistoryOK(x)'
    <2>1. SUFFICES ASSUME NEW x \in Execs, x = e
                   PROVE  /\ record'[x].session = s /\ record'[x].sub = record[x].sub
                          /\ record'[x].text = record[x].text /\ record'[x].status # "none"
                          /\ ActiveInSlot(x)' /\ HistoryOK(x)'
      OBVIOUS
    <2>2. record'[x].status \in Ended /\ record'[x].status \notin Active /\ record'[x].status # "none"
      BY <1>2, <2>1, StatusesAre
    <2>3. ActiveInSlot(x)'
      BY <2>2 DEF ActiveInSlot
    <2>4. HistoryOK(x)'
      BY <1>2, <1>6, <2>1 DEF RegistryInv, Histories, HistoryOK
    <2>5. QED
      BY <1>2, <2>1, <2>2, <2>3, <2>4
  <1>11. Numbered' /\ Slots' /\ Guards' /\ Submitted' /\ Histories'
    BY <1>2, <1>3, <1>4, <1>6, <1>8, <1>9, <1>10, LocalStep
  <1>12. QED
    BY <1>5, <1>7, <1>11 DEF RegistryInv

\* The task of the registry fails: nothing else is touched.
LEMMA FailsKeeps ==
    ASSUME RegistryInv, NEW s \in Sessions, slot[s].task # "idle", Fails(s),
           Fault \/ left' = left, UNCHANGED <<guard, close, fenced, historyVars>>
    PROVE  RegistryInv'
  <1>1. /\ slot' = [slot EXCEPT ![s].task = "failed"]
        /\ UNCHANGED <<last, record, kept, legacy, ledger, view, guard, close, fenced,
                       answers, entered, result>>
    BY DEF Fails, historyVars
  <1>2. slot \in [Sessions -> SlotType] /\ slot[s] \in SlotType
    BY Types DEF RegistryInv
  <1>3. /\ slot' \in [Sessions -> SlotType] /\ \A u \in Sessions \ {s} : slot'[u] = slot[u]
        /\ slot'[s].exec = slot[s].exec /\ slot'[s].started = slot[s].started
        /\ slot'[s].task = "failed"
    BY <1>1, <1>2 DEF SlotType
  <1>4. SlotOK(s)'
    BY <1>1, <1>3 DEF RegistryInv, Slots, SlotOK
  <1>5. GuardOK(s)'
    BY <1>1, <1>3 DEF RegistryInv, Guards, GuardOK, Unsettled
  <1>6. /\ guard' \in [Sessions -> GuardType]
        /\ close' \in [Sessions -> {"open", "closing", "failed", "closed"}]
        /\ left' \in [faults : 0..MaxFaults, reopens : 0..MaxReopens]
    BY <1>1, Types, LeftKeeps DEF RegistryInv
  <1>7. QED
    BY <1>1, <1>3, <1>4, <1>5, <1>6, RecordsStay

-----------------------------------------------------------------------------
\* The tasks of the registry.
LEMMA DriveBeginsKeeps ==
    ASSUME RegistryInv, NEW s \in Sessions, DriveBegins(s)
    PROVE  RegistryInv'
  <1>1. /\ slot[s].task = "starting" /\ slot[s].task # "idle" /\ UNCHANGED <<close, fenced, historyVars>>
        /\ slot[s].exec # 0 /\ ~slot[s].started /\ ~Unsettled(s) /\ ~(entered[slot[s].exec] > 0)
    <2>1. slot[s].task = "starting" /\ slot[s].task # "idle" /\ UNCHANGED <<close, fenced, historyVars>>
      BY DEF DriveBegins
    <2>2. slot[s].exec \in Execs /\ slot[s].exec # 0
      BY <2>1, InSlot DEF Execs
    <2>3. ~slot[s].started
      BY <2>1 DEF RegistryInv, Slots, SlotOK
    <2>4. entered[slot[s].exec] = 0 /\ ~Unsettled(s)
      BY <2>2, <2>3 DEF RegistryInv, Slots, SlotOK, Guards, GuardOK
    <2>5. QED
      BY <2>1, <2>2, <2>3, <2>4
  <1>2. ASSUME NEW outcome \in {"interrupted", "failed"}, Finish(s, outcome),
               UNCHANGED guard, Fault \/ left' = left
        PROVE  RegistryInv'
    <2>1. outcome \in Ended /\ outcome # "succeeded"
      BY DEF Ended
    <2>2. QED
      BY <1>1, <1>2, <2>1, FinishKeeps
  <1>3. CASE /\ StartGuard(s)
             /\ slot' = [slot EXCEPT ![s].task = "waiting", ![s].started = TRUE]
             /\ UNCHANGED <<last, record, kept, legacy, ledger, view, left>>
    <2> DEFINE g == [NewGuard EXCEPT !.exec = slot[s].exec, !.status = "accepted",
                                     !.task = "beginning", !.obs = guard[s].obs]
    <2>1. slot \in [Sessions -> SlotType] /\ slot[s] \in SlotType
          /\ guard \in [Sessions -> GuardType] /\ guard[s] \in GuardType
      BY Types DEF RegistryInv
    <2>2. /\ slot' \in [Sessions -> SlotType] /\ \A u \in Sessions \ {s} : slot'[u] = slot[u]
          /\ slot'[s].exec = slot[s].exec /\ slot'[s].started /\ slot'[s].task = "waiting"
      BY <1>3, <2>1 DEF SlotType
    <2>3. /\ g \in GuardType /\ g.exec = slot[s].exec /\ g.task = "beginning"
      BY <2>1, StatusesAre DEF NewGuard, GuardType, SlotType
    <2>4. guard' = [guard EXCEPT ![s] = g]
      BY <1>3 DEF StartGuard
    <2> HIDE DEF g
    <2>5. /\ guard' \in [Sessions -> GuardType] /\ guard'[s] = g
          /\ \A u \in Sessions \ {s} : guard'[u] = guard[u]
      BY <2>1, <2>3, <2>4
    <2>6. UNCHANGED <<close, fenced, answers, entered, result>>
      BY <1>1 DEF historyVars
    <2>7. slot[s].exec \in Execs /\ record[slot[s].exec].session = s /\ entered[slot[s].exec] = 0
      BY <1>1, InSlot DEF RegistryInv, Slots, SlotOK
    <2>8. SlotOK(s)'
      BY <1>1, <1>3, <2>2, <2>6 DEF RegistryInv, Slots, SlotOK
    <2>9. GuardOK(s)'
      BY <1>1, <1>3, <2>2, <2>3, <2>5, <2>6, <2>7 DEF GuardOK, Unsettled
    <2>10. /\ close' \in [Sessions -> {"open", "closing", "failed", "closed"}]
           /\ left' \in [faults : 0..MaxFaults, reopens : 0..MaxReopens]
      BY <1>3, <2>6, Types DEF RegistryInv
    <2>11. QED
      BY <1>3, <2>2, <2>3, <2>5, <2>6, <2>8, <2>9, <2>10, RecordsStay
  <1>4. QED
    BY <1>2, <1>3 DEF DriveBegins

\* What the guard is done with is borne out by its candidate.
LEMMA DriveEndsKeeps ==
    ASSUME RegistryInv, NEW s \in Sessions, DriveEnds(s) \/ DriveCancelled(s)
    PROVE  RegistryInv'
  <1>1. CASE DriveEnds(s)
    <2>1. /\ slot[s].task = "waiting" /\ slot[s].task # "idle" /\ guard[s].task \in {"done", "debt"}
          /\ UNCHANGED <<guard, close, fenced, left, historyVars>>
      BY <1>1 DEF DriveEnds, serviceVars
    <2>2. CASE Fails(s)
      BY <2>1, <2>2, FailsKeeps
    <2>3. CASE guard[s].task = "done" /\ Finish(s, guard[s].candidate)
      <3>1. slot[s].started /\ guard[s].exec = slot[s].exec /\ ~Unsettled(s)
        BY <2>1, <2>3 DEF RegistryInv, Slots, SlotOK, Guards, GuardOK, Unsettled
      <3>2. guard[s].candidate = IF entered[slot[s].exec] > 0 THEN result[slot[s].exec] ELSE "interrupted"
        BY <2>3, <3>1 DEF RegistryInv, Guards, GuardOK
      <3>3. guard[s].candidate \in Ended
        BY <2>3 DEF RegistryInv, Guards, GuardOK
      <3>4. guard[s].candidate = "succeeded" => entered[slot[s].exec] > 0
        BY <3>2
      <3>5. QED
        BY <2>1, <2>3, <3>1, <3>2, <3>3, <3>4, FinishKeeps
    <2>4. QED
      BY <1>1, <2>2, <2>3 DEF DriveEnds
  <1>2. CASE DriveCancelled(s)
    BY <1>2, FailsKeeps DEF DriveCancelled
  <1>3. QED
    BY <1>1, <1>2

LEMMA RetryKeeps ==
    ASSUME RegistryInv, NEW s \in Sessions, RetryBegins(s)
    PROVE  RegistryInv'
  <1>1. /\ slot[s].task = "retrying" /\ slot[s].task # "idle"
        /\ UNCHANGED <<close, fenced, left, historyVars>>
    BY DEF RetryBegins, serviceVars
  <1>2. slot[s].exec \in Execs /\ slot[s].exec # 0
    BY <1>1, InSlot DEF Execs
  <1>3. CASE ~slot[s].started
    <2>1. Finish(s, "interrupted") /\ UNCHANGED guard
      BY <1>3 DEF RetryBegins
    <2>2. ~Unsettled(s) /\ entered[slot[s].exec] = 0
      BY <1>2, <1>3 DEF RegistryInv, Slots, SlotOK, Guards, GuardOK
    <2>3. "interrupted" \in Ended
      BY DEF Ended
    <2>4. QED
      BY <1>1, <2>1, <2>2, <2>3, FinishKeeps
  <1>4. CASE slot[s].started
    <2>1. /\ guard' = [guard EXCEPT ![s].task = IF guard[s].task = "debt" THEN "settling" ELSE guard[s].task]
          /\ slot' = [slot EXCEPT ![s].task = "waiting"]
          /\ UNCHANGED <<last, record, kept, legacy, ledger, view>>
      BY <1>4 DEF RetryBegins
    <2>2. slot \in [Sessions -> SlotType] /\ slot[s] \in SlotType
          /\ guard \in [Sessions -> GuardType] /\ guard[s] \in GuardType
      BY Types DEF RegistryInv
    <2>3. /\ slot' \in [Sessions -> SlotType] /\ \A u \in Sessions \ {s} : slot'[u] = slot[u]
          /\ slot'[s].exec = slot[s].exec /\ slot'[s].started = slot[s].started
          /\ slot'[s].task = "waiting"
      BY <2>1, <2>2 DEF SlotType
    <2>4. /\ guard' \in [Sessions -> GuardType] /\ \A u \in Sessions \ {s} : guard'[u] = guard[u]
          /\ guard'[s].exec = guard[s].exec /\ guard'[s].candidate = guard[s].candidate
          /\ guard'[s].task = IF guard[s].task = "debt" THEN "settling" ELSE guard[s].task
      BY <2>1, <2>2 DEF GuardType
    <2>5. UNCHANGED <<answers, entered, result>>
      BY <1>1 DEF historyVars
    <2>6. SlotOK(s)'
      BY <1>1, <1>2, <1>4, <2>1, <2>3, <2>5 DEF RegistryInv, Slots, SlotOK
    <2>7. GuardOK(s)'
      BY <1>4, <2>1, <2>3, <2>4, <2>5 DEF RegistryInv, Guards, GuardOK, Unsettled
    <2>8. /\ close' \in [Sessions -> {"open", "closing", "failed", "closed"}]
          /\ left' \in [faults : 0..MaxFaults, reopens : 0..MaxReopens]
      BY <1>1, Types DEF RegistryInv
    <2>9. QED
      BY <1>1, <2>1, <2>3, <2>4, <2>5, <2>6, <2>7, <2>8, RecordsStay
  <1>5. QED
    BY <1>3, <1>4

-----------------------------------------------------------------------------
\* The guard's task.

\* What a step of the guard leaves alone: Observed publishes "running" and nothing else.
LEMMA ObservedEffect ==
    ASSUME RegistryInv, NEW s \in Sessions, slot[s].task # "idle",
           NEW seen \in {"running"} \cup Ended, Observed(s, seen)
    PROVE  LET e == slot[s].exec IN
           /\ UNCHANGED <<last, kept, legacy, ledger>>
           /\ record' \in [Execs -> RecordType] /\ view' \in [Sessions -> ViewType]
           /\ slot' \in [Sessions -> SlotType] /\ \A u \in Sessions \ {s} : slot'[u] = slot[u]
           /\ slot'[s].exec = e /\ slot'[s].started = slot[s].started /\ slot'[s].task = slot[s].task
           /\ record'[e].status = IF seen = "running" THEN "running" ELSE record[e].status
           /\ record'[e].sub = record[e].sub /\ record'[e].text = record[e].text
           /\ record'[e].session = s
           /\ IF seen = "running"
              THEN record'[e].revision = record[e].revision + 1
                   /\ record'[e].interrupt = record[e].interrupt
              ELSE record' = record
           /\ \A x \in Execs \ {e} : record'[x] = record[x]
  <1> DEFINE e == slot[s].exec
             new == [record[e] EXCEPT !.status = "running"]
  <1>1. e \in Execs /\ record[e].session = s /\ record[e] \in RecordType
        /\ slot \in [Sessions -> SlotType] /\ slot[s] \in SlotType
    BY InSlot, Types DEF RegistryInv
  <1>2. UNCHANGED <<last, kept, legacy, ledger>> /\ slot' = [slot EXCEPT ![s].seen = seen]
    BY DEF Observed
  <1>3. /\ slot' \in [Sessions -> SlotType] /\ \A u \in Sessions \ {s} : slot'[u] = slot[u]
        /\ slot'[s].exec = e /\ slot'[s].started = slot[s].started /\ slot'[s].task = slot[s].task
    BY <1>1, <1>2 DEF SlotType
  <1>4. CASE seen = "running"
    <2>1. PublishNext(s, e, new)
      BY <1>4 DEF Observed
    <2>2. /\ new \in RecordType /\ new.status = "running" /\ new.sub = record[e].sub
          /\ new.text = record[e].text /\ new.session = record[e].session
          /\ new.revision = record[e].revision /\ new.interrupt = record[e].interrupt
      BY <1>1 DEF RecordType, Statuses, Active
    <2> HIDE DEF new
    <2>3. /\ record' \in [Execs -> RecordType] /\ view' \in [Sessions -> ViewType]
          /\ record'[e] = [new EXCEPT !.revision = @ + 1]
          /\ \A x \in Execs \ {e} : record'[x] = record[x]
      BY <1>1, <2>1, <2>2, PublishNextKeeps DEF RegistryInv
    <2>4. /\ record'[e].status = new.status /\ record'[e].sub = new.sub
          /\ record'[e].text = new.text /\ record'[e].session = new.session
          /\ record'[e].revision = new.revision + 1 /\ record'[e].interrupt = new.interrupt
      BY <2>2, <2>3 DEF RecordType
    <2>5. QED
      BY <1>1, <1>2, <1>3, <1>4, <2>2, <2>3, <2>4
  <1>5. CASE seen # "running"
    BY <1>1, <1>2, <1>3, <1>5, Types DEF Observed, RegistryInv
  <1>6. QED
    BY <1>4, <1>5

\* A step of the guard's task that takes its execution from its slot.
LEMMA GuardStep ==
    ASSUME RegistryInv, NEW s \in Sessions, Unsettled(s),
           NEW g \in GuardType, guard' = [guard EXCEPT ![s] = g], g.exec = guard[s].exec,
           UNCHANGED <<last, kept, legacy, ledger, close, fenced, answers>>, Fault \/ left' = left,
           record' \in [Execs -> RecordType], view' \in [Sessions -> ViewType],
           slot' \in [Sessions -> SlotType], \A u \in Sessions \ {s} : slot'[u] = slot[u],
           slot'[s].exec = slot[s].exec, slot'[s].started = slot[s].started,
           slot'[s].task = slot[s].task,
           entered' \in [Execs -> Nat], result' \in [Execs -> {"none"} \cup Ended],
           \A x \in Execs : x = guard[s].exec
              \/ (record'[x] = record[x] /\ entered'[x] = entered[x] /\ result'[x] = result[x]),
           \A x \in Execs : x = guard[s].exec =>
              /\ record'[x].status = IF entered'[x] > 0 THEN "running" ELSE "accepted"
              /\ record'[x].sub = record[x].sub /\ record'[x].text = record[x].text
              /\ record'[x].session = s /\ entered'[x] <= 1
              /\ g.task # "idle"
              /\ g.task = "beginning" => entered'[x] = 0
              /\ g.task \in {"running", "settling", "debt"} => entered'[x] > 0
              /\ g.task \in {"settling", "debt", "done"} =>
                    g.candidate \in Ended
                    /\ g.candidate = IF entered'[x] > 0 THEN result'[x] ELSE "interrupted"
    PROVE  RegistryInv'
  <1> DEFINE e == guard[s].exec
  <1>1. slot[s].started /\ e = slot[s].exec
    BY DEF RegistryInv, Guards, GuardOK
  <1>2. slot[s].exec # 0 /\ slot[s].task # "idle"
    BY <1>1 DEF RegistryInv, Slots, SlotOK
  <1>3. e \in Execs /\ record[e].status \in Active
    BY <1>1, <1>2, InSlot
  <1>4. guard \in [Sessions -> GuardType]
    BY Types DEF RegistryInv
  <1>5. guard' \in [Sessions -> GuardType] /\ guard'[s] = g /\ \A u \in Sessions \ {s} : guard'[u] = guard[u]
    BY <1>4
  <1>6. TypeOK'
    BY <1>5, Types, LeftKeeps DEF RegistryInv, TypeOK, RecordType, SlotType, GuardType, ViewType, Observations
  <1>7. SlotOK(s)'
    BY <1>1, <1>2, <1>3 DEF RegistryInv, Slots, SlotOK
  <1>8. GuardOK(s)'
    BY <1>1, <1>2, <1>3, <1>5 DEF GuardOK, Unsettled, Execs
  <1>9. \A x \in Execs : x = slot[s].exec =>
              /\ record'[x].session = s /\ record'[x].sub = record[x].sub
              /\ record'[x].text = record[x].text /\ record'[x].status # "none"
              /\ ActiveInSlot(x)' /\ HistoryOK(x)'
    <2>1. SUFFICES ASSUME NEW x \in Execs, x = e
                   PROVE  /\ record'[x].session = s /\ record'[x].status # "none"
                          /\ ActiveInSlot(x)' /\ HistoryOK(x)'
      BY <1>1
    <2>2. record'[x].status \in Active /\ record'[x].status \notin Ended /\ record'[x].status # "none"
      BY <2>1, StatusesAre
    <2>3. ActiveInSlot(x)' /\ HistoryOK(x)'
      BY <1>1, <2>1, <2>2 DEF ActiveInSlot, HistoryOK
    <2>4. QED
      BY <2>1, <2>2, <2>3
  <1>10. Numbered' /\ Slots' /\ Guards' /\ Submitted' /\ Histories'
    BY <1>1, <1>5, <1>7, <1>8, <1>9, LocalStep
  <1>11. \A x \in Execs : /\ record'[x].sub = record[x].sub
                          /\ record[x].status \in Ended => record'[x].status \in Ended
    BY <1>3, StatusesAre
  <1>12. Keeps'
    BY <1>11, KeepsStill
  <1>13. QED
    BY <1>6, <1>10, <1>12 DEF RegistryInv

\* What the guard is at, when the Product owns something of the execution.
LEMMA AtWork ==
    ASSUME RegistryInv, NEW s \in Sessions, Unsettled(s)
    PROVE  /\ slot[s].started /\ guard[s].exec = slot[s].exec /\ slot[s].task # "idle"
           /\ guard[s].exec \in Execs /\ guard[s] \in GuardType
           /\ guard[s].exec \in DOMAIN entered
           /\ record[guard[s].exec].session = s
           /\ record[guard[s].exec].status = IF entered[guard[s].exec] > 0 THEN "running" ELSE "accepted"
           /\ entered[guard[s].exec] \in Nat /\ entered[guard[s].exec] <= 1
           /\ guard[s].task = "beginning" => entered[guard[s].exec] = 0
           /\ guard[s].task \in {"running", "settling", "debt"} => entered[guard[s].exec] > 0
  <1>1. slot[s].started /\ guard[s].exec = slot[s].exec /\ slot[s].exec # 0 /\ slot[s].task # "idle"
    BY DEF RegistryInv, Guards, GuardOK, Slots, SlotOK
  <1>2. guard[s].exec \in Execs
    BY <1>1, InSlot
  <1>3. guard[s] \in GuardType /\ entered \in [Execs -> Nat]
    BY Types DEF RegistryInv
  <1>4. QED
    BY <1>1, <1>2, <1>3 DEF RegistryInv, Guards, GuardOK, Slots, SlotOK, Histories, HistoryOK

\* What a step makes of the guard keeps its type and its execution.
Changed(r, g, task, candidate) ==
    g \in GuardType /\ g.exec = r.exec /\ g.task = task /\ g.candidate = candidate

LEMMA GuardSkips ==
    ASSUME NEW r \in GuardType, NEW o \in Ended
    PROVE  Changed(r, [r EXCEPT !.status = o, !.task = "done", !.candidate = o], "done", o)
  BY StatusesAre DEF GuardType, Changed

LEMMA GuardEnters ==
    ASSUME NEW r \in GuardType, NEW o \in Observations
    PROVE  Changed(r, [r EXCEPT !.status = "running", !.task = "running", !.obs = o], "running", r.candidate)
  BY StatusesAre DEF GuardType, Changed

LEMMA GuardReturns ==
    ASSUME NEW r \in GuardType, NEW o \in Ended
    PROVE  Changed(r, [r EXCEPT !.task = "settling", !.candidate = o], "settling", o)
  BY DEF GuardType, Changed

LEMMA GuardOwes ==
    ASSUME NEW r \in GuardType, NEW task \in {"settling", "debt"}
    PROVE  Changed(r, [r EXCEPT !.task = task], task, r.candidate)
  BY DEF GuardType, Changed

LEMMA GuardCommits ==
    ASSUME NEW r \in GuardType, NEW o \in Observations, NEW c \in Ended
    PROVE  Changed(r, [r EXCEPT !.status = c, !.task = "done", !.obs = o], "done", r.candidate)
  BY StatusesAre DEF GuardType, Changed

LEMMA GuardTold ==
    ASSUME NEW r \in GuardType, NEW b \in BOOLEAN
    PROVE  Changed(r, [r EXCEPT !.asked = TRUE, !.cancelled = b], r.task, r.candidate)
  BY DEF GuardType, Changed

LEMMA GuardBeginsKeeps ==
    ASSUME RegistryInv, NEW s \in Sessions, GuardBegins(s)
    PROVE  RegistryInv'
  <1> DEFINE e == guard[s].exec
  <1>1. guard[s].task = "beginning" /\ Unsettled(s) /\ UNCHANGED <<close, fenced, left>>
    BY DEF GuardBegins, Unsettled, serviceVars
  <1>2. /\ slot[s].started /\ e = slot[s].exec /\ slot[s].task # "idle" /\ e \in Execs
        /\ guard[s] \in GuardType /\ record[e].session = s /\ entered[e] = 0
        /\ record[e].status = "accepted"
    BY <1>1, AtWork
  <1>3. /\ record \in [Execs -> RecordType] /\ view \in [Sessions -> ViewType]
        /\ slot \in [Sessions -> SlotType] /\ entered \in [Execs -> Nat]
        /\ result \in [Execs -> {"none"} \cup Ended]
    BY Types DEF RegistryInv
  <1>4. CASE guard[s].asked
    <2> DEFINE g == [guard[s] EXCEPT !.status = "interrupted", !.task = "done",
                                     !.candidate = "interrupted"]
    <2>1. "interrupted" \in Ended
      BY DEF Ended
    <2>2. Changed(guard[s], g, "done", "interrupted")
      BY <1>2, <2>1, GuardSkips
    <2>3. /\ guard' = [guard EXCEPT ![s] = g]
          /\ UNCHANGED <<last, record, kept, legacy, ledger, slot, view, entered, result, answers>>
      BY <1>4 DEF GuardBegins, registryVars, historyVars
    <2> HIDE DEF g
    <2>4. g \in GuardType /\ g.exec = guard[s].exec /\ g.task = "done" /\ g.candidate = "interrupted"
      BY <2>2 DEF Changed
    <2>5. /\ record' \in [Execs -> RecordType] /\ view' \in [Sessions -> ViewType]
          /\ slot' \in [Sessions -> SlotType] /\ entered' \in [Execs -> Nat]
          /\ result' \in [Execs -> {"none"} \cup Ended]
      BY <1>3, <2>3
    <2>6. \A x \in Execs : \/ x = guard[s].exec
                           \/ record'[x] = record[x] /\ entered'[x] = entered[x] /\ result'[x] = result[x]
      BY <2>3
    <2>7. \A x \in Execs : x = guard[s].exec =>
              /\ record'[x].status = IF entered'[x] > 0 THEN "running" ELSE "accepted"
              /\ record'[x].sub = record[x].sub /\ record'[x].text = record[x].text
              /\ record'[x].session = s /\ entered'[x] <= 1
              /\ g.task # "idle"
              /\ g.task = "beginning" => entered'[x] = 0
              /\ g.task \in {"running", "settling", "debt"} => entered'[x] > 0
              /\ g.task \in {"settling", "debt", "done"} =>
                    g.candidate \in Ended
                    /\ g.candidate = IF entered'[x] > 0 THEN result'[x] ELSE "interrupted"
      BY <1>2, <2>1, <2>3, <2>4
    <2>8. slot'[s].exec = slot[s].exec /\ slot'[s].started = slot[s].started
          /\ slot'[s].task = slot[s].task /\ \A u \in Sessions \ {s} : slot'[u] = slot[u]
      BY <2>3
    <2>9. QED
      BY <1>1, <2>3, <2>4, <2>5, <2>6, <2>7, <2>8, GuardStep
  <1>5. CASE ~guard[s].asked
    <2> DEFINE o == [exec |-> e, status |-> "running"]
               g == [guard[s] EXCEPT !.status = "running", !.task = "running", !.obs = o]
    <2>1. o \in Observations
      BY <1>2, StatusesAre DEF Observations, Execs
    <2>2. Changed(guard[s], g, "running", guard[s].candidate)
      BY <1>2, <2>1, GuardEnters
    <2>3. /\ guard' = [guard EXCEPT ![s] = g] /\ Observed(s, "running")
          /\ entered' = [entered EXCEPT ![e] = @ + 1] /\ UNCHANGED <<result, answers>>
      BY <1>5 DEF GuardBegins
    <2> HIDE DEF o, g
    <2>4. g \in GuardType /\ g.exec = guard[s].exec /\ g.task = "running"
      BY <2>2 DEF Changed
    <2>5. /\ entered' \in [Execs -> Nat] /\ entered'[e] = 1
          /\ \A x \in Execs \ {e} : entered'[x] = entered[x]
      BY <1>2, <1>3, <2>3
    <2>6. /\ UNCHANGED <<last, kept, legacy, ledger>>
          /\ record' \in [Execs -> RecordType] /\ view' \in [Sessions -> ViewType]
          /\ slot' \in [Sessions -> SlotType] /\ \A u \in Sessions \ {s} : slot'[u] = slot[u]
          /\ slot'[s].exec = e /\ slot'[s].started = slot[s].started /\ slot'[s].task = slot[s].task
          /\ record'[e].status = "running"
          /\ record'[e].sub = record[e].sub /\ record'[e].text = record[e].text
          /\ record'[e].session = s
          /\ \A x \in Execs \ {e} : record'[x] = record[x]
      <3>1. "running" \in {"running"} \cup Ended
        OBVIOUS
      <3> HIDE DEF e
      <3>2. /\ UNCHANGED <<last, kept, legacy, ledger>>
            /\ record' \in [Execs -> RecordType] /\ view' \in [Sessions -> ViewType]
            /\ slot' \in [Sessions -> SlotType] /\ \A u \in Sessions \ {s} : slot'[u] = slot[u]
            /\ slot'[s].exec = slot[s].exec /\ slot'[s].started = slot[s].started
            /\ slot'[s].task = slot[s].task
            /\ record'[slot[s].exec].status = IF "running" = "running" THEN "running" ELSE record[slot[s].exec].status
            /\ record'[slot[s].exec].sub = record[slot[s].exec].sub
            /\ record'[slot[s].exec].text = record[slot[s].exec].text
            /\ record'[slot[s].exec].session = s
            /\ \A x \in Execs \ {slot[s].exec} : record'[x] = record[x]
        BY <1>2, <2>3, <3>1, ObservedEffect
      <3>3. QED
        BY <1>2, <3>2
    <2>7. result' \in [Execs -> {"none"} \cup Ended] /\ \A x \in Execs : result'[x] = result[x]
      BY <1>3, <2>3
    <2>8. \A x \in Execs : \/ x = guard[s].exec
                           \/ record'[x] = record[x] /\ entered'[x] = entered[x] /\ result'[x] = result[x]
      BY <2>5, <2>6, <2>7
    <2>9. \A x \in Execs : x = guard[s].exec =>
              /\ record'[x].status = IF entered'[x] > 0 THEN "running" ELSE "accepted"
              /\ record'[x].sub = record[x].sub /\ record'[x].text = record[x].text
              /\ record'[x].session = s /\ entered'[x] <= 1
              /\ g.task # "idle"
              /\ g.task = "beginning" => entered'[x] = 0
              /\ g.task \in {"running", "settling", "debt"} => entered'[x] > 0
              /\ g.task \in {"settling", "debt", "done"} =>
                    g.candidate \in Ended
                    /\ g.candidate = IF entered'[x] > 0 THEN result'[x] ELSE "interrupted"
      BY <2>4, <2>5, <2>6
    <2>10. slot'[s].exec = slot[s].exec
      BY <1>2, <2>6
    <2>11. QED
      BY <1>1, <2>3, <2>4, <2>5, <2>6, <2>7, <2>8, <2>9, <2>10, GuardStep
  <1>6. QED
    BY <1>4, <1>5

LEMMA WorkEndsKeeps ==
    ASSUME RegistryInv, NEW s \in Sessions, NEW outcome \in Ended, WorkEnds(s, outcome)
    PROVE  RegistryInv'
  <1> DEFINE e == guard[s].exec
             g == [guard[s] EXCEPT !.task = "settling", !.candidate = outcome]
  <1>1. /\ guard[s].task = "running" /\ Unsettled(s)
        /\ guard' = [guard EXCEPT ![s] = g] /\ result' = [result EXCEPT ![e] = outcome]
        /\ UNCHANGED <<last, record, kept, legacy, ledger, slot, view, close, fenced, left,
                       entered, answers>>
    BY DEF WorkEnds, Unsettled, registryVars, serviceVars
  <1>2. /\ e \in Execs /\ guard[s] \in GuardType /\ record[e].session = s
        /\ entered[e] > 0 /\ entered[e] <= 1 /\ record[e].status = "running"
    BY <1>1, AtWork
  <1>3. /\ record' \in [Execs -> RecordType] /\ view' \in [Sessions -> ViewType]
        /\ slot' \in [Sessions -> SlotType] /\ entered' \in [Execs -> Nat]
        /\ result \in [Execs -> {"none"} \cup Ended]
    BY <1>1, Types DEF RegistryInv
  <1>4. Changed(guard[s], g, "settling", outcome)
    BY <1>2, GuardReturns
  <1> HIDE DEF g
  <1>5. g \in GuardType /\ g.exec = guard[s].exec /\ g.task = "settling" /\ g.candidate = outcome
    BY <1>4 DEF Changed
  <1>6. /\ result' \in [Execs -> {"none"} \cup Ended] /\ result'[e] = outcome
        /\ \A x \in Execs \ {e} : result'[x] = result[x]
    BY <1>1, <1>2, <1>3
  <1>7. \A x \in Execs : \/ x = guard[s].exec
                         \/ record'[x] = record[x] /\ entered'[x] = entered[x] /\ result'[x] = result[x]
    BY <1>1, <1>6
  <1>8. \A x \in Execs : x = guard[s].exec =>
            /\ record'[x].status = IF entered'[x] > 0 THEN "running" ELSE "accepted"
            /\ record'[x].sub = record[x].sub /\ record'[x].text = record[x].text
            /\ record'[x].session = s /\ entered'[x] <= 1
            /\ g.task # "idle"
            /\ g.task = "beginning" => entered'[x] = 0
            /\ g.task \in {"running", "settling", "debt"} => entered'[x] > 0
            /\ g.task \in {"settling", "debt", "done"} =>
                  g.candidate \in Ended
                  /\ g.candidate = IF entered'[x] > 0 THEN result'[x] ELSE "interrupted"
    BY <1>1, <1>2, <1>5, <1>6
  <1>9. slot'[s].exec = slot[s].exec /\ slot'[s].started = slot[s].started
        /\ slot'[s].task = slot[s].task /\ \A u \in Sessions \ {s} : slot'[u] = slot[u]
    BY <1>1
  <1>10. QED
    BY <1>1, <1>3, <1>5, <1>6, <1>7, <1>8, <1>9, GuardStep

LEMMA SettledKeeps ==
    ASSUME RegistryInv, NEW s \in Sessions, Settled(s) \/ SettleFails(s)
    PROVE  RegistryInv'
  <1> DEFINE e == guard[s].exec
             c == guard[s].candidate
  <1>1. /\ guard[s].task = "settling" /\ Unsettled(s)
        /\ UNCHANGED <<close, fenced, entered, result, answers>>
    BY DEF Settled, SettleFails, Unsettled, serviceVars, historyVars
  <1>2. /\ e \in Execs /\ guard[s] \in GuardType /\ record[e].session = s
        /\ entered[e] > 0 /\ entered[e] <= 1 /\ record[e].status = "running"
        /\ e = slot[s].exec /\ slot[s].task # "idle"
    BY <1>1, AtWork
  <1>3. c \in Ended /\ c = result[e] /\ c # "running"
    BY <1>1, <1>2 DEF RegistryInv, Guards, GuardOK, Ended
  <1>4. /\ entered' \in [Execs -> Nat] /\ result' \in [Execs -> {"none"} \cup Ended]
        /\ \A x \in Execs : entered'[x] = entered[x] /\ result'[x] = result[x]
    BY <1>1, Types DEF RegistryInv
  <1>5. CASE SettleFails(s)
    <2> DEFINE g == [guard[s] EXCEPT !.task = "debt"]
    <2>1. /\ guard' = [guard EXCEPT ![s] = g] /\ Fault
          /\ UNCHANGED <<last, record, kept, legacy, ledger, slot, view>>
      BY <1>5 DEF SettleFails, registryVars
    <2>2. Changed(guard[s], g, "debt", c)
      BY <1>2, GuardOwes
    <2> HIDE DEF g
    <2>3. g \in GuardType /\ g.exec = guard[s].exec /\ g.task = "debt" /\ g.candidate = c
      BY <2>2 DEF Changed
    <2> HIDE DEF c
    <2>4. /\ record' \in [Execs -> RecordType] /\ view' \in [Sessions -> ViewType]
          /\ slot' \in [Sessions -> SlotType]
      BY <2>1, Types DEF RegistryInv
    <2>5. \A x \in Execs : \/ x = guard[s].exec
                           \/ record'[x] = record[x] /\ entered'[x] = entered[x] /\ result'[x] = result[x]
      BY <1>4, <2>1
    <2>6. \A x \in Execs : x = guard[s].exec =>
              /\ record'[x].status = IF entered'[x] > 0 THEN "running" ELSE "accepted"
              /\ record'[x].sub = record[x].sub /\ record'[x].text = record[x].text
              /\ record'[x].session = s /\ entered'[x] <= 1
              /\ g.task # "idle"
              /\ g.task = "beginning" => entered'[x] = 0
              /\ g.task \in {"running", "settling", "debt"} => entered'[x] > 0
              /\ g.task \in {"settling", "debt", "done"} =>
                    g.candidate \in Ended
                    /\ g.candidate = IF entered'[x] > 0 THEN result'[x] ELSE "interrupted"
      BY <1>2, <1>3, <1>4, <2>1, <2>3
    <2>7. slot'[s].exec = slot[s].exec /\ slot'[s].started = slot[s].started
          /\ slot'[s].task = slot[s].task /\ \A u \in Sessions \ {s} : slot'[u] = slot[u]
      BY <2>1
    <2>8. QED
      BY <1>1, <1>4, <2>1, <2>3, <2>4, <2>5, <2>6, <2>7, GuardStep
  <1>6. CASE Settled(s)
    <2> DEFINE o == [exec |-> e, status |-> c]
               g == [guard[s] EXCEPT !.status = c, !.task = "done", !.obs = o]
    <2>1. guard' = [guard EXCEPT ![s] = g] /\ Observed(s, c) /\ UNCHANGED left
      BY <1>6 DEF Settled, serviceVars
    <2>2. o \in Observations
      BY <1>2, <1>3, StatusesAre DEF Observations, Execs
    <2>3. Changed(guard[s], g, "done", c)
      BY <1>2, <1>3, <2>2, GuardCommits
    <2> HIDE DEF o, g
    <2>4. g \in GuardType /\ g.exec = guard[s].exec /\ g.task = "done" /\ g.candidate = c
      BY <2>3 DEF Changed
    <2> HIDE DEF c
    <2>5. c \in {"running"} \cup Ended
      BY <1>3
    <2>6. /\ UNCHANGED <<last, kept, legacy, ledger>>
          /\ record' \in [Execs -> RecordType] /\ view' \in [Sessions -> ViewType]
          /\ slot' \in [Sessions -> SlotType] /\ \A u \in Sessions \ {s} : slot'[u] = slot[u]
          /\ slot'[s].exec = e /\ slot'[s].started = slot[s].started /\ slot'[s].task = slot[s].task
          /\ record'[e].status = record[e].status
          /\ record'[e].sub = record[e].sub /\ record'[e].text = record[e].text
          /\ record'[e].session = s
          /\ \A x \in Execs \ {e} : record'[x] = record[x]
      BY <1>2, <1>3, <2>1, <2>5, ObservedEffect
    <2>7. \A x \in Execs : \/ x = guard[s].exec
                           \/ record'[x] = record[x] /\ entered'[x] = entered[x] /\ result'[x] = result[x]
      BY <1>4, <2>6
    <2>8. \A x \in Execs : x = guard[s].exec =>
              /\ record'[x].status = IF entered'[x] > 0 THEN "running" ELSE "accepted"
              /\ record'[x].sub = record[x].sub /\ record'[x].text = record[x].text
              /\ record'[x].session = s /\ entered'[x] <= 1
              /\ g.task # "idle"
              /\ g.task = "beginning" => entered'[x] = 0
              /\ g.task \in {"running", "settling", "debt"} => entered'[x] > 0
              /\ g.task \in {"settling", "debt", "done"} =>
                    g.candidate \in Ended
                    /\ g.candidate = IF entered'[x] > 0 THEN result'[x] ELSE "interrupted"
      BY <1>2, <1>3, <1>4, <2>4, <2>6
    <2>9. slot'[s].exec = slot[s].exec
      BY <1>2, <2>6
    <2>10. QED
      BY <1>1, <1>4, <2>1, <2>4, <2>6, <2>7, <2>8, <2>9, GuardStep
  <1>7. QED
    BY <1>5, <1>6

-----------------------------------------------------------------------------
\* Interrupts, retries and the end of a binding.

\* A guard that is told of an interrupt goes on with what it is at.
LEMMA AskedEffect ==
    ASSUME RegistryInv, NEW s \in Sessions, GuardAsked(s)
    PROVE  /\ guard' \in [Sessions -> GuardType]
           /\ \A u \in Sessions \ {s} : guard'[u] = guard[u]
           /\ guard'[s].exec = guard[s].exec /\ guard'[s].task = guard[s].task
           /\ guard'[s].candidate = guard[s].candidate
  <1>1. guard \in [Sessions -> GuardType] /\ guard[s] \in GuardType
    BY Types DEF RegistryInv
  <1>2. CASE UNCHANGED guard
    BY <1>1, <1>2
  <1>3. CASE guard' = [guard EXCEPT ![s].asked = TRUE, ![s].cancelled = guard[s].task = "running"]
    <2> DEFINE b == guard[s].task = "running"
               g == [guard[s] EXCEPT !.asked = TRUE, !.cancelled = b]
    <2>1. Changed(guard[s], g, guard[s].task, guard[s].candidate)
      BY <1>1, GuardTold
    <2>2. guard' = [guard EXCEPT ![s] = g]
      BY <1>1, <1>3 DEF GuardType
    <2> HIDE DEF g
    <2>3. QED
      BY <1>1, <2>1, <2>2 DEF Changed
  <1>4. QED
    BY <1>2, <1>3 DEF GuardAsked

\* An interrupt, alone or on behalf of an owner that closes and tries again.
LEMMA RequestKeeps ==
    ASSUME RegistryInv, NEW s \in Sessions, slot[s].exec # 0, RequestInterrupt(s),
           UNCHANGED <<last, kept, legacy, ledger, fenced, left, historyVars>>,
           slot' \in [Sessions -> SlotType], \A u \in Sessions \ {s} : slot'[u] = slot[u],
           slot'[s].exec = slot[s].exec, slot'[s].started = slot[s].started,
           slot'[s].task \in {slot[s].task, "retrying"},
           close' \in [Sessions -> {"open", "closing", "failed", "closed"}],
           \A u \in Sessions \ {s} : close'[u] = close[u], close'[s] # "closed"
    PROVE  RegistryInv'
  <1> DEFINE e == slot[s].exec
             new == [record[e] EXCEPT !.interrupt = TRUE]
  <1>1. slot[s].task # "idle" /\ UNCHANGED <<entered, result, answers>>
    BY DEF RegistryInv, Slots, SlotOK, historyVars
  <1>2. e \in Execs /\ record[e].session = s /\ record[e].status \in Active /\ record[e] \in RecordType
    BY <1>1, InSlot, Types DEF RegistryInv
  <1>3. /\ guard' \in [Sessions -> GuardType] /\ \A u \in Sessions \ {s} : guard'[u] = guard[u]
        /\ guard'[s].exec = guard[s].exec /\ guard'[s].task = guard[s].task
        /\ guard'[s].candidate = guard[s].candidate
    <2>1. CASE GuardAsked(s)
      BY <2>1, AskedEffect
    <2>2. CASE UNCHANGED guard
      BY <2>2, Types DEF RegistryInv
    <2>3. QED
      BY <2>1, <2>2 DEF RequestInterrupt
  <1>4. /\ record' \in [Execs -> RecordType] /\ view' \in [Sessions -> ViewType]
        /\ record'[e].status = record[e].status /\ record'[e].sub = record[e].sub
        /\ record'[e].text = record[e].text /\ record'[e].session = record[e].session
        /\ \A x \in Execs \ {e} : record'[x] = record[x]
    <2>1. CASE UNCHANGED <<record, view>>
      BY <2>1, Types DEF RegistryInv
    <2>2. CASE PublishNext(s, e, new)
      <3>1. /\ new \in RecordType /\ new.status = record[e].status /\ new.sub = record[e].sub
            /\ new.text = record[e].text /\ new.session = record[e].session
        BY <1>2 DEF RecordType
      <3> HIDE DEF new
      <3>2. /\ record' \in [Execs -> RecordType] /\ view' \in [Sessions -> ViewType]
            /\ record'[e] = [new EXCEPT !.revision = @ + 1]
            /\ \A x \in Execs \ {e} : record'[x] = record[x]
        BY <1>2, <2>2, <3>1, PublishNextKeeps DEF RegistryInv
      <3>3. /\ record'[e].status = new.status /\ record'[e].sub = new.sub
            /\ record'[e].text = new.text /\ record'[e].session = new.session
        BY <3>1, <3>2 DEF RecordType
      <3>4. QED
        BY <3>1, <3>2, <3>3
    <2>3. QED
      BY <2>1, <2>2 DEF RequestInterrupt
  <1>5. TypeOK'
    <2>1. UNCHANGED <<entered, result, answers, last, kept, legacy, ledger, fenced, left>>
      BY <1>1
    <2>2. QED
      BY <1>3, <1>4, <2>1, Types
         DEF RegistryInv, TypeOK, RecordType, SlotType, GuardType, ViewType, Observations
  <1>6. SlotOK(s)'
    BY <1>1, <1>2, <1>4 DEF RegistryInv, Slots, SlotOK
  <1>7. GuardOK(s)'
    <2>1. guard[s].exec # 0 => guard[s].exec \in Execs
      BY Types DEF RegistryInv, GuardType, Execs
    <2>2. guard[s].exec # 0 => record'[guard[s].exec].session = s
      BY <1>2, <1>4, <2>1 DEF RegistryInv, Guards, GuardOK
    <2>3. QED
      BY <1>1, <1>3, <2>2 DEF RegistryInv, Guards, GuardOK, Unsettled
  <1>8. \A x \in Execs : x = slot[s].exec =>
              /\ record'[x].session = s /\ record'[x].sub = record[x].sub
              /\ record'[x].text = record[x].text /\ record'[x].status # "none"
              /\ ActiveInSlot(x)' /\ HistoryOK(x)'
    <2>1. SUFFICES ASSUME NEW x \in Execs, x = e
                   PROVE  /\ record'[x].session = s /\ record'[x].sub = record[x].sub
                          /\ record'[x].text = record[x].text /\ record'[x].status # "none"
                          /\ ActiveInSlot(x)' /\ HistoryOK(x)'
      OBVIOUS
    <2>2. record'[x].status \in Active /\ record'[x].status \notin Ended /\ record'[x].status # "none"
      BY <1>2, <1>4, <2>1, StatusesAre
    <2>3. ActiveInSlot(x)' /\ HistoryOK(x)'
      BY <1>1, <1>2, <1>4, <2>1, <2>2 DEF ActiveInSlot, RegistryInv, Histories, HistoryOK
    <2>4. QED
      BY <1>2, <1>4, <2>1, <2>2, <2>3
  <1>9. Numbered' /\ Slots' /\ Guards' /\ Submitted' /\ Histories'
    BY <1>1, <1>3, <1>4, <1>6, <1>7, <1>8, LocalStep
  <1>10. \A x \in Execs : /\ record'[x].sub = record[x].sub
                          /\ record[x].status \in Ended => record'[x].status \in Ended
    BY <1>4
  <1>11. Keeps'
    BY <1>10, KeepsStill
  <1>12. QED
    BY <1>5, <1>9, <1>11 DEF RegistryInv

\* A slot that is rejoined stays with its execution.
LEMMA RejoinedEffect ==
    ASSUME RegistryInv, NEW s \in Sessions, Rejoined(s)
    PROVE  /\ slot' \in [Sessions -> SlotType] /\ \A u \in Sessions \ {s} : slot'[u] = slot[u]
           /\ slot'[s].exec = slot[s].exec /\ slot'[s].started = slot[s].started
           /\ slot'[s].task \in {slot[s].task, "retrying"}
           /\ slot[s].task = "failed" => slot'[s].task = "retrying"
  <1>1. slot \in [Sessions -> SlotType] /\ slot[s] \in SlotType
    BY Types DEF RegistryInv
  <1>2. CASE slot' = slot /\ slot[s].task # "failed"
    BY <1>1, <1>2
  <1>3. CASE slot' = [slot EXCEPT ![s].task = "retrying"]
    BY <1>1, <1>3 DEF SlotType
  <1>4. QED
    BY <1>2, <1>3 DEF Rejoined

LEMMA InterruptKeeps ==
    ASSUME RegistryInv, NEW s \in Sessions, Interrupt(s)
    PROVE  RegistryInv'
  <1>1. /\ slot[s].exec # 0 /\ RequestInterrupt(s)
        /\ UNCHANGED <<last, kept, legacy, ledger, slot, close, fenced, left, historyVars>>
    BY DEF Interrupt, serviceVars
  <1>2. /\ slot' \in [Sessions -> SlotType]
        /\ close' \in [Sessions -> {"open", "closing", "failed", "closed"}]
    BY <1>1, Types DEF RegistryInv
  <1>3. close'[s] # "closed"
    BY <1>1 DEF RegistryInv, Slots, SlotOK
  <1>4. QED
    BY <1>1, <1>2, <1>3, RequestKeeps

LEMMA RetrySettlementKeeps ==
    ASSUME RegistryInv, NEW s \in Sessions, RetrySettlement(s)
    PROVE  RegistryInv'
  <1>1. /\ slot[s].task = "failed" /\ Rejoined(s)
        /\ UNCHANGED <<last, record, kept, legacy, ledger, view, guard, close, fenced, left,
                       entered, result, answers>>
    BY DEF RetrySettlement, serviceVars, historyVars
  <1>2. /\ slot' \in [Sessions -> SlotType] /\ \A u \in Sessions \ {s} : slot'[u] = slot[u]
        /\ slot'[s].exec = slot[s].exec /\ slot'[s].started = slot[s].started
        /\ slot'[s].task = "retrying"
    BY <1>1, RejoinedEffect
  <1>3. SlotOK(s)'
    BY <1>1, <1>2 DEF RegistryInv, Slots, SlotOK
  <1>4. GuardOK(s)'
    BY <1>1, <1>2 DEF RegistryInv, Guards, GuardOK, Unsettled
  <1>5. /\ guard' \in [Sessions -> GuardType]
        /\ close' \in [Sessions -> {"open", "closing", "failed", "closed"}]
        /\ left' \in [faults : 0..MaxFaults, reopens : 0..MaxReopens]
    BY <1>1, Types DEF RegistryInv
  <1>6. QED
    BY <1>1, <1>2, <1>3, <1>4, <1>5, RecordsStay

LEMMA CloseBindingKeeps ==
    ASSUME RegistryInv, NEW s \in Sessions, CloseBinding(s)
    PROVE  RegistryInv'
  <1>1. /\ close' = [close EXCEPT ![s] = "closing"]
        /\ UNCHANGED <<last, kept, legacy, ledger, fenced, left, historyVars>>
    BY DEF CloseBinding
  <1>2. /\ close' \in [Sessions -> {"open", "closing", "failed", "closed"}]
        /\ close'[s] # "closed" /\ \A u \in Sessions \ {s} : close'[u] = close[u]
    BY <1>1, Types DEF RegistryInv
  <1>3. CASE slot[s].exec # 0
    <2>1. RequestInterrupt(s) /\ Rejoined(s)
      BY <1>3 DEF CloseBinding
    <2>2. QED
      BY <1>1, <1>2, <1>3, <2>1, RejoinedEffect, RequestKeeps
  <1>4. CASE slot[s].exec = 0
    <2>1. UNCHANGED <<last, record, kept, legacy, ledger, view, guard, slot, fenced, left,
                      entered, result, answers>>
      BY <1>1, <1>4 DEF CloseBinding, historyVars
    <2>2. SlotOK(s)'
      BY <1>2, <2>1 DEF RegistryInv, Slots, SlotOK
    <2>3. GuardOK(s)'
      BY <2>1 DEF RegistryInv, Guards, GuardOK, Unsettled
    <2>4. /\ guard' \in [Sessions -> GuardType] /\ slot' \in [Sessions -> SlotType]
          /\ left' \in [faults : 0..MaxFaults, reopens : 0..MaxReopens]
      BY <2>1, Types DEF RegistryInv
    <2>5. QED
      BY <1>2, <2>1, <2>2, <2>3, <2>4, RecordsStay
  <1>5. QED
    BY <1>3, <1>4

LEMMA CloseEndsKeeps ==
    ASSUME RegistryInv, NEW s \in Sessions, CloseEnds(s)
    PROVE  RegistryInv'
  <1>1. /\ UNCHANGED <<last, record, kept, legacy, ledger, slot, view, guard, fenced, left,
                       entered, result, answers>>
        /\ \/ slot[s].exec = 0 /\ close' = [close EXCEPT ![s] = "closed"]
           \/ close' = [close EXCEPT ![s] = "failed"]
    BY DEF CloseEnds, registryVars, historyVars
  <1>2. /\ close' \in [Sessions -> {"open", "closing", "failed", "closed"}]
        /\ close'[s] = "closed" => slot[s].exec = 0
        /\ \A u \in Sessions \ {s} : close'[u] = close[u]
    <2>1. close \in [Sessions -> {"open", "closing", "failed", "closed"}]
      BY Types DEF RegistryInv
    <2>2. QED
      BY <1>1, <2>1
  <1>3. SlotOK(s)'
    BY <1>1, <1>2 DEF RegistryInv, Slots, SlotOK
  <1>4. GuardOK(s)'
    BY <1>1 DEF RegistryInv, Guards, GuardOK, Unsettled
  <1>5. /\ guard' \in [Sessions -> GuardType] /\ slot' \in [Sessions -> SlotType]
        /\ left' \in [faults : 0..MaxFaults, reopens : 0..MaxReopens]
    BY <1>1, Types DEF RegistryInv
  <1>6. QED
    BY <1>1, <1>2, <1>3, <1>4, <1>5, RecordsStay

\* The session is opened again: nothing of it was active.
LEMMA ReopenKeeps ==
    ASSUME RegistryInv, NEW s \in Sessions, Reopen(s)
    PROVE  RegistryInv'
  <1>1. /\ close[s] = "closed" /\ left.reopens > 0
        /\ close' = [close EXCEPT ![s] = "open"] /\ guard' = [guard EXCEPT ![s] = NewGuard]
        /\ view' = [view EXCEPT ![s] = NewView] /\ left' = [left EXCEPT !.reopens = @ - 1]
        /\ UNCHANGED <<last, record, kept, legacy, ledger, slot, fenced, entered, result, answers>>
    BY DEF Reopen, historyVars
  <1>2. NewGuard \in GuardType /\ NewGuard.exec = 0 /\ NewGuard.task = "idle" /\ NewView \in ViewType
    BY LimitsAssumption DEF NewGuard, NewView, Idle, GuardType, ViewType, Observations, Statuses
  <1>3. /\ guard' \in [Sessions -> GuardType] /\ guard'[s] = NewGuard
        /\ \A u \in Sessions \ {s} : guard'[u] = guard[u] /\ close'[u] = close[u]
        /\ view' \in [Sessions -> ViewType] /\ close'[s] = "open"
        /\ close' \in [Sessions -> {"open", "closing", "failed", "closed"}]
    <2>1. /\ guard \in [Sessions -> GuardType] /\ view \in [Sessions -> ViewType]
          /\ close \in [Sessions -> {"open", "closing", "failed", "closed"}]
      BY Types DEF RegistryInv
    <2>2. QED
      BY <1>1, <1>2, <2>1
  <1>4. left' \in [faults : 0..MaxFaults, reopens : 0..MaxReopens]
    <2>1. left \in [faults : 0..MaxFaults, reopens : 0..MaxReopens]
      BY Types DEF RegistryInv
    <2>2. left.reopens - 1 \in 0..MaxReopens
      BY <1>1, <2>1, LimitsAssumption
    <2>3. QED
      BY <1>1, <2>1, <2>2
  <1>5. TypeOK'
    BY <1>1, <1>3, <1>4, Types
       DEF RegistryInv, TypeOK, RecordType, SlotType, GuardType, ViewType, Observations
  <1>6. slot[s].exec = 0 /\ ~slot[s].started
    BY <1>1 DEF RegistryInv, Slots, SlotOK
  <1>7. SlotOK(s)'
    BY <1>1, <1>3, <1>6 DEF RegistryInv, Slots, SlotOK
  <1>8. GuardOK(s)'
    BY <1>1, <1>2, <1>3, <1>6 DEF GuardOK, Unsettled
  <1>9. 0 \notin Execs
    BY DEF Execs
  <1>10. Numbered' /\ Slots' /\ Guards' /\ Submitted' /\ Histories'
    BY <1>1, <1>2, <1>3, <1>6, <1>7, <1>8, <1>9, LocalStep
  <1>11. Keeps'
    BY <1>1, KeepsStill
  <1>12. QED
    BY <1>5, <1>10, <1>11 DEF RegistryInv

LEMMA FenceKeeps ==
    ASSUME RegistryInv, Fence
    PROVE  RegistryInv'
  <1>1. /\ fenced' = TRUE
        /\ UNCHANGED <<last, record, kept, legacy, ledger, slot, view, guard, close, left,
                       entered, result, answers>>
    BY DEF Fence, registryVars, historyVars
  <1>2. TypeOK'
    BY <1>1 DEF RegistryInv, TypeOK
  <1>3. QED
    BY <1>1, <1>2 DEF RegistryInv, Numbered, Slots, SlotOK, ActiveInSlot, Guards, GuardOK,
                      Unsettled, Submitted, Histories, HistoryOK, Keeps, ReferredIsKept

\* A record that expires is of an ended legacy execution.
LEMMA ExpireKeeps ==
    ASSUME RegistryInv, NEW n \in Execs, Expire(n)
    PROVE  RegistryInv'
  <1>1. /\ n \in 1..Len(legacy) /\ kept' = kept \ {legacy[k] : k \in 1..n}
        /\ legacy' = SubSeq(legacy, n + 1, Len(legacy))
        /\ UNCHANGED <<last, record, ledger, slot, view, guard, close, fenced, left,
                       entered, result, answers>>
    BY DEF Expire, serviceVars, historyVars
  <1>2. /\ legacy \in Seq(Execs) /\ kept \subseteq Execs /\ Len(legacy) \in Nat
        /\ DOMAIN legacy = 1..Len(legacy) /\ Len(legacy) <= RecentLegacy
    BY Types DEF RegistryInv
  <1>3. /\ legacy' \in Seq(Execs) /\ Len(legacy') = Len(legacy) - n
        /\ \A k \in 1..Len(legacy') : legacy'[k] = legacy[n + k] /\ n + k \in 1..Len(legacy)
    <2>1. n + 1 \in 1..(Len(legacy) + 1)
      BY <1>1, <1>2
    <2>2. \A k \in (n + 1)..Len(legacy) : k \in 1..Len(legacy)
      BY <2>1, <1>2
    <2>3. /\ SubSeq(legacy, n + 1, Len(legacy)) \in Seq(Execs)
          /\ Len(SubSeq(legacy, n + 1, Len(legacy))) = Len(legacy) - n
          /\ \A k \in 1..(Len(legacy) - n) : SubSeq(legacy, n + 1, Len(legacy))[k] = legacy[n + k]
      <3> DEFINE m == n + 1
                 l == Len(legacy)
      <3>0. n \in 1..l /\ l \in Nat /\ n \in Int
        BY <1>1, <1>2
      <3>1. /\ m \in Int /\ l \in Int /\ \A k \in m..l : legacy[k] \in Execs
            /\ l - m + 1 = l - n /\ (IF m <= l THEN l - m + 1 ELSE 0) = l - n
            /\ \A k \in 1..(l - n) : m + k - 1 = n + k
        <4>1. \A k \in m..l : legacy[k] \in Execs
          BY <1>2, <2>2
        <4> HIDE DEF l
        <4>2. QED
          BY <3>0, <4>1
      <3> HIDE DEF m, l
      <3>2. /\ SubSeq(legacy, m, l) \in Seq(Execs)
            /\ Len(SubSeq(legacy, m, l)) = IF m <= l THEN l - m + 1 ELSE 0
            /\ \A k \in 1..(l - m + 1) : SubSeq(legacy, m, l)[k] = legacy[m + k - 1]
        BY <3>1, SubSeqProperties
      <3>3. QED
        BY <3>1, <3>2 DEF m, l
    <2>4. \A k \in 1..(Len(legacy) - n) : n + k \in 1..Len(legacy)
      BY <1>1, <1>2
    <2>5. QED
      BY <1>1, <2>3, <2>4
  <1>4. TypeOK'
    <2>1. kept' \subseteq Execs /\ Len(legacy') <= RecentLegacy
      BY <1>1, <1>2, <1>3, LimitsAssumption
    <2>2. QED
      BY <1>1, <1>3, <2>1 DEF RegistryInv, TypeOK
  <1>5. Numbered' /\ Slots' /\ Guards' /\ Submitted' /\ Histories'
    BY <1>1 DEF RegistryInv, Numbered, Slots, SlotOK, ActiveInSlot, Guards, GuardOK,
                Unsettled, Submitted, Histories, HistoryOK
  <1>6. \A k \in 1..Len(legacy) : record[legacy[k]].sub = Legacy /\ record[legacy[k]].status \in Ended
    BY <1>2 DEF RegistryInv, Keeps
  <1>7. DOMAIN legacy' = 1..Len(legacy')
    BY <1>3
  <1>8. ASSUME NEW t \in Sessions, NEW i \in Submissions, ledger[t][i] # 0
        PROVE  ledger[t][i] \in kept'
    <2>1. record[ledger[t][i]].sub = i /\ i # Legacy /\ ledger[t][i] \in kept
      BY <1>8, LimitsAssumption DEF RegistryInv, Submitted, Keeps, ReferredIsKept
    <2>2. \A k \in 1..n : k \in 1..Len(legacy)
      BY <1>1, <1>2
    <2>3. ledger[t][i] \notin {legacy[k] : k \in 1..n}
      BY <1>6, <2>1, <2>2
    <2>4. QED
      BY <1>1, <2>1, <2>3
  <1>9. ASSUME NEW u \in Sessions, slot[u].exec # 0 PROVE slot[u].exec \in kept'
    <2>1. slot[u].exec \in kept
      BY <1>9 DEF RegistryInv, Keeps, ReferredIsKept
    <2>2. record[slot[u].exec].status \notin Ended
      BY <1>9, StatusesAre DEF RegistryInv, Slots, SlotOK
    <2>3. \A k \in 1..n : k \in 1..Len(legacy)
      BY <1>1, <1>2
    <2>4. slot[u].exec \notin {legacy[k] : k \in 1..n}
      BY <1>6, <2>2, <2>3
    <2>5. QED
      BY <1>1, <2>1, <2>4
  <1>10. Keeps'
    BY <1>1, <1>3, <1>6, <1>7, <1>8, <1>9 DEF Keeps, ReferredIsKept
  <1>11. QED
    BY <1>4, <1>5, <1>10 DEF RegistryInv

-----------------------------------------------------------------------------
\* Submission.

\* A retried submission is answered with the execution that was made of it.
LEMMA ResubmitKeeps ==
    ASSUME RegistryInv, NEW s \in Sessions, NEW i \in Submissions, NEW t \in Texts,
           Resubmit(s, i, t)
    PROVE  RegistryInv'
  <1> DEFINE e == ledger[s][i]
             x == [session |-> s, sub |-> i, text |-> t, exec |-> e]
  <1>1. /\ e # 0 /\ record[e].text = t /\ answers' = answers \cup {x}
        /\ UNCHANGED <<last, record, kept, legacy, ledger, slot, view, guard, close, fenced, left,
                       entered, result>>
    BY DEF Resubmit, Known, SameText, Answer, registryVars, serviceVars
  <1>2. e \in 1..last /\ record[e].sub = i
    <2>1. e \in 0..MaxExecs /\ last \in Nat
      BY Types, LimitsAssumption DEF RegistryInv
    <2>2. e <= last /\ record[e].sub = i
      BY <1>1 DEF RegistryInv, Submitted
    <2>3. QED
      BY <1>1, <2>1, <2>2
  <1>3. TypeOK'
    BY <1>1 DEF RegistryInv, TypeOK
  <1>4. Numbered' /\ Slots' /\ Guards' /\ Histories' /\ Keeps'
    BY <1>1 DEF RegistryInv, Numbered, Slots, SlotOK, ActiveInSlot, Guards, GuardOK,
                Unsettled, Histories, HistoryOK, Keeps, ReferredIsKept
  <1>5. Submitted'
    BY <1>1, <1>2 DEF RegistryInv, Submitted
  <1>6. QED
    BY <1>3, <1>4, <1>5 DEF RegistryInv

\* A new execution: nothing refers to its number yet.
LEMMA AcceptKeeps ==
    ASSUME RegistryInv, NEW s \in Sessions, NEW i \in Submissions \cup {Legacy}, NEW t \in Texts,
           Accept(s, i, t)
    PROVE  RegistryInv'
  <1> DEFINE e == last + 1
             new == [session |-> s, sub |-> i, text |-> t, status |-> "accepted",
                     revision |-> 1, interrupt |-> FALSE]
             free == [NoSlot EXCEPT !.exec = e, !.task = "starting"]
             x == [session |-> s, sub |-> i, text |-> t, exec |-> e]
  <1>1. /\ close[s] = "open" /\ ~Known(s, i) /\ slot[s].exec = 0 /\ last < MaxExecs
        /\ last' = e /\ Publish(s, e, new, view[s].quiescent) /\ kept' = kept \cup {e}
        /\ slot' = [slot EXCEPT ![s] = free]
        /\ ledger' = IF i = Legacy THEN ledger ELSE [ledger EXCEPT ![s][i] = e]
        /\ answers' = answers \cup {x}
        /\ UNCHANGED <<legacy, guard, close, fenced, left, entered, result>>
    BY DEF Accept, Accepting, Admitted, Answer, serviceVars
  <1>2. /\ last \in Nat /\ MaxExecs \in Nat /\ e \in Execs /\ e \in 0..MaxExecs /\ e # 0 /\ e > last
        /\ \A n \in Execs : n <= last => n # e /\ n <= e
        /\ \A n \in Execs : n > e => n > last
        /\ \A n \in Execs : n # e /\ n > last => n > e
    BY <1>1, Types, LimitsAssumption DEF RegistryInv, Execs
  <1>3. record[e].status = "none" /\ entered[e] = 0
    BY <1>2 DEF RegistryInv, Numbered
  <1>4. new \in RecordType /\ free \in SlotType /\ free.exec = e /\ free.task = "starting" /\ ~free.started
    BY <1>2, StatusesAre DEF RecordType, SlotType, NoSlot
  <1>5. new.status = "accepted" /\ new.session = s /\ new.sub = i /\ new.text = t
    OBVIOUS
  <1>6. x.session = s /\ x.sub = i /\ x.text = t /\ x.exec = e
    OBVIOUS
  <1> HIDE DEF e, new, free, x
  <1>7. /\ record' \in [Execs -> RecordType] /\ view' \in [Sessions -> ViewType]
        /\ record'[e] = new /\ \A n \in Execs \ {e} : record'[n] = record[n]
    <2>1. view[s].quiescent \in Observations
      BY Types DEF RegistryInv, ViewType
    <2>2. QED
      BY <1>1, <1>2, <1>4, <2>1, PublishKeeps DEF RegistryInv
  <1>8. /\ slot' \in [Sessions -> SlotType] /\ slot'[s] = free
        /\ \A u \in Sessions \ {s} : slot'[u] = slot[u]
    BY <1>1, <1>4, Types DEF RegistryInv
  <1>9. /\ ledger' \in [Sessions -> [Submissions -> 0..MaxExecs]]
        /\ \A u \in Sessions, j \in Submissions :
              ledger'[u][j] = IF i = j /\ u = s THEN e ELSE ledger[u][j]
    <2>1. ledger \in [Sessions -> [Submissions -> 0..MaxExecs]]
      BY Types DEF RegistryInv
    <2>2. CASE i = Legacy
      BY <1>1, <2>1, <2>2, LimitsAssumption
    <2>3. CASE i \in Submissions /\ i # Legacy
      BY <1>1, <1>2, <2>1, <2>3
    <2>4. QED
      BY <2>2, <2>3
  <1>10. i \in Submissions => ledger[s][i] = 0
    BY <1>1, LimitsAssumption DEF Known
  <1>11. TypeOK'
    <2>1. last' \in 0..MaxExecs /\ kept' \subseteq Execs
      BY <1>1, <1>2, Types DEF RegistryInv
    <2>2. QED
      BY <1>1, <1>7, <1>8, <1>9, <2>1, Types
         DEF RegistryInv, TypeOK, RecordType, SlotType, GuardType, ViewType, Observations
  <1>12. \A u \in Sessions : /\ slot[u].exec \in 0..MaxExecs /\ guard[u].exec \in 0..MaxExecs
                              /\ slot[u].exec <= last /\ guard[u].exec <= last
                              /\ slot[u].exec # e /\ guard[u].exec # e
    <2>1. \A u \in Sessions : slot[u] \in SlotType /\ guard[u] \in GuardType
      BY Types DEF RegistryInv
    <2>2. \A u \in Sessions : /\ slot[u].exec \in 0..MaxExecs /\ guard[u].exec \in 0..MaxExecs
                               /\ slot[u].exec <= last /\ guard[u].exec <= last
      BY <2>1 DEF SlotType, GuardType, RegistryInv, Numbered
    <2>3. QED
      BY <1>2, <2>2
  <1>13. \A n \in 0..MaxExecs : n = 0 \/ n \in Execs
    BY DEF Execs
  <1>14. Numbered'
    <2>1. \A n \in Execs : (record'[n].status = "none" <=> n > e) /\ (n > e => entered'[n] = 0)
      <3>1. SUFFICES ASSUME NEW n \in Execs
                     PROVE  (record'[n].status = "none" <=> n > e) /\ (n > e => entered'[n] = 0)
        OBVIOUS
      <3>2. CASE n = e
        BY <1>1, <1>2, <1>3, <1>5, <1>7, <3>2
      <3>3. CASE n # e
        <4>1. n > e <=> n > last
          BY <1>2, <3>3 DEF Execs
        <4>2. QED
          BY <1>1, <1>7, <3>3, <4>1 DEF RegistryInv, Numbered
      <3>4. QED
        BY <3>2, <3>3
    <2>2. \A u \in Sessions : slot'[u].exec <= e /\ guard'[u].exec <= e
      <3>1. \A n \in 0..MaxExecs : n <= last => n <= e
        BY <1>2, <1>13 DEF e
      <3>2. e <= e
        BY <1>2
      <3>3. QED
        BY <1>1, <1>4, <1>8, <1>12, <3>1, <3>2
    <2>3. QED
      BY <1>1, <2>1, <2>2 DEF Numbered
  <1>15. ASSUME NEW u \in Sessions PROVE SlotOK(u)' /\ GuardOK(u)'
    <2>1. /\ slot[u].exec # 0 => record'[slot[u].exec] = record[slot[u].exec]
          /\ guard[u].exec # 0 => record'[guard[u].exec] = record[guard[u].exec]
      BY <1>7, <1>12, <1>13
    <2>2. CASE u # s
      <3>1. slot'[u] = slot[u] /\ guard'[u] = guard[u]
        BY <1>1, <1>8, <2>2
      <3>2. SlotOK(u)'
        BY <1>1, <2>1, <3>1 DEF RegistryInv, Slots, SlotOK
      <3>3. GuardOK(u)'
        BY <1>1, <2>1, <3>1 DEF RegistryInv, Guards, GuardOK, Unsettled
      <3>4. QED
        BY <3>2, <3>3
    <2>3. CASE u = s
      <3>1. ~slot[s].started
        BY <1>1 DEF RegistryInv, Slots, SlotOK
      <3>2. SlotOK(s)'
        BY <1>1, <1>2, <1>3, <1>4, <1>5, <1>7, <1>8 DEF SlotOK
      <3>3. GuardOK(s)'
        BY <1>1, <1>4, <1>8, <2>1, <2>3, <3>1 DEF RegistryInv, Guards, GuardOK, Unsettled
      <3>4. QED
        BY <2>3, <3>2, <3>3
    <2>4. QED
      BY <2>2, <2>3
  <1>16. ASSUME NEW n \in Execs PROVE ActiveInSlot(n)' /\ HistoryOK(n)'
    <2>1. CASE n = e
      <3>1. ActiveInSlot(n)'
        BY <1>4, <1>5, <1>7, <1>8, <2>1 DEF ActiveInSlot
      <3>2. HistoryOK(n)'
        BY <1>1, <1>3, <1>5, <1>7, <2>1, StatusesAre DEF HistoryOK
      <3>3. QED
        BY <3>1, <3>2
    <2>2. CASE n # e
      <3>1. record'[n] = record[n]
        BY <1>7, <2>2
      <3>2. record[n].session \in Sessions /\ n # 0
        <4>1. record[n] \in RecordType
          BY Types DEF RegistryInv
        <4>2. QED
          BY <4>1 DEF RecordType, Execs
      <3>3. record[n].status \in Active => record[n].session # s
        BY <1>1, <3>2 DEF RegistryInv, Slots, ActiveInSlot
      <3>4. ActiveInSlot(n)'
        BY <1>8, <3>1, <3>2, <3>3 DEF RegistryInv, Slots, ActiveInSlot
      <3>5. HistoryOK(n)'
        BY <1>1, <3>1 DEF RegistryInv, Histories, HistoryOK
      <3>6. QED
        BY <3>4, <3>5
    <2>3. QED
      BY <2>1, <2>2
  <1>17. \A u \in Sessions, j \in Submissions : ledger[u][j] # 0 =>
              /\ ledger[u][j] \in Execs /\ ledger[u][j] <= last /\ ledger[u][j] # e
              /\ record[ledger[u][j]].session = u /\ record[ledger[u][j]].sub = j
    BY <1>2, <1>13, Types DEF RegistryInv, Submitted
  <1>18. Submitted'
    <2>1. ASSUME NEW u \in Sessions, NEW j \in Submissions, ledger'[u][j] # 0
          PROVE  /\ ledger'[u][j] <= e
                 /\ record'[ledger'[u][j]].session = u /\ record'[ledger'[u][j]].sub = j
      <3>1. CASE i = j /\ u = s
        BY <1>2, <1>5, <1>7, <1>9, <3>1
      <3>2. CASE ~(i = j /\ u = s)
        BY <1>2, <1>7, <1>9, <1>17, <2>1, <3>2
      <3>3. QED
        BY <3>1, <3>2
    <2>2. ASSUME NEW y \in answers'
          PROVE  /\ y.exec \in 1..e
                 /\ record'[y.exec].text = y.text /\ record'[y.exec].sub = y.sub
                 /\ y.sub # Legacy => /\ y.session \in Sessions /\ y.sub \in Submissions
                                      /\ ledger'[y.session][y.sub] = y.exec
      <3>1. CASE y = x
        <4>1. e \in 1..e
          BY <1>2
        <4>2. QED
          BY <1>5, <1>6, <1>7, <1>9, <3>1, <4>1
      <3>2. CASE y \in answers
        <4>1. /\ y.exec \in 1..last
              /\ record[y.exec].text = y.text /\ record[y.exec].sub = y.sub
              /\ y.sub # Legacy => /\ y.session \in Sessions /\ y.sub \in Submissions
                                   /\ ledger[y.session][y.sub] = y.exec
          BY <3>2 DEF RegistryInv, Submitted
        <4>2. y.exec \in Execs /\ y.exec # e /\ y.exec \in 1..e /\ y.exec # 0
          BY <1>1, <1>2, <4>1 DEF Execs, e
        <4>3. y.sub # Legacy => ledger'[y.session][y.sub] = ledger[y.session][y.sub]
          BY <1>9, <1>10, <4>1, <4>2
        <4>4. QED
          BY <1>7, <4>1, <4>2, <4>3
      <3>3. QED
        BY <1>1, <2>2, <3>1, <3>2
    <2>3. QED
      BY <1>1, <2>1, <2>2 DEF Submitted
  <1>19. Keeps'
    <2>1. \A k \in DOMAIN legacy : legacy[k] \in Execs /\ legacy[k] # e
      <3>1. \A k \in DOMAIN legacy : legacy[k] \in Execs /\ record[legacy[k]].status \in Ended
        BY Types DEF RegistryInv, Keeps
      <3>2. QED
        BY <1>3, <3>1, StatusesAre
    <2>2. \A k \in DOMAIN legacy' : record'[legacy'[k]].sub = Legacy /\ record'[legacy'[k]].status \in Ended
      BY <1>1, <1>7, <2>1 DEF RegistryInv, Keeps
    <2>3. \A u \in Sessions, j \in Submissions : ledger'[u][j] # 0 => ledger'[u][j] \in kept'
      BY <1>1, <1>9 DEF RegistryInv, Keeps, ReferredIsKept
    <2>4. \A u \in Sessions : slot'[u].exec # 0 => slot'[u].exec \in kept'
      BY <1>1, <1>4, <1>8 DEF RegistryInv, Keeps, ReferredIsKept
    <2>5. QED
      BY <2>2, <2>3, <2>4 DEF Keeps, ReferredIsKept
  <1>20. QED
    BY <1>11, <1>14, <1>15, <1>16, <1>18, <1>19 DEF RegistryInv, Slots, Guards, Histories

-----------------------------------------------------------------------------
\* The invariant.
LEMMA RegistryInit == Init => RegistryInv
  <1> SUFFICES ASSUME Init PROVE RegistryInv
    OBVIOUS
  <1>1. /\ last = 0 /\ kept = {} /\ legacy = <<>> /\ fenced = FALSE /\ answers = {}
        /\ ledger = [s \in Sessions |-> [i \in Submissions |-> 0]]
        /\ slot = [s \in Sessions |-> NoSlot] /\ guard = [s \in Sessions |-> NewGuard]
        /\ view = [s \in Sessions |-> NewView] /\ close = [s \in Sessions |-> "open"]
        /\ left = [faults |-> MaxFaults, reopens |-> MaxReopens]
        /\ entered = [e \in Execs |-> 0] /\ result = [e \in Execs |-> "none"]
    BY DEF Init
  <1>2. /\ record \in [Execs -> RecordType]
        /\ \A e \in Execs : record[e].status = "none" /\ e > 0
    <2>1. (CHOOSE s \in Sessions : TRUE) \in Sessions /\ (CHOOSE t \in Texts : TRUE) \in Texts
      BY LimitsAssumption
    <2>2. QED
      BY <2>1, StatusesAre DEF Init, RecordType, Execs
  <1>3. /\ NewGuard \in GuardType /\ NewGuard.exec = 0 /\ NewGuard.task = "idle"
        /\ NewView \in ViewType
        /\ NoSlot \in SlotType /\ NoSlot.exec = 0 /\ NoSlot.task = "idle" /\ ~NoSlot.started
    BY LimitsAssumption
       DEF NewGuard, NewView, NoSlot, Idle, GuardType, ViewType, SlotType, Observations, Statuses
  <1>4. TypeOK
    <2>1. last \in 0..MaxExecs /\ legacy \in Seq(Execs) /\ Len(legacy) <= RecentLegacy
      BY <1>1, LimitsAssumption
    <2>2. /\ ledger \in [Sessions -> [Submissions -> 0..MaxExecs]] /\ entered \in [Execs -> Nat]
          /\ left \in [faults : 0..MaxFaults, reopens : 0..MaxReopens]
      BY <1>1, LimitsAssumption
    <2>3. QED
      BY <1>1, <1>2, <1>3, <2>1, <2>2, Types
  <1>5. Numbered
    BY <1>1, <1>2, <1>3 DEF Numbered
  <1>6. Slots /\ Guards
    BY <1>1, <1>2, <1>3, StatusesAre DEF Slots, SlotOK, ActiveInSlot, Guards, GuardOK, Unsettled
  <1>7. Submitted
    BY <1>1 DEF Submitted
  <1>8. Histories
    BY <1>1, <1>2, StatusesAre DEF Histories, HistoryOK
  <1>9. Keeps
    BY <1>1, <1>3 DEF Keeps, ReferredIsKept
  <1>10. QED
    BY <1>4, <1>5, <1>6, <1>7, <1>8, <1>9 DEF RegistryInv

LEMMA RegistryStutters ==
    ASSUME RegistryInv, UNCHANGED vars
    PROVE  RegistryInv'
  BY DEF vars, registryVars, serviceVars, historyVars, RegistryInv, TypeOK, Numbered, Slots,
         SlotOK, ActiveInSlot, Guards, GuardOK, Unsettled, Submitted, Histories, HistoryOK,
         Keeps, ReferredIsKept

LEMMA RegistryStep ==
    ASSUME RegistryInv, [Next]_vars
    PROVE  RegistryInv'
  <1>1. CASE Submits
    <2>1. ASSUME NEW s \in Sessions, NEW t \in Texts, NEW i \in Submissions \cup {Legacy},
                 Accept(s, i, t)
          PROVE  RegistryInv'
      BY <2>1, AcceptKeeps
    <2>2. ASSUME NEW s \in Sessions, NEW t \in Texts, NEW i \in Submissions, Resubmit(s, i, t)
          PROVE  RegistryInv'
      BY <2>2, ResubmitKeeps
    <2>3. QED
      BY <1>1, <2>1, <2>2 DEF Submits
  <1>2. ASSUME NEW s \in Sessions,
               \/ DriveBegins(s) \/ DriveEnds(s) \/ DriveCancelled(s) \/ RetryBegins(s)
               \/ GuardBegins(s) \/ Settled(s) \/ SettleFails(s)
               \/ \E o \in Ended : WorkEnds(s, o)
               \/ Interrupt(s) \/ RetrySettlement(s)
               \/ CloseBinding(s) \/ CloseEnds(s) \/ Reopen(s)
        PROVE  RegistryInv'
    BY <1>2, DriveBeginsKeeps, DriveEndsKeeps, RetryKeeps, GuardBeginsKeeps, SettledKeeps,
       WorkEndsKeeps, InterruptKeeps, RetrySettlementKeeps, CloseBindingKeeps, CloseEndsKeeps,
       ReopenKeeps
  <1>3. CASE \E n \in Execs : Expire(n)
    BY <1>3, ExpireKeeps
  <1>4. CASE Fence
    BY <1>4, FenceKeeps
  <1>5. CASE UNCHANGED vars
    BY <1>5, RegistryStutters
  <1>6. QED
    BY <1>1, <1>2, <1>3, <1>4, <1>5 DEF Next

LEMMA RegistryHolds == Spec => []RegistryInv
  <1>1. Init => RegistryInv
    BY RegistryInit
  <1>2. RegistryInv /\ [Next]_vars => RegistryInv'
    BY RegistryStep
  <1>3. QED
    BY <1>1, <1>2, PTL DEF Spec

-----------------------------------------------------------------------------
\* However often a client submits, over failures, retried settlements and reopened
\* bindings, a submission is one execution of its text, entered at most once: answers
\* follow the ledger, which is never rewritten, and a guard begins an execution only
\* when it was not entered.
THEOREM InputsRunOnce == Spec => []RunsOnce
  <1>1. RegistryInv => RunsOnce
    <2> SUFFICES ASSUME RegistryInv PROVE RunsOnce
      OBVIOUS
    <2>1. \A e \in Execs : entered[e] <= 1
      BY DEF RegistryInv, Histories, HistoryOK
    <2>2. \A x \in answers : record[x.exec].text = x.text /\ record[x.exec].sub = x.sub
      BY DEF RegistryInv, Submitted
    <2>3. \A x, y \in answers :
            x.sub # Legacy /\ x.sub = y.sub /\ x.session = y.session => x.exec = y.exec
      BY DEF RegistryInv, Submitted
    <2>4. QED
      BY <2>1, <2>2, <2>3 DEF RunsOnce
  <1>2. QED
    BY <1>1, RegistryHolds, PTL

\* What the Product still runs, settles or owes is in the slot of its session, whether
\* the registry's task waits, has failed or is retrying, and the session is not closed.
THEOREM ProductWorkHasSlot == Spec => []WorkIsOwned
  <1>1. RegistryInv => WorkIsOwned
    <2> SUFFICES ASSUME RegistryInv, NEW s \in Sessions, Unsettled(s)
                 PROVE  /\ slot[s].exec = guard[s].exec /\ slot[s].started
                        /\ record[slot[s].exec].status \in Active /\ close[s] # "closed"
      BY DEF WorkIsOwned
    <2>1. slot[s].started /\ slot[s].exec = guard[s].exec
      BY DEF RegistryInv, Guards, GuardOK
    <2>2. slot[s].exec # 0 /\ slot[s].task # "idle" /\ close[s] # "closed"
      BY <2>1 DEF RegistryInv, Slots, SlotOK
    <2>3. QED
      BY <2>1, <2>2, InSlot
  <1>2. QED
    BY <1>1, RegistryHolds, PTL

\* What is published of work that ran is what it returned, through interrupts, failed
\* settlements and retries, and input that did not run is not said to have succeeded.
THEOREM OutcomesAreTrue == Spec => []OutcomeIsTrue
  <1>1. RegistryInv => OutcomeIsTrue
    BY DEF RegistryInv, Histories, HistoryOK, OutcomeIsTrue
  <1>2. QED
    BY <1>1, RegistryHolds, PTL

\* No record expires that a submission or a slot leads to: only ended executions of the
\* legacy call do, and those have no submission.
THEOREM ReferredRecordsStay == Spec => []ReferredIsKept
  <1>1. RegistryInv => ReferredIsKept
    BY DEF RegistryInv, Keeps
  <1>2. QED
    BY <1>1, RegistryHolds, PTL

-----------------------------------------------------------------------------
\* What a client that retries is promised.

\* The states that may follow each other, seen from outside.
Follows(old, new) ==
    \/ new = old
    \/ old = "accepted" /\ new \in {"running", "failed", "interrupted"}
    \/ old = "running" /\ new \in Ended


\* One execution that is active changes, and by one revision.
Moved(e) ==
    /\ e \in Execs /\ record[e].status \in Active /\ UNCHANGED <<last, ledger>>
    /\ \A x \in Execs \ {e} : record'[x] = record[x]
    /\ Follows(record[e].status, record'[e].status)
    /\ record'[e].revision = record[e].revision + 1
    /\ record[e].interrupt => record'[e].interrupt

\* A step of one execution is a step of its submission, if it has one.
LEMMA OneMoves ==
    ASSUME RegistryInv, NEW e \in Execs, Moved(e)
    PROVE  Promise!PhasesNext \/ Phase' = Phase
  <1> DEFINE to == record'[e].status
             s == record[e].session
             i == record[e].sub
  <1>0. /\ ledger' = ledger /\ \A x \in Execs \ {e} : record'[x] = record[x]
        /\ Follows(record[e].status, to)
    BY DEF Moved
  <1>1. \A u \in Sessions, j \in Submissions : ledger[u][j] # 0 =>
              /\ ledger[u][j] \in Execs
              /\ record[ledger[u][j]].session = u /\ record[ledger[u][j]].sub = j
    BY Types DEF RegistryInv, Submitted, Execs
  <1>2. s \in Sessions /\ e # 0
    <2>1. record[e] \in RecordType
      BY Types DEF RegistryInv
    <2>2. QED
      BY <2>1 DEF RecordType, Execs
  <1>3. CASE to = record[e].status
    <2>1. \A u \in Sessions, j \in Submissions : ledger[u][j] # 0 =>
              record'[ledger[u][j]].status = record[ledger[u][j]].status
      BY <1>0, <1>1, <1>3
    <2>2. QED
      BY <1>0, <2>1 DEF Phase
  <1>4. CASE ~(i \in Submissions /\ ledger[s][i] = e)
    <2>1. \A u \in Sessions, j \in Submissions : ledger[u][j] # 0 =>
              record'[ledger[u][j]].status = record[ledger[u][j]].status
      BY <1>0, <1>1, <1>4
    <2>2. QED
      BY <1>0, <2>1 DEF Phase
  <1>5. CASE i \in Submissions /\ ledger[s][i] = e /\ to # record[e].status
    <2>1. \A u \in Sessions, j \in Submissions : ledger[u][j] # 0 =>
              record'[ledger[u][j]].status =
                 IF u = s /\ j = i THEN to ELSE record[ledger[u][j]].status
      BY <1>0, <1>1, <1>2, <1>5
    <2>2. Phase[s][i] = record[e].status
      BY <1>2, <1>5 DEF Phase
    <2>3. Phase' = [Phase EXCEPT ![s][i] = to]
      <3> DEFINE old(u, j) == IF ledger[u][j] = 0 THEN "new" ELSE record[ledger[u][j]].status
      <3>1. Phase = [u \in Sessions |-> [j \in Submissions |-> old(u, j)]]
        BY DEF Phase
      <3>2. Phase' = [u \in Sessions |-> [j \in Submissions |->
                        IF u = s /\ j = i THEN to ELSE old(u, j)]]
        BY <1>0, <1>2, <1>5, <2>1 DEF Phase
      <3> HIDE DEF old, to, s, i
      <3>3. QED
        BY <1>2, <1>5, <3>1, <3>2
    <2>4. \/ Phase[s][i] = "accepted" /\ to \in {"running", "failed", "interrupted"}
          \/ Phase[s][i] = "running" /\ to \in Ended
      BY <1>0, <1>5, <2>2 DEF Follows
    <2> HIDE DEF to, s, i
    <2>5. Promise!Enters(s, i) \/ Promise!Ends(s, i)
      BY <2>3, <2>4 DEF Promise!Enters, Promise!Ends, Promise!Moves, Promise!Ended, Ended
    <2>6. QED
      BY <1>2, <1>5, <2>5 DEF Promise!PhasesNext
  <1>6. QED
    BY <1>3, <1>4, <1>5

LEMMA FinishMoves ==
    ASSUME RegistryInv, NEW s \in Sessions, slot[s].task # "idle", NEW outcome \in Ended,
           Finish(s, outcome), ~(entered[slot[s].exec] > 0) => outcome # "succeeded"
    PROVE  Moved(slot[s].exec)
  <1> DEFINE e == slot[s].exec
  <1>1. e \in Execs /\ e # 0 /\ record[e].status \in Active
    BY InSlot DEF Execs
  <1>2. /\ record'[e].status = outcome /\ \A x \in Execs \ {e} : record'[x] = record[x]
        /\ record'[e].revision = record[e].revision + 1
        /\ record'[e].interrupt = record[e].interrupt
        /\ UNCHANGED <<last, ledger>>
    BY FinishEffect DEF Finish
  <1>3. record[e].status = IF entered[e] > 0 THEN "running" ELSE "accepted"
    BY <1>1 DEF RegistryInv, Slots, SlotOK
  <1>4. Follows(record[e].status, record'[e].status)
    BY <1>2, <1>3 DEF Follows, Ended
  <1>5. QED
    BY <1>1, <1>2, <1>4 DEF Moved

LEMMA AcceptMoves ==
    ASSUME RegistryInv, NEW s \in Sessions, NEW i \in Submissions \cup {Legacy}, NEW t \in Texts,
           Accept(s, i, t)
    PROVE  Promise!PhasesNext \/ Phase' = Phase
  <1> DEFINE e == last + 1
             new == [session |-> s, sub |-> i, text |-> t, status |-> "accepted",
                     revision |-> 1, interrupt |-> FALSE]
  <1>1. /\ ~Known(s, i) /\ slot[s].exec = 0 /\ record' = [record EXCEPT ![e] = new]
        /\ ledger' = IF i = Legacy THEN ledger ELSE [ledger EXCEPT ![s][i] = e]
        /\ last < MaxExecs
    BY DEF Accept, Admitted, Publish
  <1>2. /\ record \in [Execs -> RecordType] /\ ledger \in [Sessions -> [Submissions -> 0..MaxExecs]]
        /\ last \in Nat /\ MaxExecs \in Nat
    BY Types, LimitsAssumption DEF RegistryInv
  <1>3. e \in Execs /\ e # 0 /\ e > last /\ \A n \in 0..MaxExecs : n <= last => n # e
    BY <1>1, <1>2 DEF Execs
  <1>4. \A u \in Sessions, j \in Submissions : ledger[u][j] # 0 =>
              ledger[u][j] \in Execs /\ ledger[u][j] # e
    BY <1>2, <1>3 DEF RegistryInv, Submitted, Execs
  <1>5. new.status = "accepted"
    OBVIOUS
  <1> HIDE DEF e, new
  <1>6. /\ record'[e].status = "accepted"
        /\ \A u \in Sessions, j \in Submissions : ledger[u][j] # 0 =>
              record'[ledger[u][j]] = record[ledger[u][j]]
    BY <1>1, <1>2, <1>3, <1>4, <1>5
  <1>7. CASE i = Legacy
    BY <1>1, <1>6, <1>7 DEF Phase
  <1>8. CASE i \in Submissions /\ i # Legacy
    <2>1. ledger[s][i] = 0
      BY <1>1, <1>8 DEF Known
    <2>2. Phase[s][i] = "new"
      BY <1>8, <2>1 DEF Phase
    <2>3. \A j \in Submissions : ledger[s][j] # 0 => record[ledger[s][j]].status \notin Active
      <3>1. SUFFICES ASSUME NEW j \in Submissions, ledger[s][j] # 0,
                            record[ledger[s][j]].status \in Active
                     PROVE  FALSE
        OBVIOUS
      <3>2. record[ledger[s][j]].session = s /\ ledger[s][j] \in Execs
        BY <1>4, <3>1 DEF RegistryInv, Submitted
      <3>3. slot[s].exec = ledger[s][j]
        BY <3>1, <3>2 DEF RegistryInv, Slots, ActiveInSlot
      <3>4. QED
        BY <1>1, <3>1, <3>3
    <2>4. \A j \in Submissions : ~Promise!Active(s, j)
      BY <2>3 DEF Promise!Active, Phase, Active
    <2>5. Phase' = [Phase EXCEPT ![s][i] = "accepted"]
      <3> DEFINE old(u, j) == IF ledger[u][j] = 0 THEN "new" ELSE record[ledger[u][j]].status
      <3>1. Phase = [u \in Sessions |-> [j \in Submissions |-> old(u, j)]]
        BY DEF Phase
      <3>2. \A u \in Sessions, j \in Submissions :
                ledger'[u][j] = IF u = s /\ j = i THEN e ELSE ledger[u][j]
        BY <1>1, <1>2, <1>8
      <3>3. Phase' = [u \in Sessions |-> [j \in Submissions |->
                        IF u = s /\ j = i THEN "accepted" ELSE old(u, j)]]
        BY <1>3, <1>6, <3>2 DEF Phase
      <3> HIDE DEF old
      <3>4. QED
        BY <1>8, <3>1, <3>3
    <2>6. Promise!Accepts(s, i)
      BY <2>2, <2>4, <2>5 DEF Promise!Accepts, Promise!Moves
    <2>7. QED
      BY <1>8, <2>6 DEF Promise!PhasesNext
  <1>9. QED
    BY <1>7, <1>8, LimitsAssumption

\* What a step that is not the acceptance of an execution does to the records.
Quiet == UNCHANGED <<last, record, ledger>>
Moves == Quiet \/ \E e \in Execs : Moved(e)

\* The steps of the registry's task.
LEMMA DriveMoves ==
    ASSUME RegistryInv, NEW s \in Sessions,
           DriveBegins(s) \/ DriveEnds(s) \/ DriveCancelled(s) \/ RetryBegins(s)
    PROVE  Moves
  <1>1. ASSUME slot[s].task # "idle", NEW outcome \in {"interrupted", "failed"}, Finish(s, outcome)
        PROVE  Moves
    <2>1. outcome \in Ended /\ outcome # "succeeded"
      BY DEF Ended
    <2>2. QED
      BY <1>1, <2>1, FinishMoves, InSlot DEF Moves
  <1>2. CASE DriveBegins(s)
    <2>1. slot[s].task # "idle"
      BY <1>2 DEF DriveBegins
    <2>2. CASE Finish(s, "interrupted") \/ Finish(s, "failed")
      BY <1>1, <2>1, <2>2
    <2>3. CASE UNCHANGED <<last, record, ledger>>
      BY <2>3 DEF Moves, Quiet
    <2>4. QED
      BY <1>2, <2>2, <2>3 DEF DriveBegins
  <1>3. CASE DriveEnds(s)
    <2>1. slot[s].task = "waiting" /\ slot[s].task # "idle"
      BY <1>3 DEF DriveEnds
    <2>2. CASE Fails(s)
      BY <2>2 DEF Fails, Moves, Quiet
    <2>3. CASE guard[s].task = "done" /\ Finish(s, guard[s].candidate)
      <3>1. guard[s].exec = slot[s].exec
        BY <2>1 DEF RegistryInv, Slots, SlotOK, Guards, GuardOK
      <3>2. /\ guard[s].candidate \in Ended
            /\ guard[s].candidate = IF entered[slot[s].exec] > 0 THEN result[slot[s].exec] ELSE "interrupted"
        BY <2>3, <3>1 DEF RegistryInv, Guards, GuardOK
      <3>3. ~(entered[slot[s].exec] > 0) => guard[s].candidate # "succeeded"
        BY <3>2
      <3>4. QED
        BY <2>1, <2>3, <3>2, <3>3, FinishMoves, InSlot DEF Moves
    <2>4. QED
      BY <1>3, <2>2, <2>3 DEF DriveEnds
  <1>4. CASE DriveCancelled(s)
    BY <1>4 DEF DriveCancelled, Fails, Moves, Quiet
  <1>5. CASE RetryBegins(s)
    <2>1. slot[s].task # "idle"
      BY <1>5 DEF RetryBegins
    <2>2. CASE Finish(s, "interrupted")
      BY <1>1, <2>1, <2>2
    <2>3. CASE UNCHANGED <<last, record, ledger>>
      BY <2>3 DEF Moves, Quiet
    <2>4. QED
      BY <1>5, <2>2, <2>3 DEF RetryBegins
  <1>6. QED
    BY <1>2, <1>3, <1>4, <1>5

\* The steps of the guard's task: the work that is entered runs.
LEMMA GuardMoves ==
    ASSUME RegistryInv, NEW s \in Sessions,
           GuardBegins(s) \/ Settled(s) \/ SettleFails(s) \/ \E o \in Ended : WorkEnds(s, o)
    PROVE  Moves
  <1>1. CASE GuardBegins(s) /\ ~guard[s].asked
    <2> DEFINE e == slot[s].exec
    <2>1. guard[s].task = "beginning" /\ Unsettled(s) /\ Observed(s, "running")
      BY <1>1 DEF GuardBegins, Unsettled
    <2>2. slot[s].task # "idle" /\ e \in Execs /\ record[e].status = "accepted"
      BY <2>1, AtWork
    <2>3. "running" \in {"running"} \cup Ended
      OBVIOUS
    <2>4. /\ UNCHANGED <<last, kept, legacy, ledger>>
          /\ record'[slot[s].exec].status = IF "running" = "running" THEN "running" ELSE record[slot[s].exec].status
          /\ IF "running" = "running"
             THEN record'[slot[s].exec].revision = record[slot[s].exec].revision + 1
                  /\ record'[slot[s].exec].interrupt = record[slot[s].exec].interrupt
             ELSE record' = record
          /\ \A x \in Execs \ {slot[s].exec} : record'[x] = record[x]
      BY <2>1, <2>2, <2>3, ObservedEffect
    <2>5. Moved(e)
      BY <2>2, <2>4 DEF Moved, Follows, Active
    <2>6. QED
      BY <2>2, <2>5 DEF Moves
  <1>2. CASE GuardBegins(s) /\ guard[s].asked
    BY <1>2 DEF GuardBegins, registryVars, Moves, Quiet
  <1>3. CASE Settled(s)
    <2>1. guard[s].task = "settling" /\ Observed(s, guard[s].candidate)
      BY <1>3 DEF Settled
    <2>2. guard[s].candidate # "running"
      BY <2>1 DEF RegistryInv, Guards, GuardOK, Ended
    <2>3. QED
      BY <2>1, <2>2 DEF Observed, Moves, Quiet
  <1>4. CASE SettleFails(s) \/ \E o \in Ended : WorkEnds(s, o)
    BY <1>4 DEF SettleFails, WorkEnds, registryVars, Moves, Quiet
  <1>5. QED
    BY <1>1, <1>2, <1>3, <1>4

\* Interrupts, retries and the end of a binding: an interrupt is a revision of its own.
LEMMA BindingMoves ==
    ASSUME RegistryInv, NEW s \in Sessions,
           \/ Interrupt(s) \/ RetrySettlement(s) \/ CloseBinding(s) \/ CloseEnds(s)
           \/ Reopen(s)
    PROVE  Moves
  <1>1. ASSUME slot[s].exec # 0, RequestInterrupt(s), UNCHANGED <<last, ledger>>
        PROVE  Moves
    <2> DEFINE e == slot[s].exec
               new == [record[e] EXCEPT !.interrupt = TRUE]
    <2>1. slot[s].task # "idle"
      BY <1>1 DEF RegistryInv, Slots, SlotOK
    <2>2. e \in Execs /\ record[e].status \in Active /\ record[e] \in RecordType
      BY <2>1, InSlot, Types DEF RegistryInv
    <2>3. CASE UNCHANGED record
      BY <1>1, <2>3 DEF Moves, Quiet
    <2>4. CASE PublishNext(s, e, new)
      <3>1. new \in RecordType /\ new.status = record[e].status /\ new.interrupt
            /\ new.revision = record[e].revision
        BY <2>2 DEF RecordType
      <3> HIDE DEF new
      <3>2. /\ record'[e] = [new EXCEPT !.revision = @ + 1]
            /\ \A x \in Execs \ {e} : record'[x] = record[x]
        BY <2>2, <2>4, <3>1, PublishNextKeeps DEF RegistryInv
      <3>3. /\ record'[e].status = new.status /\ record'[e].interrupt = new.interrupt
            /\ record'[e].revision = new.revision + 1
        BY <3>1, <3>2 DEF RecordType
      <3>4. Moved(e)
        BY <1>1, <2>2, <3>1, <3>2, <3>3 DEF Moved, Follows
      <3>5. QED
        BY <2>2, <3>4 DEF Moves
    <2>5. QED
      BY <1>1, <2>3, <2>4 DEF RequestInterrupt
  <1>2. CASE Interrupt(s)
    BY <1>1, <1>2 DEF Interrupt
  <1>3. CASE CloseBinding(s)
    <2>1. CASE slot[s].exec = 0
      BY <1>3, <2>1 DEF CloseBinding, Moves, Quiet
    <2>2. CASE slot[s].exec # 0
      BY <1>1, <1>3, <2>2 DEF CloseBinding
    <2>3. QED
      BY <2>1, <2>2
  <1>4. CASE RetrySettlement(s) \/ CloseEnds(s) \/ Reopen(s)
    BY <1>4 DEF RetrySettlement, CloseEnds, Reopen, registryVars, Moves, Quiet
  <1>5. QED
    BY <1>2, <1>3, <1>4

\* The acceptance of an execution is the only other change of a record.
LEMMA StepMoves ==
    ASSUME RegistryInv, [Next]_vars
    PROVE  \/ Moves
           \/ \E s \in Sessions, i \in Submissions \cup {Legacy}, t \in Texts : Accept(s, i, t)
  <1>1. CASE Submits
    BY <1>1 DEF Submits, Resubmit, registryVars, Moves, Quiet
  <1>2. CASE Fence \/ (\E n \in Execs : Expire(n)) \/ UNCHANGED vars
    BY <1>2 DEF Fence, Expire, vars, registryVars, Moves, Quiet
  <1>3. ASSUME NEW s \in Sessions,
               \/ DriveBegins(s) \/ DriveEnds(s) \/ DriveCancelled(s) \/ RetryBegins(s)
               \/ GuardBegins(s) \/ Settled(s) \/ SettleFails(s)
               \/ \E o \in Ended : WorkEnds(s, o)
               \/ Interrupt(s) \/ RetrySettlement(s)
               \/ CloseBinding(s) \/ CloseEnds(s) \/ Reopen(s)
        PROVE  Moves
    BY <1>3, DriveMoves, GuardMoves, BindingMoves
  <1>4. QED
    BY <1>1, <1>2, <1>3 DEF Next

\* The registry implements what it promises of submissions: a retried one moves nothing,
\* and every published state of its execution is a step of it.
THEOREM RegistryKeepsSubmissions == Spec => KeepsSubmissions
  <1>1. Init => Promise!PhasesInit
    BY DEF Init, Promise!PhasesInit, Phase
  <1>2. RegistryInv /\ [Next]_vars => [Promise!PhasesNext]_Phase
    <2> SUFFICES ASSUME RegistryInv, [Next]_vars PROVE Promise!PhasesNext \/ Phase' = Phase
      OBVIOUS
    <2>1. CASE Quiet
      BY <2>1 DEF Quiet, Phase
    <2>2. CASE \E e \in Execs : Moved(e)
      BY <2>2, OneMoves
    <2>3. CASE \E s \in Sessions, i \in Submissions \cup {Legacy}, t \in Texts : Accept(s, i, t)
      BY <2>3, AcceptMoves
    <2>4. QED
      BY <2>1, <2>2, <2>3, StepMoves DEF Moves
  <1>3. QED
    BY <1>1, <1>2, RegistryHolds, PTL DEF Spec, KeepsSubmissions, Promise!SubmissionsSpec

-----------------------------------------------------------------------------
\* What clients see of an execution goes forward.

\* A record that was not published yet is as Init left it.
Fresh == \A e \in Execs : e > last => record[e].revision = 0 /\ ~record[e].interrupt

LEMMA FreshHolds == Spec => []Fresh
  <1>1. Init => Fresh
    BY DEF Init, Fresh
  <1>2. RegistryInv /\ Fresh /\ [Next]_vars => Fresh'
    <2> SUFFICES ASSUME RegistryInv, Fresh, [Next]_vars PROVE Fresh'
      OBVIOUS
    <2>1. CASE Quiet
      BY <2>1 DEF Quiet, Fresh
    <2>2. ASSUME NEW e \in Execs, Moved(e) PROVE Fresh'
      <3>1. ~(e > last)
        BY <2>2, StatusesAre DEF Moved, RegistryInv, Numbered
      <3>2. QED
        BY <2>2, <3>1 DEF Moved, Fresh
    <2>3. ASSUME NEW s \in Sessions, NEW i \in Submissions \cup {Legacy}, NEW t \in Texts,
                 Accept(s, i, t)
          PROVE  Fresh'
      <3>1. last' = last + 1 /\ \A x \in Execs \ {last + 1} : record'[x] = record[x]
        BY <2>3, Types DEF Accept, Publish, RegistryInv
      <3>2. last \in Nat /\ \A x \in Execs : x > last + 1 => x > last /\ x # last + 1
        BY Types, LimitsAssumption DEF RegistryInv, Execs
      <3>3. QED
        BY <3>1, <3>2 DEF Fresh
    <2>4. QED
      BY <2>1, <2>2, <2>3, StepMoves DEF Moves
  <1>3. QED
    BY <1>1, <1>2, RegistryHolds, PTL DEF Spec

\* What PublishedGoesForward asks of one step.
Forward ==
    \A e \in Execs :
        LET old == record[e]
            new == record'[e]
        IN  new # old => /\ new.revision = old.revision + 1
                         /\ old.status \notin Ended
                         /\ old.interrupt => new.interrupt
                         /\ new.status = "accepted" => old.status \in {"none", "accepted"}

\* A published state has a revision of its own, an ended one stays and an interrupt is
\* not taken back, whatever order the registry's and the guard's tasks run in.
THEOREM StatesGoForward == Spec => PublishedGoesForward
  <1>1. RegistryInv /\ Fresh /\ [Next]_vars => Forward
    <2> SUFFICES ASSUME RegistryInv, Fresh, [Next]_vars PROVE Forward
      OBVIOUS
    <2>1. CASE Quiet
      BY <2>1 DEF Quiet, Forward
    <2>2. ASSUME NEW e \in Execs, Moved(e) PROVE Forward
      BY <2>2, StatusesAre DEF Moved, Follows, Forward
    <2>3. ASSUME NEW s \in Sessions, NEW i \in Submissions \cup {Legacy}, NEW t \in Texts,
                 Accept(s, i, t)
          PROVE  Forward
      <3> DEFINE e == last + 1
                 new == [session |-> s, sub |-> i, text |-> t, status |-> "accepted",
                         revision |-> 1, interrupt |-> FALSE]
      <3>1. record' = [record EXCEPT ![e] = new] /\ last < MaxExecs
        BY <2>3 DEF Accept, Publish
      <3>2. last \in Nat /\ MaxExecs \in Nat /\ e \in Execs /\ e > last
        BY <3>1, Types, LimitsAssumption DEF RegistryInv, Execs
      <3>3. record[e].status = "none" /\ record[e].revision = 0 /\ ~record[e].interrupt
        BY <3>2 DEF RegistryInv, Numbered, Fresh
      <3>4. new.revision = 0 + 1
        OBVIOUS
      <3> HIDE DEF e, new
      <3>5. record'[e] = new /\ \A x \in Execs \ {e} : record'[x] = record[x]
        BY <3>1, <3>2, Types DEF RegistryInv
      <3>6. QED
        BY <3>3, <3>4, <3>5, StatusesAre DEF Forward
    <2>4. QED
      BY <2>1, <2>2, <2>3, StepMoves DEF Moves
  <1>2. QED
    BY <1>1, RegistryHolds, FreshHolds, PTL DEF Spec, PublishedGoesForward, Forward

-----------------------------------------------------------------------------
\* What clients read of a binding is what its Product says.

\* While work runs, the guard's observation is the last the registry was told.
ViewOK(s) ==
    /\ view[s].active = slot[s].exec
    /\ slot[s].exec = 0 \/ record[slot[s].exec].status = "accepted" =>
          view[s].quiescent = guard[s].obs
    /\ slot[s].exec # 0 /\ record[slot[s].exec].status = "running" =>
          guard[s].obs = [exec |-> slot[s].exec, status |-> slot[s].seen]

Views == \A s \in Sessions : ViewOK(s)

\* A step that concerns one session and one execution of it, new or in its slot.
LEMMA ViewLocal ==
    ASSUME RegistryInv, Views, NEW s \in Sessions, NEW e, e = slot[s].exec \/ e = last + 1,
           \A u \in Sessions \ {s} : /\ slot'[u] = slot[u] /\ view'[u] = view[u]
                                     /\ guard'[u].obs = guard[u].obs,
           \A x \in Execs \ {e} : record'[x] = record[x],
           ViewOK(s)'
    PROVE  Views'
  <1> SUFFICES ASSUME NEW u \in Sessions \ {s} PROVE ViewOK(u)'
    BY DEF Views
  <1>1. slot[u].exec \in 0..MaxExecs /\ slot[u].exec <= last /\ last \in Nat
    <2>1. slot[u] \in SlotType /\ last \in 0..MaxExecs
      BY Types DEF RegistryInv
    <2>2. QED
      BY <2>1, LimitsAssumption DEF SlotType, RegistryInv, Numbered
  <1>2. slot[u].exec # 0 => slot[u].exec \in Execs
    BY <1>1 DEF Execs
  <1>3. slot[u].exec # 0 => slot[u].exec # e
    <2>1. CASE e = slot[s].exec
      BY <2>1, Apart
    <2>2. CASE e = last + 1
      BY <1>1, <2>2
    <2>3. QED
      BY <2>1, <2>2
  <1>4. /\ slot'[u] = slot[u] /\ view'[u] = view[u] /\ guard'[u].obs = guard[u].obs
        /\ slot[u].exec # 0 => record'[slot[u].exec] = record[slot[u].exec]
    BY <1>2, <1>3
  <1>5. QED
    BY <1>4 DEF Views, ViewOK

\* A step that leaves records, views and observations alone.
LEMMA ViewQuiet ==
    ASSUME Views, UNCHANGED <<record, view>>,
           \A u \in Sessions : /\ slot'[u].exec = slot[u].exec /\ slot'[u].seen = slot[u].seen
                               /\ guard'[u].obs = guard[u].obs
    PROVE  Views'
  BY DEF Views, ViewOK

LEMMA PublishShows ==
    ASSUME RegistryInv, NEW s \in Sessions, NEW e, NEW new, NEW quiescent,
           Publish(s, e, new, quiescent)
    PROVE  /\ view'[s].active = (IF new.status \in Ended THEN 0 ELSE e)
           /\ view'[s].quiescent = quiescent
           /\ \A u \in Sessions \ {s} : view'[u] = view[u]
  <1>1. view \in [Sessions -> ViewType]
    BY Types DEF RegistryInv
  <1>2. view' = [view EXCEPT ![s] = [revision |-> view[s].revision + 1,
                                     active |-> IF new.status \in Ended THEN 0 ELSE e,
                                     quiescent |-> quiescent]]
    BY DEF Publish
  <1>3. QED
    BY <1>1, <1>2

LEMMA PublishNextShows ==
    ASSUME RegistryInv, NEW s \in Sessions, NEW e, NEW new \in RecordType, PublishNext(s, e, new)
    PROVE  /\ view'[s].active = (IF new.status \in Ended THEN 0 ELSE e)
           /\ view'[s].quiescent = view[s].quiescent
           /\ \A u \in Sessions \ {s} : view'[u] = view[u]
  <1> DEFINE next == [new EXCEPT !.revision = @ + 1]
  <1>1. Publish(s, e, next, view[s].quiescent)
    BY DEF PublishNext
  <1>2. next.status = new.status
    BY DEF RecordType
  <1> HIDE DEF next
  <1>3. QED
    BY <1>1, <1>2, PublishShows

\* The end of an execution leaves the view with the observation of its guard.
LEMMA FinishShows ==
    ASSUME RegistryInv, Views, NEW s \in Sessions, slot[s].task # "idle", NEW outcome \in Ended,
           Finish(s, outcome), UNCHANGED guard
    PROVE  Views'
  <1> DEFINE e == slot[s].exec
             new == [record[e] EXCEPT !.status = outcome, !.revision = @ + 1]
  <1>1. e \in Execs /\ e # 0 /\ record[e].status \in {"accepted", "running"} /\ record[e] \in RecordType
    BY InSlot, StatusesAre, Types DEF Execs, RegistryInv
  <1>2. Quiescent(s) = guard[s].obs
    BY <1>1 DEF Quiescent, Views, ViewOK
  <1>3. /\ Publish(s, e, new, Quiescent(s)) /\ slot' = [slot EXCEPT ![s] = NoSlot]
    BY DEF Finish
  <1>4. new.status = outcome
    BY <1>1 DEF RecordType
  <1>5. \A x \in Execs \ {e} : record'[x] = record[x]
    BY FinishEffect
  <1> HIDE DEF new
  <1>6. /\ view'[s].active = 0 /\ view'[s].quiescent = guard[s].obs
        /\ \A u \in Sessions \ {s} : view'[u] = view[u]
    BY <1>2, <1>3, <1>4, PublishShows
  <1>7. slot'[s].exec = 0 /\ \A u \in Sessions \ {s} : slot'[u] = slot[u]
    BY <1>3, Types DEF RegistryInv, NoSlot
  <1>8. ViewOK(s)'
    BY <1>6, <1>7 DEF ViewOK
  <1>9. QED
    BY <1>5, <1>6, <1>7, <1>8, ViewLocal

\* Reading one field of the slot or of the guard after another was written.
LEMMA SlotTask ==
    ASSUME RegistryInv, NEW s \in Sessions, NEW task,
           \/ slot' = [slot EXCEPT ![s].task = task]
           \/ slot' = [slot EXCEPT ![s].task = task, ![s].started = TRUE]
    PROVE  \A u \in Sessions : slot'[u].exec = slot[u].exec /\ slot'[u].seen = slot[u].seen
  <1>1. slot \in [Sessions -> SlotType] /\ \A u \in Sessions : slot[u] \in SlotType
    BY Types DEF RegistryInv
  <1>2. QED
    BY <1>1 DEF SlotType

LEMMA AskedObserves ==
    ASSUME RegistryInv, NEW s \in Sessions, GuardAsked(s) \/ UNCHANGED guard
    PROVE  \A u \in Sessions : guard'[u].obs = guard[u].obs
  <1>1. guard \in [Sessions -> GuardType] /\ \A u \in Sessions : guard[u] \in GuardType
    BY Types DEF RegistryInv
  <1>2. QED
    BY <1>1 DEF GuardAsked, GuardType

LEMMA DriveShows ==
    ASSUME RegistryInv, Views, NEW s \in Sessions,
           DriveBegins(s) \/ DriveEnds(s) \/ DriveCancelled(s) \/ RetryBegins(s)
    PROVE  Views'
  <1>1. guard \in [Sessions -> GuardType] /\ \A u \in Sessions : guard[u] \in GuardType
    BY Types DEF RegistryInv
  <1>2. "interrupted" \in Ended /\ "failed" \in Ended
    BY DEF Ended
  <1>3. ASSUME Fails(s), UNCHANGED guard PROVE Views'
    BY <1>3, SlotTask, ViewQuiet DEF Fails
  <1>4. CASE DriveBegins(s)
    <2>1. slot[s].task # "idle"
      BY <1>4 DEF DriveBegins
    <2>2. CASE (Finish(s, "interrupted") \/ Finish(s, "failed")) /\ UNCHANGED guard
      BY <1>2, <2>1, <2>2, FinishShows
    <2>3. CASE /\ StartGuard(s)
               /\ slot' = [slot EXCEPT ![s].task = "waiting", ![s].started = TRUE]
               /\ UNCHANGED <<record, view>>
      <3>1. \A u \in Sessions : slot'[u].exec = slot[u].exec /\ slot'[u].seen = slot[u].seen
        BY <2>3, SlotTask
      <3>2. \A u \in Sessions : guard'[u].obs = guard[u].obs
        BY <1>1, <2>3 DEF StartGuard, NewGuard
      <3>3. QED
        BY <2>3, <3>1, <3>2, ViewQuiet
    <2>4. QED
      BY <1>4, <2>2, <2>3 DEF DriveBegins
  <1>5. CASE DriveEnds(s)
    <2>1. slot[s].task # "idle" /\ UNCHANGED guard
      BY <1>5 DEF DriveEnds
    <2>2. CASE guard[s].task = "done" /\ Finish(s, guard[s].candidate)
      <3>1. guard[s].candidate \in Ended
        BY <2>2 DEF RegistryInv, Guards, GuardOK
      <3>2. QED
        BY <2>1, <2>2, <3>1, FinishShows
    <2>3. QED
      BY <1>3, <1>5, <2>1, <2>2 DEF DriveEnds
  <1>6. CASE DriveCancelled(s)
    BY <1>3, <1>6 DEF DriveCancelled
  <1>7. CASE RetryBegins(s)
    <2>1. slot[s].task # "idle"
      BY <1>7 DEF RetryBegins
    <2>2. CASE Finish(s, "interrupted") /\ UNCHANGED guard
      BY <1>2, <2>1, <2>2, FinishShows
    <2>3. CASE /\ guard' = [guard EXCEPT ![s].task = IF @ = "debt" THEN "settling" ELSE @]
               /\ slot' = [slot EXCEPT ![s].task = "waiting"]
               /\ UNCHANGED <<record, view>>
      <3>1. \A u \in Sessions : slot'[u].exec = slot[u].exec /\ slot'[u].seen = slot[u].seen
        BY <2>3, SlotTask
      <3>2. \A u \in Sessions : guard'[u].obs = guard[u].obs
        BY <1>1, <2>3 DEF GuardType
      <3>3. QED
        BY <2>3, <3>1, <3>2, ViewQuiet
    <2>4. QED
      BY <1>7, <2>2, <2>3 DEF RetryBegins
  <1>8. QED
    BY <1>4, <1>5, <1>6, <1>7

\* What the guard tells of its work is what it then says itself.
LEMMA ObservedShows ==
    ASSUME RegistryInv, Views, NEW s \in Sessions, slot[s].task # "idle",
           guard[s].exec = slot[s].exec, NEW seen \in {"running"} \cup Ended, Observed(s, seen),
           seen # "running" => record[slot[s].exec].status = "running",
           guard'[s].obs = [exec |-> guard[s].exec, status |-> seen],
           \A u \in Sessions \ {s} : guard'[u] = guard[u]
    PROVE  Views'
  <1> DEFINE e == slot[s].exec
             new == [record[e] EXCEPT !.status = "running"]
  <1>1. e \in Execs /\ e # 0 /\ slot \in [Sessions -> SlotType] /\ slot[s] \in SlotType
        /\ record[e] \in RecordType
    BY InSlot, Types DEF Execs, RegistryInv
  <1>2. slot' = [slot EXCEPT ![s].seen = seen]
    BY DEF Observed
  <1>3. /\ slot'[s].exec = e /\ slot'[s].seen = seen
        /\ \A u \in Sessions \ {s} : slot'[u] = slot[u]
    BY <1>1, <1>2 DEF SlotType
  <1>4. /\ view'[s].active = e
        /\ \A u \in Sessions \ {s} : view'[u] = view[u]
        /\ \A x \in Execs \ {e} : record'[x] = record[x]
        /\ record'[e].status = "running"
    <2>1. CASE seen = "running"
      <3>1. PublishNext(s, e, new)
        BY <2>1 DEF Observed
      <3>2. /\ record'[e].status = IF seen = "running" THEN "running" ELSE record[e].status
            /\ \A x \in Execs \ {e} : record'[x] = record[x]
        BY ObservedEffect
      <3>3. new \in RecordType /\ new.status = "running" /\ "running" \notin Ended
        BY <1>1 DEF RecordType, Ended, Statuses, Active
      <3> HIDE DEF new
      <3>4. view'[s].active = e /\ \A u \in Sessions \ {s} : view'[u] = view[u]
        BY <3>1, <3>3, PublishNextShows
      <3>5. QED
        BY <2>1, <3>2, <3>4
    <2>2. CASE seen # "running"
      <3>1. UNCHANGED <<record, view>>
        BY <2>2 DEF Observed
      <3>2. QED
        BY <2>2, <3>1 DEF Views, ViewOK
    <2>3. QED
      BY <2>1, <2>2
  <1>5. ViewOK(s)'
    BY <1>1, <1>3, <1>4 DEF ViewOK
  <1>6. QED
    BY <1>3, <1>4, <1>5, ViewLocal

LEMMA GuardShows ==
    ASSUME RegistryInv, Views, NEW s \in Sessions,
           GuardBegins(s) \/ Settled(s) \/ SettleFails(s) \/ \E o \in Ended : WorkEnds(s, o)
    PROVE  Views'
  <1>1. guard \in [Sessions -> GuardType] /\ \A u \in Sessions : guard[u] \in GuardType
    BY Types DEF RegistryInv
  <1>2. CASE GuardBegins(s) /\ ~guard[s].asked
    <2>1. guard[s].task = "beginning" /\ Unsettled(s) /\ Observed(s, "running")
      BY <1>2 DEF GuardBegins, Unsettled
    <2>2. slot[s].task # "idle" /\ guard[s].exec = slot[s].exec
      BY <2>1, AtWork
    <2>3. guard' = [guard EXCEPT ![s].status = "running", ![s].task = "running",
                                 ![s].obs = [exec |-> guard[s].exec, status |-> "running"]]
      BY <1>2 DEF GuardBegins
    <2>4. /\ guard'[s].obs = [exec |-> guard[s].exec, status |-> "running"]
          /\ \A u \in Sessions \ {s} : guard'[u] = guard[u]
      BY <1>1, <2>3 DEF GuardType
    <2>5. QED
      BY <2>1, <2>2, <2>4, ObservedShows
  <1>3. CASE GuardBegins(s) /\ guard[s].asked
    <2>1. /\ guard' = [guard EXCEPT ![s].status = "interrupted", ![s].task = "done",
                                    ![s].candidate = "interrupted"]
          /\ UNCHANGED <<record, view, slot>>
      BY <1>3 DEF GuardBegins, registryVars
    <2>2. \A u \in Sessions : guard'[u].obs = guard[u].obs
      BY <1>1, <2>1 DEF GuardType
    <2>3. QED
      BY <2>1, <2>2, ViewQuiet
  <1>4. CASE Settled(s)
    <2> DEFINE c == guard[s].candidate
    <2>1. /\ guard[s].task = "settling" /\ Unsettled(s) /\ Observed(s, c)
          /\ guard' = [guard EXCEPT ![s].status = c, ![s].task = "done",
                                    ![s].obs = [exec |-> guard[s].exec, status |-> c]]
      BY <1>4 DEF Settled, Unsettled
    <2>2. /\ slot[s].task # "idle" /\ guard[s].exec = slot[s].exec
          /\ record[guard[s].exec].status = "running"
      BY <2>1, AtWork
    <2>3. c \in Ended
      BY <2>1 DEF RegistryInv, Guards, GuardOK
    <2>4. /\ guard'[s].obs = [exec |-> guard[s].exec, status |-> c]
          /\ \A u \in Sessions \ {s} : guard'[u] = guard[u]
      BY <1>1, <2>1 DEF GuardType
    <2>5. QED
      BY <2>1, <2>2, <2>3, <2>4, ObservedShows
  <1>5. CASE SettleFails(s)
    <2>1. guard' = [guard EXCEPT ![s].task = "debt"] /\ UNCHANGED <<record, view, slot>>
      BY <1>5 DEF SettleFails, registryVars
    <2>2. \A u \in Sessions : guard'[u].obs = guard[u].obs
      BY <1>1, <2>1 DEF GuardType
    <2>3. QED
      BY <2>1, <2>2, ViewQuiet
  <1>6. ASSUME NEW o \in Ended, WorkEnds(s, o) PROVE Views'
    <2>1. /\ guard' = [guard EXCEPT ![s].task = "settling", ![s].candidate = o]
          /\ UNCHANGED <<record, view, slot>>
      BY <1>6 DEF WorkEnds, registryVars
    <2>2. \A u \in Sessions : guard'[u].obs = guard[u].obs
      BY <1>1, <2>1 DEF GuardType
    <2>3. QED
      BY <2>1, <2>2, ViewQuiet
  <1>7. QED
    BY <1>2, <1>3, <1>4, <1>5, <1>6

LEMMA BindingShows ==
    ASSUME RegistryInv, Views, NEW s \in Sessions,
           Interrupt(s) \/ RetrySettlement(s) \/ CloseBinding(s) \/ CloseEnds(s) \/ Reopen(s)
    PROVE  Views'
  <1>1. slot \in [Sessions -> SlotType] /\ \A u \in Sessions : slot[u] \in SlotType
    BY Types DEF RegistryInv
  <1>2. ASSUME slot[s].exec # 0, RequestInterrupt(s),
               \A u \in Sessions : slot'[u].exec = slot[u].exec /\ slot'[u].seen = slot[u].seen,
               \A u \in Sessions \ {s} : slot'[u] = slot[u]
        PROVE  Views'
    <2> DEFINE e == slot[s].exec
               new == [record[e] EXCEPT !.interrupt = TRUE]
    <2>1. \A u \in Sessions : guard'[u].obs = guard[u].obs
      BY <1>2, AskedObserves DEF RequestInterrupt
    <2>2. CASE UNCHANGED <<record, view>>
      BY <1>2, <2>1, <2>2, ViewQuiet
    <2>3. CASE PublishNext(s, e, new)
      <3>1. slot[s].task # "idle"
        BY <1>2 DEF RegistryInv, Slots, SlotOK
      <3>2. /\ e \in Execs /\ record[e].status \notin Ended /\ record[e] \in RecordType
        BY <3>1, InSlot, StatusesAre, Types DEF RegistryInv
      <3>3. new \in RecordType /\ new.status = record[e].status
        BY <3>2 DEF RecordType
      <3> HIDE DEF new
      <3>4. /\ record'[e] = [new EXCEPT !.revision = @ + 1]
            /\ \A x \in Execs \ {e} : record'[x] = record[x]
        BY <2>3, <3>2, <3>3, PublishNextKeeps DEF RegistryInv
      <3>5. [new EXCEPT !.revision = @ + 1].status = record[e].status
        BY <3>3 DEF RecordType
      <3>6. /\ view'[s].active = e /\ view'[s].quiescent = view[s].quiescent
            /\ \A u \in Sessions \ {s} : view'[u] = view[u]
        BY <2>3, <3>2, <3>3, PublishNextShows
      <3>7. ViewOK(s)'
        <4>1. /\ slot'[s].exec = e /\ slot'[s].seen = slot[s].seen /\ e # 0
              /\ record'[e].status = record[e].status /\ guard'[s].obs = guard[s].obs
          BY <1>2, <2>1, <3>4, <3>5
        <4>2. QED
          BY <3>6, <4>1 DEF Views, ViewOK
      <3>8. QED
        BY <1>2, <2>1, <3>4, <3>6, <3>7, ViewLocal
    <2>4. QED
      BY <1>2, <2>2, <2>3 DEF RequestInterrupt
  <1>3. CASE Interrupt(s)
    BY <1>2, <1>3 DEF Interrupt
  <1>4. ASSUME Rejoined(s)
        PROVE  /\ \A u \in Sessions : slot'[u].exec = slot[u].exec /\ slot'[u].seen = slot[u].seen
               /\ \A u \in Sessions \ {s} : slot'[u] = slot[u]
    BY <1>1, <1>4 DEF Rejoined, SlotType
  <1>5. CASE RetrySettlement(s)
    <2>1. Rejoined(s) /\ UNCHANGED <<record, view, guard>>
      BY <1>5 DEF RetrySettlement
    <2>2. QED
      BY <1>4, <2>1, ViewQuiet
  <1>6. CASE CloseBinding(s)
    <2>1. CASE slot[s].exec = 0
      BY <1>6, <2>1, ViewQuiet DEF CloseBinding
    <2>2. CASE slot[s].exec # 0
      BY <1>2, <1>4, <1>6, <2>2 DEF CloseBinding
    <2>3. QED
      BY <2>1, <2>2
  <1>7. CASE CloseEnds(s)
    BY <1>7, ViewQuiet DEF CloseEnds, registryVars
  <1>8. CASE Reopen(s)
    <2>1. /\ close[s] = "closed" /\ guard' = [guard EXCEPT ![s] = NewGuard]
          /\ view' = [view EXCEPT ![s] = NewView] /\ UNCHANGED <<record, slot>>
      BY <1>8 DEF Reopen
    <2>2. slot[s].exec = 0
      BY <2>1 DEF RegistryInv, Slots, SlotOK
    <2>3. /\ guard'[s] = NewGuard /\ view'[s] = NewView
          /\ \A u \in Sessions \ {s} : guard'[u] = guard[u] /\ view'[u] = view[u]
      BY <2>1, Types DEF RegistryInv
    <2>4. NewView.active = 0 /\ NewView.quiescent = NewGuard.obs
      BY DEF NewView, NewGuard
    <2>5. ViewOK(s)'
      BY <2>1, <2>2, <2>3, <2>4 DEF ViewOK
    <2>6. QED
      BY <2>1, <2>3, <2>5, ViewLocal
  <1>9. QED
    BY <1>3, <1>5, <1>6, <1>7, <1>8

LEMMA AcceptShows ==
    ASSUME RegistryInv, Views, NEW s \in Sessions, NEW i \in Submissions \cup {Legacy},
           NEW t \in Texts, Accept(s, i, t)
    PROVE  Views'
  <1> DEFINE e == last + 1
             new == [session |-> s, sub |-> i, text |-> t, status |-> "accepted",
                     revision |-> 1, interrupt |-> FALSE]
             free == [NoSlot EXCEPT !.exec = e, !.task = "starting"]
  <1>1. /\ slot[s].exec = 0 /\ last < MaxExecs /\ Publish(s, e, new, view[s].quiescent)
        /\ slot' = [slot EXCEPT ![s] = free] /\ UNCHANGED guard
    BY DEF Accept, Admitted
  <1>2. last \in Nat /\ MaxExecs \in Nat /\ e \in Execs /\ e # 0
    BY <1>1, Types, LimitsAssumption DEF RegistryInv, Execs
  <1>3. new.status = "accepted" /\ "accepted" \notin Ended /\ free.exec = e
    BY DEF NoSlot, Ended
  <1>4. record' = [record EXCEPT ![e] = new]
    BY <1>1 DEF Publish
  <1> HIDE DEF e, new, free
  <1>5. /\ record'[e] = new /\ \A x \in Execs \ {e} : record'[x] = record[x]
    BY <1>2, <1>4, Types DEF RegistryInv
  <1>6. slot'[s] = free /\ \A u \in Sessions \ {s} : slot'[u] = slot[u]
    BY <1>1, Types DEF RegistryInv
  <1>7. /\ view'[s].active = e /\ view'[s].quiescent = view[s].quiescent
        /\ \A u \in Sessions \ {s} : view'[u] = view[u]
    BY <1>1, <1>3, PublishShows
  <1>8. view[s].quiescent = guard[s].obs
    BY <1>1 DEF Views, ViewOK
  <1>9. ViewOK(s)'
    BY <1>1, <1>2, <1>3, <1>5, <1>6, <1>7, <1>8 DEF ViewOK
  <1>10. e = last + 1
    BY DEF e
  <1>11. QED
    BY <1>1, <1>5, <1>6, <1>7, <1>9, <1>10, ViewLocal

LEMMA ViewsHold == Spec => []Views
  <1>1. Init => Views
    BY DEF Init, Views, ViewOK, NoSlot, NewView, NewGuard
  <1>2. RegistryInv /\ Views /\ [Next]_vars => Views'
    <2> SUFFICES ASSUME RegistryInv, Views, [Next]_vars PROVE Views'
      OBVIOUS
    <2>1. CASE Submits
      <3>1. ASSUME NEW s \in Sessions, NEW t \in Texts, NEW i \in Submissions, Resubmit(s, i, t)
            PROVE  Views'
        BY <3>1, ViewQuiet DEF Resubmit, registryVars
      <3>2. QED
        BY <2>1, <3>1, AcceptShows DEF Submits
    <2>2. CASE Fence \/ (\E n \in Execs : Expire(n)) \/ UNCHANGED vars
      BY <2>2, ViewQuiet DEF Fence, Expire, vars, registryVars
    <2>3. ASSUME NEW s \in Sessions,
                 \/ DriveBegins(s) \/ DriveEnds(s) \/ DriveCancelled(s) \/ RetryBegins(s)
                 \/ GuardBegins(s) \/ Settled(s) \/ SettleFails(s)
                 \/ \E o \in Ended : WorkEnds(s, o)
                 \/ Interrupt(s) \/ RetrySettlement(s)
                 \/ CloseBinding(s) \/ CloseEnds(s) \/ Reopen(s)
          PROVE  Views'
      BY <2>3, DriveShows, GuardShows, BindingShows
    <2>4. QED
      BY <2>1, <2>2, <2>3 DEF Next
  <1>3. QED
    BY <1>1, <1>2, RegistryHolds, PTL DEF Spec

\* What a client reads of a binding is what its Product would say: through refused
\* starts, failed settlements, cancelled tasks and reopened bindings.
THEOREM ViewsAreObserved == Spec => []ViewIsObserved
  <1>1. ASSUME Views, NEW s \in Sessions
        PROVE  /\ view[s].active = slot[s].exec
               /\ view[s].active = 0 \/ record[view[s].active].status = "accepted" =>
                     view[s].quiescent = guard[s].obs
               /\ view[s].active # 0 /\ record[view[s].active].status = "running" =>
                     guard[s].obs.exec = view[s].active
    <2>1. /\ view[s].active = slot[s].exec
          /\ slot[s].exec = 0 \/ record[slot[s].exec].status = "accepted" =>
                view[s].quiescent = guard[s].obs
          /\ slot[s].exec # 0 /\ record[slot[s].exec].status = "running" =>
                guard[s].obs = [exec |-> slot[s].exec, status |-> slot[s].seen]
      BY <1>1 DEF Views, ViewOK
    <2>2. [exec |-> slot[s].exec, status |-> slot[s].seen].exec = slot[s].exec
      OBVIOUS
    <2>3. QED
      BY <2>1, <2>2
  <1>2. Views => ViewIsObserved
    BY <1>1 DEF ViewIsObserved
  <1>3. QED
    BY <1>2, ViewsHold, PTL

-----------------------------------------------------------------------------
(***************************************************************************)
(* The recursive functions of the buffer and of the client, one event at a *)
(* time.                                                                   *)
(***************************************************************************)

\* The order < of the naturals, as a set of pairs.
Less == {pair \in Nat \X Nat : pair[1] < pair[2]}

\* Induction over the numbers up to n, for a set of them.
LEMMA UpTo ==
    ASSUME NEW n \in Nat, NEW S, 0 \in S, \A m \in 0..(n - 1) : m \in S => m + 1 \in S
    PROVE  \A m \in 0..n : m \in S
  <1> SUFFICES ASSUME NEW k \in 0..n, k \notin S PROVE FALSE
    OBVIOUS
  <1> DEFINE missed == {m \in 0..n : m \notin S}
  <1>1. missed \subseteq Nat /\ missed # {}
    OBVIOUS
  <1>2. IsWellFoundedOn(Less, Nat)
    BY NatLessThanWellFounded, Zenon DEF OpToRel, Less
  <1> HIDE DEF missed
  <1>3. PICK d \in missed : \A e \in missed : ~(<<e, d>> \in Less)
    BY <1>1, <1>2, WFMin, Zenon
  <1>4. \A e \in missed : ~(e < d)
    BY <1>1, <1>3 DEF Less
  <1>5. d \in 0..n /\ d \notin S /\ d # 0
    BY <1>3 DEF missed
  <1>6. d - 1 \in 0..(n - 1) /\ d - 1 < d /\ (d - 1) + 1 = d
    BY <1>5
  <1>7. d - 1 \in S
    BY <1>4, <1>5, <1>6 DEF missed
  <1>8. QED
    BY <1>5, <1>6, <1>7

\* f is what the first n events make of the buffer b, one after the other.
Pushes(b, events, n, f) ==
    f = [m \in 0..n |-> IF m = 0 THEN b ELSE Pushed(f[m - 1], events[m])]

LEMMA PushesOnce ==
    ASSUME NEW b, NEW events, NEW n \in Nat, NEW f, NEW g,
           Pushes(b, events, n, f), Pushes(b, events, n, g)
    PROVE  f[n] = g[n]
  <1> DEFINE same == {m \in 0..n : f[m] = g[m]}
  <1>1. 0 \in same
    BY DEF Pushes
  <1>2. ASSUME NEW m \in 0..(n - 1), m \in same PROVE m + 1 \in same
    <2>1. m + 1 \in 0..n /\ m + 1 # 0 /\ (m + 1) - 1 = m
      OBVIOUS
    <2>2. /\ f[m + 1] = Pushed(f[(m + 1) - 1], events[m + 1])
          /\ g[m + 1] = Pushed(g[(m + 1) - 1], events[m + 1])
      BY <2>1 DEF Pushes
    <2>3. f[m] = g[m]
      BY <1>2
    <2>4. QED
      BY <2>1, <2>2, <2>3
  <1> HIDE DEF same
  <1>3. \A m \in 0..n : m \in same
    BY <1>1, <1>2, UpTo
  <1>4. QED
    BY <1>3 DEF same

LEMMA PushesMore ==
    ASSUME NEW b, NEW events, NEW n \in Nat, NEW f, Pushes(b, events, n, f)
    PROVE  \E g : Pushes(b, events, n + 1, g) /\ g[n + 1] = Pushed(f[n], events[n + 1])
  <1> DEFINE g == [m \in 0..(n + 1) |-> IF m = n + 1 THEN Pushed(f[n], events[n + 1]) ELSE f[m]]
  <1>1. \A m \in 0..n : f[m] = IF m = 0 THEN b ELSE Pushed(f[m - 1], events[m])
    BY DEF Pushes
  <1>2. ASSUME NEW m \in 0..(n + 1)
        PROVE  g[m] = IF m = 0 THEN b ELSE Pushed(g[m - 1], events[m])
    <2>1. CASE m = n + 1
      <3>1. m # 0 /\ m - 1 = n /\ n \in 0..(n + 1) /\ n # n + 1
        BY <2>1
      <3>2. g[m] = Pushed(f[n], events[m]) /\ g[n] = f[n]
        BY <2>1, <3>1
      <3> HIDE DEF g
      <3>3. QED
        BY <3>1, <3>2
    <2>2. CASE m # n + 1
      <3>1. m \in 0..n /\ (m # 0 => m - 1 \in 0..(n + 1) /\ m - 1 # n + 1)
        BY <2>2
      <3>2. g[m] = f[m] /\ (m # 0 => g[m - 1] = f[m - 1])
        BY <2>2, <3>1
      <3> HIDE DEF g
      <3>3. QED
        BY <1>1, <3>1, <3>2
    <2>3. QED
      BY <2>1, <2>2
  <1>3. g = [m \in 0..(n + 1) |-> g[m]] /\ n + 1 \in 0..(n + 1)
    OBVIOUS
  <1>4. g[n + 1] = Pushed(f[n], events[n + 1])
    BY <1>3
  <1> HIDE DEF g
  <1>5. g = [m \in 0..(n + 1) |-> IF m = 0 THEN b ELSE Pushed(g[m - 1], events[m])]
    BY <1>2, <1>3
  <1>6. QED
    BY <1>4, <1>5 DEF Pushes

LEMMA PushAllIs ==
    ASSUME NEW b, NEW events, Len(events) \in Nat
    PROVE  \E f : Pushes(b, events, Len(events), f) /\ PushAll(b, events) = f[Len(events)]
  <1> DEFINE n == Len(events)
             some == {m \in 0..n : \E f : Pushes(b, events, m, f)}
  <1>1. 0 \in some
    <2>1. Pushes(b, events, 0, [m \in 0..0 |-> b])
      BY DEF Pushes
    <2>2. QED
      BY <2>1
  <1>2. ASSUME NEW m \in 0..(n - 1), m \in some PROVE m + 1 \in some
    <2>1. PICK f : Pushes(b, events, m, f)
      BY <1>2
    <2>2. \E g : Pushes(b, events, m + 1, g)
      BY <2>1, PushesMore
    <2>3. QED
      BY <2>2
  <1>3. n \in some
    <2> HIDE DEF some
    <2>1. \A m \in 0..n : m \in some
      BY <1>1, <1>2, UpTo
    <2>2. QED
      BY <2>1
  <1>4. PICK f : Pushes(b, events, n, f)
    BY <1>3
  <1> DEFINE push == CHOOSE g : Pushes(b, events, n, g)
  <1>5. Pushes(b, events, n, push)
    BY <1>4
  <1>6. PushAll(b, events) = push[n]
    BY DEF PushAll, Pushes
  <1>7. QED
    BY <1>5, <1>6

LEMMA PushNone == \A b : PushAll(b, <<>>) = b
  <1> TAKE b
  <1>1. PICK f : Pushes(b, <<>>, 0, f) /\ PushAll(b, <<>>) = f[0]
    BY PushAllIs
  <1>2. QED
    BY <1>1 DEF Pushes

LEMMA PushOneMore ==
    ASSUME NEW b, NEW S, NEW events \in Seq(S), NEW e \in S
    PROVE  PushAll(b, Append(events, e)) = Pushed(PushAll(b, events), e)
  <1> DEFINE n == Len(events)
             more == Append(events, e)
  <1>1. n \in Nat /\ Len(more) = n + 1 /\ more[n + 1] = e /\ \A i \in 1..n : more[i] = events[i]
    BY AppendProperties, LenProperties
  <1> HIDE DEF more
  <1>2. PICK f : Pushes(b, events, n, f) /\ PushAll(b, events) = f[n]
    BY <1>1, PushAllIs
  <1>3. PICK g : Pushes(b, more, n + 1, g) /\ PushAll(b, more) = g[n + 1]
    BY <1>1, PushAllIs
  <1>4. Pushes(b, more, n, f)
    <2>1. \A m \in 0..n : m # 0 => more[m] = events[m]
      BY <1>1
    <2>2. QED
      BY <1>2, <2>1 DEF Pushes
  <1>5. PICK h : Pushes(b, more, n + 1, h) /\ h[n + 1] = Pushed(f[n], more[n + 1])
    BY <1>1, <1>4, PushesMore
  <1>6. g[n + 1] = h[n + 1]
    BY <1>1, <1>3, <1>5, PushesOnce
  <1>7. QED
    BY <1>1, <1>2, <1>3, <1>5, <1>6 DEF more

\* f is what the first n events make of the client c, one after the other.
Takes(c, events, n, f) ==
    f = [m \in 0..n |-> IF m = 0 THEN c ELSE Taken(f[m - 1], events[m])]

LEMMA TakesOnce ==
    ASSUME NEW c, NEW events, NEW n \in Nat, NEW f, NEW g,
           Takes(c, events, n, f), Takes(c, events, n, g)
    PROVE  f[n] = g[n]
  <1> DEFINE same == {m \in 0..n : f[m] = g[m]}
  <1>1. 0 \in same
    BY DEF Takes
  <1>2. ASSUME NEW m \in 0..(n - 1), m \in same PROVE m + 1 \in same
    <2>1. m + 1 \in 0..n /\ m + 1 # 0 /\ (m + 1) - 1 = m
      OBVIOUS
    <2>2. /\ f[m + 1] = Taken(f[(m + 1) - 1], events[m + 1])
          /\ g[m + 1] = Taken(g[(m + 1) - 1], events[m + 1])
      BY <2>1 DEF Takes
    <2>3. f[m] = g[m]
      BY <1>2
    <2>4. QED
      BY <2>1, <2>2, <2>3
  <1> HIDE DEF same
  <1>3. \A m \in 0..n : m \in same
    BY <1>1, <1>2, UpTo
  <1>4. QED
    BY <1>3 DEF same

LEMMA TakesMore ==
    ASSUME NEW c, NEW events, NEW n \in Nat, NEW f, Takes(c, events, n, f)
    PROVE  \E g : Takes(c, events, n + 1, g) /\ g[n + 1] = Taken(f[n], events[n + 1])
  <1> DEFINE g == [m \in 0..(n + 1) |-> IF m = n + 1 THEN Taken(f[n], events[n + 1]) ELSE f[m]]
  <1>1. \A m \in 0..n : f[m] = IF m = 0 THEN c ELSE Taken(f[m - 1], events[m])
    BY DEF Takes
  <1>2. ASSUME NEW m \in 0..(n + 1)
        PROVE  g[m] = IF m = 0 THEN c ELSE Taken(g[m - 1], events[m])
    <2>1. CASE m = n + 1
      <3>1. m # 0 /\ m - 1 = n /\ n \in 0..(n + 1) /\ n # n + 1
        BY <2>1
      <3>2. g[m] = Taken(f[n], events[m]) /\ g[n] = f[n]
        BY <2>1, <3>1
      <3> HIDE DEF g
      <3>3. QED
        BY <3>1, <3>2
    <2>2. CASE m # n + 1
      <3>1. m \in 0..n /\ (m # 0 => m - 1 \in 0..(n + 1) /\ m - 1 # n + 1)
        BY <2>2
      <3>2. g[m] = f[m] /\ (m # 0 => g[m - 1] = f[m - 1])
        BY <2>2, <3>1
      <3> HIDE DEF g
      <3>3. QED
        BY <1>1, <3>1, <3>2
    <2>3. QED
      BY <2>1, <2>2
  <1>3. g = [m \in 0..(n + 1) |-> g[m]] /\ n + 1 \in 0..(n + 1)
    OBVIOUS
  <1>4. g[n + 1] = Taken(f[n], events[n + 1])
    BY <1>3
  <1> HIDE DEF g
  <1>5. g = [m \in 0..(n + 1) |-> IF m = 0 THEN c ELSE Taken(g[m - 1], events[m])]
    BY <1>2, <1>3
  <1>6. QED
    BY <1>4, <1>5 DEF Takes

LEMMA TakeAllIs ==
    ASSUME NEW c, NEW events, Len(events) \in Nat
    PROVE  \E f : Takes(c, events, Len(events), f) /\ TakeAll(c, events) = f[Len(events)]
  <1> DEFINE n == Len(events)
             some == {m \in 0..n : \E f : Takes(c, events, m, f)}
  <1>1. 0 \in some
    <2>1. Takes(c, events, 0, [m \in 0..0 |-> c])
      BY DEF Takes
    <2>2. QED
      BY <2>1
  <1>2. ASSUME NEW m \in 0..(n - 1), m \in some PROVE m + 1 \in some
    <2>1. PICK f : Takes(c, events, m, f)
      BY <1>2
    <2>2. \E g : Takes(c, events, m + 1, g)
      BY <2>1, TakesMore
    <2>3. QED
      BY <2>2
  <1>3. n \in some
    <2> HIDE DEF some
    <2>1. \A m \in 0..n : m \in some
      BY <1>1, <1>2, UpTo
    <2>2. QED
      BY <2>1
  <1>4. PICK f : Takes(c, events, n, f)
    BY <1>3
  <1> DEFINE take == CHOOSE g : Takes(c, events, n, g)
  <1>5. Takes(c, events, n, take)
    BY <1>4
  <1>6. TakeAll(c, events) = take[n]
    BY DEF TakeAll, Takes
  <1>7. QED
    BY <1>5, <1>6

LEMMA TakeNone == \A c : TakeAll(c, <<>>) = c
  <1> TAKE c
  <1>1. PICK f : Takes(c, <<>>, 0, f) /\ TakeAll(c, <<>>) = f[0]
    BY TakeAllIs
  <1>2. QED
    BY <1>1 DEF Takes

LEMMA TakeOneMore ==
    ASSUME NEW c, NEW S, NEW events \in Seq(S), NEW e \in S
    PROVE  TakeAll(c, Append(events, e)) = Taken(TakeAll(c, events), e)
  <1> DEFINE n == Len(events)
             more == Append(events, e)
  <1>1. n \in Nat /\ Len(more) = n + 1 /\ more[n + 1] = e /\ \A i \in 1..n : more[i] = events[i]
    BY AppendProperties, LenProperties
  <1> HIDE DEF more
  <1>2. PICK f : Takes(c, events, n, f) /\ TakeAll(c, events) = f[n]
    BY <1>1, TakeAllIs
  <1>3. PICK g : Takes(c, more, n + 1, g) /\ TakeAll(c, more) = g[n + 1]
    BY <1>1, TakeAllIs
  <1>4. Takes(c, more, n, f)
    <2>1. \A m \in 0..n : m # 0 => more[m] = events[m]
      BY <1>1
    <2>2. QED
      BY <1>2, <2>1 DEF Takes
  <1>5. PICK h : Takes(c, more, n + 1, h) /\ h[n + 1] = Taken(f[n], more[n + 1])
    BY <1>1, <1>4, TakesMore
  <1>6. g[n + 1] = h[n + 1]
    BY <1>1, <1>3, <1>5, TakesOnce
  <1>7. QED
    BY <1>1, <1>2, <1>3, <1>5, <1>6 DEF more

-----------------------------------------------------------------------------
\* Types of the stream and of its client.
Events == [kind : {"content", "update"}, at : Nat, state : Statuses, exec : 0..MaxExecs]
Marks == [content : Nat, update : Nat]
StreamType == [step : {"closed", "cutting", "cut", "live"}, tries : Nat, before : Nat,
               cut : [cursor : Nat, obs : Observations], instant : Nat,
               buffer : Seq(Events), invalid : BOOLEAN, marks : Marks]

Revision == view[Watched].revision

\* The watermarks m cover an event.
CoveredBy(event, m) == event.at <= m[event.kind]

\* Pushing onto a live stream what its watermarks cover does nothing.
LEMMA PushCovered ==
    ASSUME NEW b \in StreamType, b.step = "live", ~b.invalid,
           NEW events \in Seq(Events),
           \A i \in 1..Len(events) : CoveredBy(events[i], b.marks)
    PROVE  PushAll(b, events) = b
  <1> DEFINE n == Len(events)
  <1>1. n \in Nat
    BY LenProperties
  <1>2. PICK f : Pushes(b, events, n, f) /\ PushAll(b, events) = f[n]
    BY <1>1, PushAllIs
  <1> DEFINE same == {m \in 0..n : f[m] = b}
  <1>3. 0 \in same
    BY <1>1, <1>2 DEF Pushes
  <1>4. ASSUME NEW m \in 0..(n - 1), m \in same PROVE m + 1 \in same
    <2>1. m + 1 \in 1..n /\ m + 1 \in 0..n /\ m + 1 # 0 /\ (m + 1) - 1 = m
      BY <1>1
    <2>2. f[m + 1] = Pushed(f[(m + 1) - 1], events[m + 1])
      BY <1>2, <2>1 DEF Pushes
    <2>3. f[m] = b
      BY <1>4
    <2>4. CoveredBy(events[m + 1], b.marks) /\ events[m + 1] \in Events
      BY <2>1
    <2>5. Pushed(b, events[m + 1]) = b
      <3>1. events[m + 1].at \in Nat /\ b.marks[events[m + 1].kind] \in Nat
        BY <2>4 DEF StreamType, Events, Marks
      <3>2. QED
        BY <2>4, <3>1 DEF Pushed, CoveredBy
    <2>6. QED
      BY <2>1, <2>2, <2>3, <2>5
  <1> HIDE DEF same
  <1>5. \A m \in 0..n : m \in same
    BY <1>1, <1>3, <1>4, UpTo
  <1>6. n \in same
    BY <1>1, <1>5
  <1>7. QED
    BY <1>2, <1>6 DEF same

\* What becomes of a stream that is given an event.
LEMMA StoredIs ==
    ASSUME NEW b \in StreamType, NEW event \in Events
    PROVE  /\ Stored(b, event) \in StreamType
           /\ Stored(b, event).step = b.step /\ Stored(b, event).tries = b.tries
           /\ Stored(b, event).before = b.before /\ Stored(b, event).cut = b.cut
           /\ Stored(b, event).instant = b.instant /\ Stored(b, event).marks = b.marks
           /\ \/ Stored(b, event).invalid
              \/ /\ Stored(b, event).invalid = b.invalid
                 /\ Stored(b, event) = [b EXCEPT !.buffer = Append(b.buffer, event)]
                 /\ Stored(b, event).buffer = Append(b.buffer, event)
  <1>1. b.buffer \in Seq(Events) /\ <<>> \in Seq(Events)
    BY DEF StreamType
  <1>2. Append(b.buffer, event) \in Seq(Events)
    BY <1>1, AppendProperties
  <1> DEFINE more == Append(b.buffer, event)
  <1>3. more \in Seq(Events)
    BY <1>2
  <1> HIDE DEF more
  <1>4. Stored(b, event) = [b EXCEPT !.buffer = more] \/ Stored(b, event) = Invalid(b)
    BY DEF Stored, more
  <1>5. CASE Stored(b, event) = [b EXCEPT !.buffer = more]
    <2>1. [b EXCEPT !.buffer = more] \in StreamType
      BY <1>3 DEF StreamType
    <2>2. QED
      BY <1>5, <2>1 DEF StreamType, more
  <1>6. CASE Stored(b, event) = Invalid(b)
    BY <1>1, <1>6 DEF StreamType, Invalid
  <1>7. QED
    BY <1>4, <1>5, <1>6

LEMMA PushedIs ==
    ASSUME NEW b \in StreamType, NEW event \in Events
    PROVE  /\ Pushed(b, event) \in StreamType
           /\ Pushed(b, event).step = b.step /\ Pushed(b, event).tries = b.tries
           /\ Pushed(b, event).before = b.before /\ Pushed(b, event).cut = b.cut
           /\ Pushed(b, event).instant = b.instant
           /\ b.step = "closed" \/ b.invalid => Pushed(b, event) = b
           /\ b.step # "closed" /\ b.step # "live" /\ ~b.invalid =>
                 Pushed(b, event) = Stored(b, event)
  <1>1. CASE b.step = "closed" \/ b.invalid
    BY <1>1 DEF Pushed
  <1>2. CASE ~(b.step = "closed" \/ b.invalid) /\ b.step # "live"
    <2>1. Pushed(b, event) = Stored(b, event)
      BY <1>2 DEF Pushed
    <2>2. QED
      BY <1>2, <2>1, StoredIs
  <1>3. CASE ~(b.step = "closed" \/ b.invalid) /\ b.step = "live"
    <2> DEFINE up == [b EXCEPT !.marks[event.kind] = event.at]
    <2>1. up \in StreamType /\ up.step = b.step /\ up.tries = b.tries /\ up.before = b.before
          /\ up.cut = b.cut /\ up.instant = b.instant
      BY DEF StreamType, Events, Marks
    <2>2. \/ Pushed(b, event) = b \/ Pushed(b, event) = Stored(up, event)
          \/ Pushed(b, event) = Invalid(b)
      BY <1>3 DEF Pushed
    <2> HIDE DEF up
    <2>3. CASE Pushed(b, event) = Invalid(b)
      <3>1. <<>> \in Seq(Events)
        OBVIOUS
      <3>2. QED
        BY <1>3, <2>3, <3>1 DEF StreamType, Invalid
    <2>4. CASE Pushed(b, event) = Stored(up, event)
      BY <1>3, <2>1, <2>4, StoredIs
    <2>5. QED
      BY <1>3, <2>2, <2>3, <2>4
  <1>4. QED
    BY <1>1, <1>2, <1>3

\* The next event of its kind for a live stream moves the watermark of its kind.
LEMMA PushedNext ==
    ASSUME NEW b \in StreamType, NEW event \in Events, b.step = "live", ~b.invalid,
           event.at = b.marks[event.kind] + 1
    PROVE  \/ Pushed(b, event).invalid
           \/ /\ ~Pushed(b, event).invalid
              /\ Pushed(b, event).marks = [b.marks EXCEPT ![event.kind] = event.at]
              /\ Pushed(b, event).buffer = Append(b.buffer, event)
  <1> DEFINE up == [b EXCEPT !.marks[event.kind] = event.at]
  <1>1. /\ up \in StreamType /\ up.marks = [b.marks EXCEPT ![event.kind] = event.at]
        /\ up.buffer = b.buffer /\ up.invalid = b.invalid
    BY DEF StreamType, Events, Marks
  <1>2. b.marks[event.kind] \in Nat
    BY DEF StreamType, Events, Marks
  <1>3. Pushed(b, event) = Stored(up, event)
    BY <1>2 DEF Pushed
  <1> HIDE DEF up
  <1>4. QED
    BY <1>1, <1>3, StoredIs

-----------------------------------------------------------------------------
(***************************************************************************)
(* What a step of the registry shows: it publishes a state of one          *)
(* execution, the one in the slot of its session or the one that is        *)
(* accepted, or shows nothing.                                             *)
(***************************************************************************)

\* The execution _publish tells the listeners of.
Told(s) == IF slot[s].exec # 0 THEN slot[s].exec ELSE slot'[s].exec

Published(s) ==
    \E new \in RecordType, q \in Observations :
        /\ Publish(s, Told(s), new, q)
        /\ Told(s) \in Execs
        /\ Told(s) = slot[s].exec \/ Told(s) = last + 1
        /\ q = view[s].quiescent \/ q.status \in Ended

Shown == UNCHANGED <<record, view>> \/ \E s \in Sessions : Published(s)

LEMMA FinishPublishes ==
    ASSUME RegistryInv, Views, NEW s \in Sessions, slot[s].task # "idle", NEW outcome \in Ended,
           Finish(s, outcome),
           record[slot[s].exec].status = "running" => slot[s].seen = outcome
    PROVE  Shown
  <1> DEFINE e == slot[s].exec
             new == [record[e] EXCEPT !.status = outcome, !.revision = @ + 1]
             q == Quiescent(s)
  <1>1. e \in Execs /\ e # 0 /\ record[e] \in RecordType /\ view[s] \in ViewType
        /\ slot[s] \in SlotType
    BY InSlot, Types DEF Execs, RegistryInv
  <1>2. Publish(s, e, new, q)
    BY DEF Finish
  <1>3. new \in RecordType
    <2>1. record[e].revision + 1 \in Nat /\ outcome \in Statuses
      BY <1>1, StatusesAre DEF RecordType
    <2>2. QED
      BY <1>1, <2>1 DEF RecordType
  <1>4. q \in Observations /\ (q = view[s].quiescent \/ q.status \in Ended)
    <2>1. CASE record[e].status = "running"
      <3>1. q = [exec |-> e, status |-> outcome]
        BY <2>1 DEF Quiescent
      <3>2. outcome \in Statuses /\ e \in 0..MaxExecs
        BY <1>1, StatusesAre DEF SlotType
      <3>3. QED
        BY <3>1, <3>2 DEF Observations
    <2>2. CASE record[e].status # "running"
      BY <1>1, <2>2 DEF Quiescent, ViewType
    <2>3. QED
      BY <2>1, <2>2
  <1>5. Told(s) = e
    BY <1>1 DEF Told
  <1> HIDE DEF new, q, e
  <1>6. Told(s) = slot[s].exec
    BY <1>5 DEF e
  <1>7. Published(s)
    BY <1>1, <1>2, <1>3, <1>4, <1>5, <1>6 DEF Published
  <1>8. QED
    BY <1>7 DEF Shown

LEMMA PublishNextPublishes ==
    ASSUME RegistryInv, NEW s \in Sessions, slot[s].task # "idle", NEW new \in RecordType,
           PublishNext(s, slot[s].exec, new)
    PROVE  Shown
  <1> DEFINE next == [new EXCEPT !.revision = @ + 1]
             q == view[s].quiescent
  <1>1. slot[s].exec \in Execs /\ slot[s].exec # 0 /\ view[s] \in ViewType
    BY InSlot, Types DEF Execs, RegistryInv
  <1>2. next \in RecordType /\ q \in Observations
    <2>1. new.revision + 1 \in Nat
      BY DEF RecordType
    <2>2. QED
      BY <1>1, <2>1 DEF RecordType, ViewType
  <1>3. Publish(s, slot[s].exec, next, q)
    BY DEF PublishNext
  <1>4. Told(s) = slot[s].exec
    BY <1>1 DEF Told
  <1>5. q = view[s].quiescent
    OBVIOUS
  <1> HIDE DEF next, q
  <1>6. Published(s)
    BY <1>1, <1>2, <1>3, <1>4, <1>5 DEF Published
  <1>7. QED
    BY <1>6 DEF Shown

LEMMA AcceptPublishes ==
    ASSUME RegistryInv, NEW s \in Sessions, NEW i \in Submissions \cup {Legacy},
           NEW t \in Texts, Accept(s, i, t)
    PROVE  Shown
  <1> DEFINE e == last + 1
             new == [session |-> s, sub |-> i, text |-> t, status |-> "accepted",
                     revision |-> 1, interrupt |-> FALSE]
             free == [NoSlot EXCEPT !.exec = e, !.task = "starting"]
             q == view[s].quiescent
  <1>1. /\ slot[s].exec = 0 /\ last < MaxExecs /\ Publish(s, e, new, q)
        /\ slot' = [slot EXCEPT ![s] = free]
    BY DEF Accept, Admitted
  <1>2. e \in Execs /\ view[s] \in ViewType /\ slot \in [Sessions -> SlotType]
    BY <1>1, Types, LimitsAssumption DEF RegistryInv, Execs
  <1>3. new \in RecordType /\ q \in Observations /\ q = view[s].quiescent /\ free.exec = e
    BY <1>2, StatusesAre DEF RecordType, ViewType, NoSlot
  <1>4. e = last + 1
    OBVIOUS
  <1> HIDE DEF new, free, q, e
  <1>5. slot'[s] = free
    BY <1>1, <1>2
  <1>6. Told(s) = e
    BY <1>1, <1>3, <1>5 DEF Told
  <1>7. Published(s)
    BY <1>1, <1>2, <1>3, <1>4, <1>6 DEF Published
  <1>8. QED
    BY <1>7 DEF Shown

LEMMA DrivePublishes ==
    ASSUME RegistryInv, Views, NEW s \in Sessions,
           DriveBegins(s) \/ DriveEnds(s) \/ DriveCancelled(s) \/ RetryBegins(s)
    PROVE  Shown
  <1>1. "interrupted" \in Ended /\ "failed" \in Ended
    BY DEF Ended
  <1>2. ASSUME NEW outcome \in Ended, slot[s].task # "idle", ~slot[s].started, Finish(s, outcome)
        PROVE  Shown
    <2>1. slot[s].exec # 0 /\ entered[slot[s].exec] = 0
      BY <1>2 DEF RegistryInv, Slots, SlotOK
    <2>2. record[slot[s].exec].status = "accepted"
      BY <2>1 DEF RegistryInv, Slots, SlotOK
    <2>3. QED
      BY <1>2, <2>2, FinishPublishes
  <1>3. CASE DriveBegins(s)
    <2>1. slot[s].task = "starting" /\ slot[s].task # "idle" /\ ~slot[s].started
      BY <1>3 DEF DriveBegins, RegistryInv, Slots, SlotOK
    <2>2. CASE Finish(s, "interrupted") \/ Finish(s, "failed")
      BY <1>1, <1>2, <2>1, <2>2
    <2>3. CASE UNCHANGED <<record, view>>
      BY <2>3 DEF Shown
    <2>4. QED
      BY <1>3, <2>2, <2>3 DEF DriveBegins
  <1>4. CASE DriveEnds(s)
    <2>1. slot[s].task # "idle"
      BY <1>4 DEF DriveEnds
    <2>2. CASE guard[s].task = "done" /\ BorneOut(s, guard[s].candidate)
               /\ Finish(s, guard[s].candidate)
      <3>1. guard[s].candidate \in Ended
        BY <2>2 DEF RegistryInv, Guards, GuardOK
      <3>2. record[slot[s].exec].status = "running" => slot[s].seen = guard[s].candidate
        BY <2>2 DEF BorneOut
      <3>3. QED
        BY <2>1, <2>2, <3>1, <3>2, FinishPublishes
    <2>3. CASE Fails(s)
      BY <2>3 DEF Fails, Shown
    <2>4. QED
      BY <1>4, <2>2, <2>3 DEF DriveEnds
  <1>5. CASE DriveCancelled(s)
    BY <1>5 DEF DriveCancelled, Fails, Shown
  <1>6. CASE RetryBegins(s)
    <2>1. slot[s].task # "idle"
      BY <1>6 DEF RetryBegins
    <2>2. CASE ~slot[s].started /\ Finish(s, "interrupted")
      BY <1>1, <1>2, <2>1, <2>2
    <2>3. CASE UNCHANGED <<record, view>>
      BY <2>3 DEF Shown
    <2>4. QED
      BY <1>6, <2>2, <2>3 DEF RetryBegins
  <1>7. QED
    BY <1>3, <1>4, <1>5, <1>6

LEMMA GuardPublishes ==
    ASSUME RegistryInv, NEW s \in Sessions,
           GuardBegins(s) \/ Settled(s) \/ SettleFails(s) \/ \E o \in Ended : WorkEnds(s, o)
    PROVE  Shown
  <1>1. CASE GuardBegins(s) /\ ~guard[s].asked
    <2> DEFINE new == [record[slot[s].exec] EXCEPT !.status = "running"]
    <2>1. guard[s].task = "beginning" /\ Unsettled(s) /\ Observed(s, "running")
      BY <1>1 DEF GuardBegins, Unsettled
    <2>2. slot[s].task # "idle"
      BY <2>1, AtWork
    <2>3. record[slot[s].exec] \in RecordType
      BY <2>2, InSlot, Types DEF RegistryInv
    <2>4. new \in RecordType
      BY <2>3, StatusesAre DEF RecordType
    <2>5. PublishNext(s, slot[s].exec, new)
      BY <2>1 DEF Observed
    <2> HIDE DEF new
    <2>6. QED
      BY <2>2, <2>4, <2>5, PublishNextPublishes
  <1>2. CASE GuardBegins(s) /\ guard[s].asked
    BY <1>2 DEF GuardBegins, registryVars, Shown
  <1>3. CASE Settled(s)
    <2>1. guard[s].task = "settling" /\ Observed(s, guard[s].candidate)
      BY <1>3 DEF Settled
    <2>2. guard[s].candidate # "running"
      BY <2>1 DEF RegistryInv, Guards, GuardOK, Ended
    <2>3. QED
      BY <2>1, <2>2 DEF Observed, Shown
  <1>4. CASE SettleFails(s) \/ \E o \in Ended : WorkEnds(s, o)
    BY <1>4 DEF SettleFails, WorkEnds, registryVars, Shown
  <1>5. QED
    BY <1>1, <1>2, <1>3, <1>4

LEMMA BindingPublishes ==
    ASSUME RegistryInv, NEW s \in Sessions,
           Interrupt(s) \/ RetrySettlement(s) \/ CloseBinding(s) \/ CloseEnds(s)
    PROVE  Shown
  <1>1. ASSUME slot[s].exec # 0, RequestInterrupt(s)
        PROVE  Shown
    <2> DEFINE new == [record[slot[s].exec] EXCEPT !.interrupt = TRUE]
    <2>1. slot[s].task # "idle"
      BY <1>1 DEF RegistryInv, Slots, SlotOK
    <2>2. record[slot[s].exec] \in RecordType
      BY <2>1, InSlot, Types DEF RegistryInv
    <2>3. CASE UNCHANGED <<record, view>>
      BY <2>3 DEF Shown
    <2>4. CASE PublishNext(s, slot[s].exec, new)
      <3>1. new \in RecordType
        BY <2>2 DEF RecordType
      <3> HIDE DEF new
      <3>2. QED
        BY <2>1, <2>4, <3>1, PublishNextPublishes
    <2>5. QED
      BY <1>1, <2>3, <2>4 DEF RequestInterrupt
  <1>2. CASE Interrupt(s)
    BY <1>1, <1>2 DEF Interrupt
  <1>3. CASE CloseBinding(s)
    <2>1. CASE slot[s].exec = 0
      BY <1>3, <2>1 DEF CloseBinding, Shown
    <2>2. CASE slot[s].exec # 0
      BY <1>1, <1>3, <2>2 DEF CloseBinding
    <2>3. QED
      BY <2>1, <2>2
  <1>4. CASE RetrySettlement(s) \/ CloseEnds(s)
    BY <1>4 DEF RetrySettlement, CloseEnds, registryVars, Shown
  <1>5. QED
    BY <1>2, <1>3, <1>4

LEMMA StepShows ==
    ASSUME RegistryInv, Views, [Next]_vars
    PROVE  Shown \/ \E s \in Sessions : Reopen(s)
  <1>1. CASE Submits
    <2>1. ASSUME NEW s \in Sessions, NEW t \in Texts, NEW i \in Submissions, Resubmit(s, i, t)
          PROVE  Shown
      BY <2>1 DEF Resubmit, registryVars, Shown
    <2>2. QED
      BY <1>1, <2>1, AcceptPublishes DEF Submits
  <1>2. CASE Fence \/ (\E n \in Execs : Expire(n)) \/ UNCHANGED vars
    BY <1>2 DEF Fence, Expire, vars, registryVars, Shown
  <1>3. ASSUME NEW s \in Sessions,
               \/ DriveBegins(s) \/ DriveEnds(s) \/ DriveCancelled(s) \/ RetryBegins(s)
               \/ GuardBegins(s) \/ Settled(s) \/ SettleFails(s)
               \/ \E o \in Ended : WorkEnds(s, o)
               \/ Interrupt(s) \/ RetrySettlement(s)
               \/ CloseBinding(s) \/ CloseEnds(s)
        PROVE  Shown
    BY <1>3, DrivePublishes, GuardPublishes, BindingPublishes
  <1>4. QED
    BY <1>1, <1>2, <1>3 DEF Next

-----------------------------------------------------------------------------
\* What the client is to have of an execution in a state.
Showing(e, status) ==
    [exec |-> IF status \in Ended THEN 0 ELSE e,
     status |-> IF status \in Ended THEN "none" ELSE status]

LEMMA SeenIs ==
    ASSUME RegistryInv, Views
    PROVE  /\ Seen.exec \in 0..MaxExecs /\ Seen.status \in Statuses
           /\ Revision \in Nat
           /\ Seen.status = "running" => Seen.exec # 0
  <1>1. Watched \in Sessions
    BY StreamAssumption
  <1>2. view[Watched] \in ViewType /\ record \in [Execs -> RecordType]
    BY <1>1, Types DEF RegistryInv
  <1>3. view[Watched].active # 0 => view[Watched].active \in Execs
    BY <1>2 DEF ViewType, Execs
  <1>4. view[Watched].active # 0 => record[view[Watched].active].status \in Statuses
    BY <1>2, <1>3 DEF RecordType
  <1>5. Seen.status \in Statuses /\ (Seen.status = "running" => Seen.exec # 0)
    BY <1>4, StatusesAre DEF Seen
  <1>6. QED
    BY <1>2, <1>5 DEF Seen, ViewType, Revision

\* A step of the registry that does not open the session again either leaves what is seen
\* of it, or shows one more state of the execution the listeners are told of.
LEMMA RevisionMoves ==
    ASSUME RegistryInv, Views, [Next]_vars, ~Rebound
    PROVE  \/ UNCHANGED <<Revision, Seen>> /\ view'[Watched] = view[Watched]
           \/ /\ Revision' = Revision + 1
              /\ Told(Watched) \in Execs
              /\ record'[Told(Watched)].status \in Statuses
              /\ Seen' = Showing(Told(Watched), record'[Told(Watched)].status)
              /\ \/ view'[Watched].quiescent = view[Watched].quiescent
                 \/ view'[Watched].quiescent.status \in Ended
  <1> DEFINE w == Watched
  <1>1. w \in Sessions
    BY StreamAssumption
  <1>2. /\ view \in [Sessions -> ViewType] /\ view[w] \in ViewType
        /\ record \in [Execs -> RecordType] /\ slot[w] \in SlotType
        /\ slot[w].exec <= last /\ last \in Nat
        /\ close \in [Sessions -> {"open", "closing", "failed", "closed"}]
    BY <1>1, Types, LimitsAssumption DEF RegistryInv, Numbered
  <1>3. view[w].active = slot[w].exec
    BY <1>1 DEF Views, ViewOK
  <1> HIDE DEF w
  <1>4. CASE UNCHANGED <<record, view>>
    BY <1>4 DEF Seen, Revision, w
  <1>5. ASSUME NEW s \in Sessions, Reopen(s)
        PROVE  UNCHANGED <<Revision, Seen>> /\ view'[w] = view[w]
    <2>1. /\ close[s] = "closed" /\ close' = [close EXCEPT ![s] = "open"]
          /\ view' = [view EXCEPT ![s] = NewView] /\ record' = record
      BY <1>5 DEF Reopen
    <2>2. s # w
      BY <1>1, <1>2, <2>1 DEF Rebound, w
    <2>3. view'[w] = view[w]
      BY <1>1, <1>2, <2>1, <2>2
    <2>4. QED
      BY <2>1, <2>3 DEF Seen, Revision, w
  <1>6. ASSUME NEW s \in Sessions, Published(s), s # w
        PROVE  UNCHANGED <<Revision, Seen>> /\ view'[w] = view[w]
    <2>1. PICK new \in RecordType, q \in Observations :
              /\ Publish(s, Told(s), new, q)
              /\ Told(s) \in Execs
              /\ Told(s) = slot[s].exec \/ Told(s) = last + 1
      BY <1>6 DEF Published
    <2>2. view'[w] = view[w]
      BY <1>1, <1>6, <2>1, PublishShows
    <2>3. \A x \in Execs \ {Told(s)} : record'[x] = record[x]
      BY <2>1, PublishKeeps DEF RegistryInv
    <2>4. slot[w].exec # 0 => slot[w].exec # Told(s) /\ slot[w].exec \in Execs
      <3>1. ASSUME slot[w].exec # 0 PROVE slot[w].exec # Told(s)
        <4>1. CASE Told(s) = slot[s].exec
          BY <1>1, <1>6, <3>1, <4>1, Apart
        <4>2. CASE Told(s) = last + 1
          <5>1. slot[w].exec \in Nat
            BY <1>2 DEF SlotType
          <5>2. QED
            BY <1>2, <4>2, <5>1
        <4>3. QED
          BY <2>1, <4>1, <4>2
      <3>2. QED
        BY <1>2, <3>1 DEF SlotType, Execs
    <2>5. view[w].active # 0 => record'[view[w].active] = record[view[w].active]
      BY <1>3, <2>3, <2>4
    <2>6. QED
      BY <2>2, <2>5 DEF Seen, Revision, w
  <1>7. ASSUME Published(w)
        PROVE  /\ Revision' = Revision + 1
               /\ Told(w) \in Execs
               /\ record'[Told(w)].status \in Statuses
               /\ Seen' = Showing(Told(w), record'[Told(w)].status)
               /\ \/ view'[w].quiescent = view[w].quiescent
                  \/ view'[w].quiescent.status \in Ended
    <2>1. PICK new \in RecordType, q \in Observations :
              /\ Publish(w, Told(w), new, q)
              /\ Told(w) \in Execs
              /\ q = view[w].quiescent \/ q.status \in Ended
      BY <1>7 DEF Published
    <2>2. record'[Told(w)] = new
      BY <1>1, <2>1, PublishKeeps DEF RegistryInv
    <2>3. /\ view'[w].active = (IF new.status \in Ended THEN 0 ELSE Told(w))
          /\ view'[w].quiescent = q
      BY <1>1, <2>1, PublishShows
    <2>4. view'[w].revision = view[w].revision + 1
      <3> DEFINE shown == [revision |-> view[w].revision + 1,
                           active |-> IF new.status \in Ended THEN 0 ELSE Told(w),
                           quiescent |-> q]
      <3>1. view' = [view EXCEPT ![w] = shown]
        BY <2>1 DEF Publish
      <3>2. shown.revision = view[w].revision + 1
        OBVIOUS
      <3> HIDE DEF shown
      <3>3. QED
        BY <1>1, <1>2, <3>1, <3>2
    <2>5. new.status \in Statuses /\ Told(w) # 0
      BY <2>1 DEF RecordType, Execs
    <2>6. Seen' = Showing(Told(w), new.status)
      <3>1. Seen' = [exec |-> view'[w].active,
                     status |-> IF view'[w].active = 0 THEN "none"
                                ELSE record'[view'[w].active].status]
        BY DEF Seen, w
      <3>2. CASE new.status \in Ended
        BY <2>3, <3>1, <3>2 DEF Showing
      <3>3. CASE new.status \notin Ended
        BY <2>2, <2>3, <2>5, <3>1, <3>3 DEF Showing
      <3>4. QED
        BY <3>2, <3>3
    <2>7. QED
      BY <2>1, <2>2, <2>3, <2>4, <2>5, <2>6 DEF Revision, w
  <1>8. QED
    BY <1>4, <1>5, <1>6, <1>7, StepShows DEF Shown, w

LEMMA ReboundReopens ==
    ASSUME RegistryInv, [Next]_vars, Rebound
    PROVE  Reopen(Watched)
  <1>1. /\ Watched \in Sessions
        /\ close \in [Sessions -> {"open", "closing", "failed", "closed"}]
    BY StreamAssumption, Types DEF RegistryInv
  <1>2. close[Watched] = "closed" /\ close'[Watched] = "open" /\ close' # close
    BY DEF Rebound
  <1>3. \/ \E s \in Sessions : CloseBinding(s) \/ CloseEnds(s) \/ Reopen(s)
        \/ UNCHANGED close
    BY DEF Next, Submits, Accept, Resubmit, Fence, Expire, DriveBegins, DriveEnds, DriveCancelled,
           RetryBegins, GuardBegins, Settled, SettleFails, WorkEnds, Interrupt, RetrySettlement,
           serviceVars, vars
  <1>4. PICK s \in Sessions : CloseBinding(s) \/ CloseEnds(s) \/ Reopen(s)
    BY <1>2, <1>3
  <1>5. \E to \in {"closing", "closed", "failed", "open"} :
            /\ close' = [close EXCEPT ![s] = to]
            /\ to = "open" => Reopen(s)
    BY <1>4 DEF CloseBinding, CloseEnds, Reopen
  <1>6. QED
    BY <1>1, <1>2, <1>5

\* Between executions the Product is not observed running.
QuietView == view[Watched].quiescent.status # "running"

LEMMA QuietViewStep ==
    ASSUME RegistryInv, Views, QuietView, [Next]_vars
    PROVE  QuietView'
  <1>1. CASE ~Rebound
    BY <1>1, RevisionMoves, StatusesAre DEF QuietView, Ended
  <1>2. CASE Rebound
    <2>1. Watched \in Sessions /\ view \in [Sessions -> ViewType]
      BY StreamAssumption, Types DEF RegistryInv
    <2>3. Reopen(Watched)
      BY <1>2, ReboundReopens
    <2>4. QED
      BY <2>1, <2>3 DEF Reopen, QuietView, NewView, Idle
  <1>3. QED
    BY <1>1, <1>2

-----------------------------------------------------------------------------
(***************************************************************************)
(* What a client has and what waits for it in the buffer.                  *)
(***************************************************************************)
Has(n, u, e, status) ==
    [content |-> n, update |-> u, exec |-> e, status |-> status, gap |-> FALSE]

\* A live stream brings the client c to these positions and this execution.
Carries(live, c, n, u, e, status) ==
    /\ live \in StreamType /\ live.step = "live" /\ ~live.invalid
    /\ live.marks = [content |-> n, update |-> u]
    /\ TakeAll(c, live.buffer) = Has(n, u, e, status)

LEMMA CarriesOn ==
    ASSUME NEW live, NEW c, NEW n, NEW u, NEW e, NEW status, Carries(live, c, n, u, e, status),
           NEW event \in Events, event.at = live.marks[event.kind] + 1
    PROVE  \/ Pushed(live, event).invalid
           \/ /\ Pushed(live, event) \in StreamType /\ Pushed(live, event).step = "live"
              /\ ~Pushed(live, event).invalid
              /\ Pushed(live, event).marks = [live.marks EXCEPT ![event.kind] = event.at]
              /\ TakeAll(c, Pushed(live, event).buffer) = Taken(Has(n, u, e, status), event)
  <1>1. live \in StreamType /\ live.step = "live" /\ ~live.invalid
    BY DEF Carries
  <1>2. Pushed(live, event) \in StreamType /\ Pushed(live, event).step = "live"
    BY <1>1, PushedIs
  <1>3. \/ Pushed(live, event).invalid
        \/ /\ ~Pushed(live, event).invalid
           /\ Pushed(live, event).marks = [live.marks EXCEPT ![event.kind] = event.at]
           /\ Pushed(live, event).buffer = Append(live.buffer, event)
    BY <1>1, PushedNext
  <1>4. live.buffer \in Seq(Events)
    BY <1>1 DEF StreamType
  <1>5. TakeAll(c, Append(live.buffer, event)) = Taken(TakeAll(c, live.buffer), event)
    BY <1>4, TakeOneMore
  <1>6. TakeAll(c, live.buffer) = Has(n, u, e, status)
    BY DEF Carries
  <1>7. QED
    BY <1>2, <1>3, <1>5, <1>6

LEMMA CarriesContent ==
    ASSUME NEW live, NEW c, NEW n \in Nat, NEW u, NEW e, NEW status,
           Carries(live, c, n, u, e, status)
    PROVE  \/ Pushed(live, Content(n + 1)).invalid
           \/ Carries(Pushed(live, Content(n + 1)), c, n + 1, u, e, status)
  <1> DEFINE event == Content(n + 1)
  <1>1. event \in Events /\ event.kind = "content" /\ event.at = n + 1
    <2>1. 0 \in 0..MaxExecs
      BY LimitsAssumption
    <2>2. QED
      BY <2>1, StatusesAre DEF Content, Events
  <1>2. live.marks = [content |-> n, update |-> u]
    BY DEF Carries
  <1>3. Taken(Has(n, u, e, status), event) = Has(n + 1, u, e, status)
    BY <1>1 DEF Taken, Has
  <1> HIDE DEF event
  <1>4. [live.marks EXCEPT ![event.kind] = event.at] = [content |-> n + 1, update |-> u]
        /\ event.at = live.marks[event.kind] + 1
    BY <1>1, <1>2
  <1>5. Pushed(live, event).invalid \/ Carries(Pushed(live, event), c, n + 1, u, e, status)
    BY <1>1, <1>3, <1>4, CarriesOn DEF Carries
  <1>6. QED
    BY <1>5 DEF event

LEMMA CarriesUpdate ==
    ASSUME NEW live, NEW c, NEW n, NEW u \in Nat, NEW e, NEW status,
           Carries(live, c, n, u, e, status), NEW x \in Execs, NEW now \in Statuses
    PROVE  \/ Pushed(live, Update(u + 1, x, now)).invalid
           \/ Carries(Pushed(live, Update(u + 1, x, now)), c, n, u + 1,
                      Showing(x, now).exec, Showing(x, now).status)
  <1> DEFINE event == Update(u + 1, x, now)
             shows == Showing(x, now)
  <1>1. event \in Events /\ event.kind = "update" /\ event.at = u + 1 /\ event.exec = x
        /\ event.state = now
    BY LimitsAssumption DEF Update, Events, Execs
  <1>2. live.marks = [content |-> n, update |-> u]
    BY DEF Carries
  <1>3. Taken(Has(n, u, e, status), event) = Has(n, u + 1, shows.exec, shows.status)
    BY <1>1 DEF Taken, Has, Showing
  <1> HIDE DEF event, shows
  <1>4. [live.marks EXCEPT ![event.kind] = event.at] = [content |-> n, update |-> u + 1]
        /\ event.at = live.marks[event.kind] + 1
    BY <1>1, <1>2
  <1>5. \/ Pushed(live, event).invalid
        \/ Carries(Pushed(live, event), c, n, u + 1, shows.exec, shows.status)
    BY <1>1, <1>3, <1>4, CarriesOn DEF Carries
  <1>6. QED
    BY <1>5 DEF event, shows

-----------------------------------------------------------------------------
(***************************************************************************)
(* The inductive invariant of the capture and of the stream.               *)
(***************************************************************************)

\* The looks at the view and the cut come in this order.
CaptureInv ==
    /\ stream.step \in {"cutting", "cut"} => stream.tries > 0 /\ stream.before <= Revision
    /\ stream.step = "cut" => stream.before <= stream.instant /\ stream.instant <= Revision

\* What is buffered during a capture has happened.
BufferInv ==
    stream.step \in {"cutting", "cut"} /\ ~stream.invalid =>
        \A i \in 1..Len(stream.buffer) :
            CoveredBy(stream.buffer[i], [content |-> cursor, update |-> Revision])

Activated(b, marks) == [b EXCEPT !.step = "live", !.buffer = <<>>, !.marks = marks]

\* While the view has not moved, installing the cut would bring a client of it here,
\* whatever execution the view shows to it.
CutInv ==
    stream.step = "cut" /\ ~stream.invalid /\ stream.before = Revision =>
        LET at == stream.cut.cursor
            live == PushAll(Activated(stream, [content |-> at, update |-> Revision]),
                            stream.buffer)
        IN  live.invalid \/ \A e, status :
                               Carries(live, Has(at, Revision, e, status), cursor, Revision, e, status)

LiveInv ==
    stream.step = "live" /\ ~stream.invalid =>
        Carries(stream, client, cursor, Revision, Seen.exec, Seen.status)

StreamInv ==
    cursor \in Nat /\ stream \in StreamType /\ CaptureInv /\ BufferInv /\ CutInv /\ LiveInv

LEMMA NoStreamKeeps ==
    ASSUME stream' = NoStream, cursor' \in Nat
    PROVE  StreamInv'
  <1>1. NoStream \in StreamType
    <2>1. 0 \in 0..MaxExecs /\ "none" \in Statuses /\ <<>> \in Seq(Events)
      BY LimitsAssumption, StatusesAre
    <2>2. Idle \in Observations
      BY <2>1 DEF Idle, Observations
    <2>3. QED
      BY <2>1, <2>2 DEF NoStream, NoCut, StreamType, Marks
  <1>2. stream'.step = "closed"
    BY DEF NoStream
  <1>3. QED
    BY <1>1, <1>2 DEF StreamInv, CaptureInv, BufferInv, CutInv, LiveInv

\* A step that leaves alone what the invariant speaks of.
LEMMA StreamStill ==
    ASSUME StreamInv, UNCHANGED <<cursor, stream, client, Revision, Seen>>
    PROVE  StreamInv'
  BY DEF StreamInv, CaptureInv, BufferInv, CutInv, LiveInv

\* What was covered stays covered when the positions move on.
LEMMA BufferKeeps ==
    ASSUME StreamInv, RegistryInv, Views, NEW event \in Events, NEW n \in Nat, NEW u \in Nat,
           cursor <= n, Revision <= u, CoveredBy(event, [content |-> n, update |-> u]),
           stream.step \in {"cutting", "cut"}, ~Pushed(stream, event).invalid
    PROVE  \A i \in 1..Len(Pushed(stream, event).buffer) :
               CoveredBy(Pushed(stream, event).buffer[i], [content |-> n, update |-> u])
  <1> DEFINE next == Pushed(stream, event)
  <1>1. stream \in StreamType /\ cursor \in Nat /\ Revision \in Nat
    BY SeenIs DEF StreamInv
  <1>2. CASE stream.invalid
    BY <1>1, <1>2, PushedIs
  <1>3. CASE ~stream.invalid
    <2>1. next.buffer = Append(stream.buffer, event)
      BY <1>1, <1>3, PushedIs, StoredIs
    <2>2. stream.buffer \in Seq(Events)
      BY <1>1 DEF StreamType
    <2> HIDE DEF next
    <2> SUFFICES ASSUME NEW i \in 1..Len(next.buffer)
                 PROVE  CoveredBy(next.buffer[i], [content |-> n, update |-> u])
      BY DEF next
    <2>3. CASE next.buffer[i] = event
      BY <2>3
    <2>4. CASE i \in 1..Len(stream.buffer) /\ next.buffer[i] = stream.buffer[i]
      <3>1. /\ stream.buffer[i] \in Events
            /\ CoveredBy(stream.buffer[i], [content |-> cursor, update |-> Revision])
        BY <1>3, <2>2, <2>4 DEF StreamInv, BufferInv
      <3>2. stream.buffer[i].at \in Nat /\ stream.buffer[i].kind \in {"content", "update"}
        BY <3>1 DEF Events
      <3>3. QED
        BY <1>1, <2>4, <3>1, <3>2 DEF CoveredBy
    <2>5. QED
      BY <2>1, <2>2, <2>3, <2>4, AppendProperties, LenProperties
  <1>4. QED
    BY <1>2, <1>3

-----------------------------------------------------------------------------
\* A state is published: the stream is told of it.
LEMMA PublishedKeeps ==
    ASSUME RegistryInv, Views, StreamInv, UNCHANGED <<cursor, client>>,
           Revision' = Revision + 1, NEW e \in Execs, NEW status \in Statuses,
           Seen' = Showing(e, status),
           stream' = Pushed(stream, Update(Revision + 1, e, status))
    PROVE  StreamInv'
  <1> DEFINE event == Update(Revision + 1, e, status)
  <1>1. stream \in StreamType /\ cursor \in Nat /\ Revision \in Nat
    BY SeenIs DEF StreamInv
  <1>2. /\ event \in Events
        /\ CoveredBy(event, [content |-> cursor, update |-> Revision + 1])
    BY <1>1, LimitsAssumption DEF Update, Events, Execs, CoveredBy
  <1>3. stream' = Pushed(stream, event)
    OBVIOUS
  <1> HIDE DEF event
  <1>4. /\ stream' \in StreamType /\ stream'.step = stream.step /\ stream'.tries = stream.tries
        /\ stream'.before = stream.before /\ stream'.instant = stream.instant
        /\ stream.invalid => stream' = stream
    BY <1>1, <1>2, <1>3, PushedIs
  <1>5. stream.before \in Nat /\ stream.instant \in Nat
    BY <1>1 DEF StreamType
  <1>6. CaptureInv'
    <2>1. stream'.step \in {"cutting", "cut"} => stream'.tries > 0 /\ stream'.before <= Revision'
      BY <1>1, <1>4, <1>5 DEF StreamInv, CaptureInv
    <2>2. stream'.step = "cut" => stream'.before <= stream'.instant /\ stream'.instant <= Revision'
      BY <1>1, <1>4, <1>5 DEF StreamInv, CaptureInv
    <2>3. QED
      BY <2>1, <2>2 DEF CaptureInv
  <1>7. BufferInv'
    <2>1. ASSUME stream'.step \in {"cutting", "cut"}, ~stream'.invalid, NEW i \in 1..Len(stream'.buffer)
          PROVE  CoveredBy(stream'.buffer[i], [content |-> cursor, update |-> Revision + 1])
      <3>1. Revision + 1 \in Nat /\ Revision <= Revision + 1 /\ cursor <= cursor
        BY <1>1
      <3>2. QED
        BY <1>1, <1>2, <1>3, <1>4, <2>1, <3>1, BufferKeeps
    <2>2. QED
      BY <2>1 DEF BufferInv
  <1>8. CutInv'
    <2>1. stream'.step = "cut" => stream'.before # Revision'
      BY <1>1, <1>4, <1>5 DEF StreamInv, CaptureInv
    <2>2. QED
      BY <2>1 DEF CutInv
  <1>9. LiveInv'
    <2>1. CASE stream.step = "live" /\ ~stream.invalid
      <3>1. Carries(stream, client, cursor, Revision, Seen.exec, Seen.status)
        BY <2>1 DEF StreamInv, LiveInv
      <3>2. \/ stream'.invalid
            \/ Carries(stream', client, cursor, Revision + 1,
                       Showing(e, status).exec, Showing(e, status).status)
        BY <1>1, <1>3, <3>1, CarriesUpdate DEF event
      <3>3. QED
        BY <3>2 DEF LiveInv
    <2>2. CASE ~(stream.step = "live" /\ ~stream.invalid)
      BY <1>4, <2>2 DEF LiveInv
    <2>3. QED
      BY <2>1, <2>2
  <1>10. QED
    BY <1>1, <1>4, <1>6, <1>7, <1>8, <1>9 DEF StreamInv

LEMMA RegistryStepsKeep ==
    ASSUME RegistryInv, Views, StreamInv, RegistrySteps
    PROVE  StreamInv'
  <1>1. cursor \in Nat /\ Revision \in Nat /\ [Next]_vars /\ UNCHANGED cursor
    BY SeenIs DEF StreamInv, RegistrySteps
  <1>2. CASE Rebound
    BY <1>1, <1>2, NoStreamKeeps DEF RegistrySteps
  <1>3. CASE ~Rebound /\ UNCHANGED <<Revision, Seen>>
    <2>1. UNCHANGED <<stream, client>>
      BY <1>3 DEF RegistrySteps, Delivers, Revision
    <2>2. QED
      BY <1>1, <1>3, <2>1, StreamStill
  <1>4. CASE ~Rebound /\ ~UNCHANGED <<Revision, Seen>>
    <2>1. /\ Revision' = Revision + 1 /\ Told(Watched) \in Execs
          /\ record'[Told(Watched)].status \in Statuses
          /\ Seen' = Showing(Told(Watched), record'[Told(Watched)].status)
      BY <1>1, <1>4, RevisionMoves
    <2>2. Revision' # Revision
      BY <1>1, <2>1
    <2>3. /\ stream' = Pushed(stream, Update(Revision', Told(Watched), record'[Told(Watched)].status))
          /\ UNCHANGED client
      BY <1>4, <2>2 DEF RegistrySteps, Delivers, Revision, Told
    <2>4. QED
      BY <1>1, <2>1, <2>3, PublishedKeeps
  <1>5. QED
    BY <1>2, <1>3, <1>4

\* The Product tells of content.
LEMMA TellsKeeps ==
    ASSUME RegistryInv, Views, StreamInv, Tells
    PROVE  StreamInv'
  <1> DEFINE event == Content(cursor + 1)
  <1>1. stream \in StreamType /\ cursor \in Nat /\ Revision \in Nat
    BY SeenIs DEF StreamInv
  <1>2. /\ event \in Events
        /\ CoveredBy(event, [content |-> cursor + 1, update |-> Revision])
    <2>1. 0 \in 0..MaxExecs
      BY LimitsAssumption
    <2>2. QED
      BY <1>1, <2>1, StatusesAre DEF Content, Events, CoveredBy
  <1>3. /\ stream' = Pushed(stream, event) /\ cursor' = cursor + 1
        /\ UNCHANGED <<vars, client>> /\ Revision' = Revision /\ Seen' = Seen
    BY DEF Tells, vars, registryVars, Revision, Seen
  <1> HIDE DEF event
  <1>4. /\ stream' \in StreamType /\ stream'.step = stream.step /\ stream'.tries = stream.tries
        /\ stream'.before = stream.before /\ stream'.instant = stream.instant
        /\ stream'.cut = stream.cut
        /\ stream.invalid => stream' = stream
    BY <1>1, <1>2, <1>3, PushedIs
  <1>5. CaptureInv'
    BY <1>3, <1>4 DEF StreamInv, CaptureInv
  <1>6. BufferInv'
    <2>1. ASSUME stream'.step \in {"cutting", "cut"}, ~stream'.invalid, NEW i \in 1..Len(stream'.buffer)
          PROVE  CoveredBy(stream'.buffer[i], [content |-> cursor + 1, update |-> Revision])
      <3>1. cursor + 1 \in Nat /\ Revision <= Revision /\ cursor <= cursor + 1
        BY <1>1
      <3>2. QED
        BY <1>1, <1>2, <1>3, <1>4, <2>1, <3>1, BufferKeeps
    <2>2. QED
      BY <1>3, <2>1 DEF BufferInv
  <1>7. CutInv'
    <2> SUFFICES ASSUME stream'.step = "cut", ~stream'.invalid, stream'.before = Revision
                 PROVE  CutInv'
      BY <1>3 DEF CutInv
    <2> DEFINE at == stream.cut.cursor
               marks == [content |-> at, update |-> Revision]
               live == PushAll(Activated(stream, marks), stream.buffer)
    <2>1. stream.step = "cut" /\ ~stream.invalid /\ stream.before = Revision
      BY <1>4
    <2>2. live.invalid \/ \A e, status :
                             Carries(live, Has(at, Revision, e, status), cursor, Revision, e, status)
      BY <2>1 DEF StreamInv, CutInv
    <2>3. /\ stream' = [stream EXCEPT !.buffer = Append(stream.buffer, event)]
          /\ stream'.buffer = Append(stream.buffer, event)
      BY <1>1, <1>2, <1>3, <2>1, PushedIs, StoredIs
    <2>4. Activated(stream', marks) = Activated(stream, marks)
      BY <1>1, <2>3 DEF Activated, StreamType
    <2>5. stream.buffer \in Seq(Events)
      BY <1>1 DEF StreamType
    <2>6. PushAll(Activated(stream', marks), stream'.buffer) = Pushed(live, event)
      BY <1>2, <2>3, <2>4, <2>5, PushOneMore
    <2> HIDE DEF live
    <2>7. \/ Pushed(live, event).invalid
          \/ \A e, status : Carries(Pushed(live, event), Has(at, Revision, e, status),
                                    cursor + 1, Revision, e, status)
      <3>1. CASE live.invalid
        BY <3>1 DEF Pushed
      <3>2. CASE ~live.invalid
        <4>1. ASSUME NEW e, NEW status, ~Pushed(live, event).invalid
              PROVE  Carries(Pushed(live, event), Has(at, Revision, e, status),
                             cursor + 1, Revision, e, status)
          BY <1>1, <2>2, <3>2, <4>1, CarriesContent DEF event
        <4>2. QED
          BY <4>1
      <3>3. QED
        BY <3>1, <3>2
    <2>8. stream'.cut.cursor = at
      BY <1>4
    <2>9. QED
      BY <1>3, <2>6, <2>7, <2>8 DEF CutInv
  <1>8. LiveInv'
    <2>1. CASE stream.step = "live" /\ ~stream.invalid
      <3>1. Carries(stream, client, cursor, Revision, Seen.exec, Seen.status)
        BY <2>1 DEF StreamInv, LiveInv
      <3>2. \/ stream'.invalid
            \/ Carries(stream', client, cursor + 1, Revision, Seen.exec, Seen.status)
        BY <1>1, <1>3, <3>1, CarriesContent DEF event
      <3>3. QED
        BY <1>3, <3>2 DEF LiveInv
    <2>2. CASE ~(stream.step = "live" /\ ~stream.invalid)
      BY <1>4, <2>2 DEF LiveInv
    <2>3. QED
      BY <2>1, <2>2
  <1>9. QED
    BY <1>1, <1>3, <1>4, <1>5, <1>6, <1>7, <1>8 DEF StreamInv

\* The steps of a capture and of the client leave the registry alone.
LEMMA RegistryStill ==
    ASSUME UNCHANGED vars
    PROVE  Revision' = Revision /\ Seen' = Seen
  BY DEF vars, registryVars, Revision, Seen

LEMMA CaptureKeeps ==
    ASSUME RegistryInv, Views, StreamInv, Capture
    PROVE  StreamInv'
  <1> DEFINE next == [NoStream EXCEPT !.step = "cutting", !.tries = Attempts, !.before = Revision]
  <1>1. cursor \in Nat /\ Revision \in Nat /\ Attempts \in Nat /\ Attempts > 0
    BY SeenIs, StreamAssumption DEF StreamInv
  <1>2. /\ stream' = next /\ cursor' = cursor /\ Revision' = Revision
    BY RegistryStill DEF Capture, Revision
  <1>3. NoStream \in StreamType
    <2>1. 0 \in 0..MaxExecs /\ "none" \in Statuses /\ <<>> \in Seq(Events)
      BY LimitsAssumption, StatusesAre
    <2>2. Idle \in Observations
      BY <2>1 DEF Idle, Observations
    <2>3. QED
      BY <2>1, <2>2 DEF NoStream, NoCut, StreamType, Marks
  <1>4. next \in StreamType /\ next.step = "cutting" /\ next.tries = Attempts
        /\ next.before = Revision /\ next.buffer = <<>>
    BY <1>1, <1>3 DEF StreamType, NoStream
  <1> HIDE DEF next
  <1>5. CaptureInv'
    BY <1>1, <1>2, <1>4 DEF CaptureInv
  <1>6. BufferInv'
    BY <1>2, <1>4 DEF BufferInv
  <1>7. CutInv' /\ LiveInv'
    BY <1>2, <1>4 DEF CutInv, LiveInv
  <1>8. QED
    BY <1>1, <1>2, <1>4, <1>5, <1>6, <1>7 DEF StreamInv

LEMMA CutKeeps ==
    ASSUME RegistryInv, Views, StreamInv, Cut
    PROVE  StreamInv'
  <1> DEFINE made == [cursor |-> cursor, obs |-> guard[Watched].obs]
             next == [stream EXCEPT !.step = "cut", !.instant = Revision, !.cut = made]
             marks == [content |-> cursor, update |-> Revision]
  <1>1. cursor \in Nat /\ Revision \in Nat /\ stream \in StreamType /\ stream.step = "cutting"
    BY SeenIs DEF StreamInv, Cut
  <1>2. stream' = next /\ cursor' = cursor /\ Revision' = Revision
    BY RegistryStill DEF Cut, Revision
  <1>3. made \in [cursor : Nat, obs : Observations] /\ made.cursor = cursor
    <2>1. guard[Watched] \in GuardType
      BY StreamAssumption, Types DEF RegistryInv
    <2>2. guard[Watched].obs \in Observations
      BY <2>1 DEF GuardType
    <2>3. QED
      BY <1>1, <2>2
  <1> HIDE DEF made
  <1>4. /\ next \in StreamType /\ next.step = "cut" /\ next.instant = Revision /\ next.cut = made
        /\ next.tries = stream.tries /\ next.before = stream.before
        /\ next.buffer = stream.buffer /\ next.invalid = stream.invalid
    BY <1>1, <1>3 DEF StreamType
  <1>5. next \in StreamType
    BY <1>4
  <1> HIDE DEF next
  <1>6. CaptureInv'
    BY <1>1, <1>2, <1>4 DEF StreamInv, CaptureInv
  <1>7. BufferInv'
    BY <1>1, <1>2, <1>4 DEF StreamInv, BufferInv
  <1>8. CutInv'
    <2> SUFFICES ASSUME ~stream.invalid
                 PROVE  CutInv'
      BY <1>2, <1>4 DEF CutInv
    <2> DEFINE live == Activated(next, marks)
    <2>1. marks \in Marks /\ <<>> \in Seq(Events)
      BY <1>1 DEF Marks
    <2>2. \A i \in 1..Len(stream.buffer) : CoveredBy(stream.buffer[i], marks)
      BY <1>1 DEF StreamInv, BufferInv
    <2> HIDE DEF marks
    <2>3. /\ live \in StreamType /\ live.step = "live" /\ ~live.invalid /\ live.marks = marks
          /\ live.buffer = <<>>
      BY <1>4, <2>1 DEF Activated, StreamType
    <2>4. stream.buffer \in Seq(Events)
      BY <1>1 DEF StreamType
    <2> HIDE DEF live
    <2>5. PushAll(live, stream.buffer) = live
      BY <2>2, <2>3, <2>4, PushCovered
    <2>6. marks = [content |-> cursor, update |-> Revision]
      BY DEF marks
    <2>7. \A e, status : Carries(live, Has(cursor, Revision, e, status), cursor, Revision, e, status)
      BY <2>3, <2>6, TakeNone DEF Carries
    <2>8. next.cut.cursor = cursor
      BY <1>3, <1>4
    <2>9. PushAll(Activated(next, marks), next.buffer) = live
      BY <1>4, <2>5 DEF live
    <2>10. QED
      BY <1>2, <2>6, <2>7, <2>8, <2>9 DEF CutInv
  <1>9. LiveInv'
    BY <1>2, <1>4 DEF LiveInv
  <1>10. QED
    BY <1>1, <1>2, <1>4, <1>6, <1>7, <1>8, <1>9 DEF StreamInv

LEMMA ActivateKeeps ==
    ASSUME RegistryInv, Views, StreamInv, Activate
    PROVE  /\ StreamInv'
           /\ stream'.step = "live" => /\ client'.update = Revision
                                       /\ client'.status = Seen.status
                                       /\ stream.instant = Revision
  <1> DEFINE at == stream.cut.cursor
             live == PushAll(Activated(stream, [content |-> at, update |-> Revision]), stream.buffer)
  <1>1. cursor \in Nat /\ Revision \in Nat /\ stream \in StreamType
    BY SeenIs DEF StreamInv
  <1>2. stream.step = "cut" /\ ~stream.invalid /\ stream.before = Revision
    BY DEF Activate, Stable, Revision
  <1>3. cursor' = cursor /\ Revision' = Revision /\ Seen' = Seen
    BY RegistryStill DEF Activate
  <1>4. live.invalid \/ \A e, status :
                           Carries(live, Has(at, Revision, e, status), cursor, Revision, e, status)
    BY <1>2 DEF StreamInv, CutInv
  <1>5. /\ stream' = IF live.invalid THEN NoStream ELSE live
        /\ ~live.invalid => client' = Has(at, Revision, Seen.exec, Seen.status)
    BY DEF Activate, Activated, Has, Revision
  <1> HIDE DEF live
  <1>6. CASE live.invalid
    <2>1. stream' = NoStream /\ stream'.step # "live"
      BY <1>5, <1>6 DEF NoStream
    <2>2. QED
      BY <1>1, <1>3, <2>1, NoStreamKeeps
  <1>7. CASE ~live.invalid
    <2>1. Carries(live, client', cursor, Revision, Seen.exec, Seen.status)
      BY <1>4, <1>5, <1>7
    <2>2. stream' = live /\ stream' \in StreamType /\ stream'.step = "live"
      BY <1>5, <1>7, <2>1 DEF Carries
    <2>3. LiveInv'
      BY <1>3, <2>1, <2>2 DEF LiveInv
    <2>4. BufferInv' /\ CutInv'
      BY <2>2 DEF BufferInv, CutInv
    <2>5. CaptureInv'
      BY <2>2 DEF CaptureInv
    <2>6. stream.instant = Revision
      <3>1. stream.instant \in Nat /\ stream.before <= stream.instant /\ stream.instant <= Revision
        BY <1>1, <1>2 DEF StreamInv, CaptureInv, StreamType
      <3>2. QED
        BY <1>1, <1>2, <3>1
    <2>7. client'.update = Revision /\ client'.status = Seen.status
      BY <1>5, <1>7 DEF Has
    <2>8. QED
      BY <1>1, <1>3, <2>2, <2>3, <2>4, <2>5, <2>6, <2>7 DEF StreamInv
  <1>8. QED
    BY <1>6, <1>7

LEMMA RetakeKeeps ==
    ASSUME RegistryInv, Views, StreamInv, Retake
    PROVE  StreamInv'
  <1> DEFINE next == [stream EXCEPT !.step = "cutting", !.tries = @ - 1, !.before = Revision]
  <1>1. cursor \in Nat /\ Revision \in Nat /\ stream \in StreamType /\ stream.step = "cut"
        /\ stream.tries > 0
    BY SeenIs DEF StreamInv, CaptureInv, Retake
  <1>2. cursor' = cursor /\ Revision' = Revision
    BY RegistryStill DEF Retake
  <1>3. CASE stream.tries = 1
    BY <1>1, <1>2, <1>3, NoStreamKeeps DEF Retake
  <1>4. CASE stream.tries # 1
    <2>1. stream' = next
      BY <1>4 DEF Retake, Revision
    <2>2. stream.tries \in Nat /\ stream.tries - 1 \in Nat /\ stream.tries - 1 > 0
      BY <1>1, <1>4 DEF StreamType
    <2>3. /\ next \in StreamType /\ next.step = "cutting" /\ next.tries = stream.tries - 1
          /\ next.before = Revision /\ next.buffer = stream.buffer /\ next.invalid = stream.invalid
      BY <1>1, <2>2 DEF StreamType
    <2> HIDE DEF next
    <2>4. CaptureInv'
      BY <1>1, <1>2, <2>1, <2>2, <2>3 DEF CaptureInv
    <2>5. BufferInv'
      BY <1>1, <1>2, <2>1, <2>3 DEF StreamInv, BufferInv
    <2>6. CutInv' /\ LiveInv'
      BY <2>1, <2>3 DEF CutInv, LiveInv
    <2>7. QED
      BY <1>1, <1>2, <2>1, <2>3, <2>4, <2>5, <2>6 DEF StreamInv
  <1>5. QED
    BY <1>3, <1>4

LEMMA ReadKeeps ==
    ASSUME RegistryInv, Views, StreamInv, Read
    PROVE  StreamInv'
  <1> DEFINE next == [stream EXCEPT !.buffer = <<>>]
  <1>1. cursor \in Nat /\ stream \in StreamType /\ stream.step = "live" /\ ~stream.invalid
    BY DEF StreamInv, Read
  <1>2. cursor' = cursor /\ Revision' = Revision /\ Seen' = Seen
    BY RegistryStill DEF Read
  <1>3. stream' = next /\ client' = TakeAll(client, stream.buffer)
    BY DEF Read
  <1>4. Carries(stream, client, cursor, Revision, Seen.exec, Seen.status)
    BY <1>1 DEF StreamInv, LiveInv
  <1>5. <<>> \in Seq(Events)
    OBVIOUS
  <1>6. /\ next \in StreamType /\ next.step = "live" /\ ~next.invalid /\ next.buffer = <<>>
        /\ next.marks = stream.marks /\ next.tries = stream.tries
    BY <1>1, <1>5 DEF StreamType
  <1> HIDE DEF next
  <1>7. TakeAll(client', next.buffer) = Has(cursor, Revision, Seen.exec, Seen.status)
    BY <1>3, <1>4, <1>6, TakeNone DEF Carries
  <1>8. Carries(next, client', cursor, Revision, Seen.exec, Seen.status)
    BY <1>4, <1>6, <1>7 DEF Carries
  <1>9. LiveInv'
    BY <1>2, <1>3, <1>8 DEF LiveInv
  <1>10. CaptureInv' /\ BufferInv' /\ CutInv'
    BY <1>1, <1>3, <1>6 DEF StreamInv, CaptureInv, BufferInv, CutInv
  <1>11. QED
    BY <1>1, <1>2, <1>3, <1>6, <1>9, <1>10 DEF StreamInv

-----------------------------------------------------------------------------
\* Watching a session disturbs nothing: whatever the client does, the registry behaves as
\* its specification says.
LEMMA StreamIsRegistry == StreamSpec => Spec
  <1>1. StreamInit => Init
    BY DEF StreamInit
  <1>2. [StreamNext]_allVars => [Next]_vars
    BY DEF StreamNext, RegistrySteps, Tells, Capture, Cut, Activate, Retake, GiveUp, Read,
           allVars
  <1>3. QED
    BY <1>1, <1>2, PTL DEF StreamSpec, Spec

LEMMA QuietViewHolds == Spec => []QuietView
  <1>1. Init => QuietView
    BY StreamAssumption DEF Init, QuietView, NewView, Idle
  <1>2. QED
    BY <1>1, QuietViewStep, RegistryHolds, ViewsHold, PTL DEF Spec

LEMMA StreamStep ==
    ASSUME RegistryInv, Views, StreamInv, [StreamNext]_allVars
    PROVE  StreamInv'
  <1>1. CASE GiveUp
    BY <1>1, NoStreamKeeps DEF GiveUp, StreamInv
  <1>2. CASE UNCHANGED allVars
    <2>1. UNCHANGED <<cursor, stream, client>> /\ UNCHANGED vars
      BY <1>2 DEF allVars, streamVars
    <2>2. QED
      BY <2>1, RegistryStill, StreamStill
  <1>3. QED
    BY <1>1, <1>2, RegistryStepsKeep, TellsKeeps, CaptureKeeps, CutKeeps, ActivateKeeps, RetakeKeeps,
       ReadKeeps DEF StreamNext

LEMMA StreamHolds == StreamSpec => [](RegistryInv /\ Views /\ QuietView /\ StreamInv)
  <1>1. StreamInit => StreamInv
    <2> SUFFICES ASSUME StreamInit PROVE StreamInv
      OBVIOUS
    <2>1. stream = NoStream /\ cursor = 0
      BY DEF StreamInit
    <2>2. NoStream \in StreamType
      <3>1. 0 \in 0..MaxExecs /\ "none" \in Statuses /\ <<>> \in Seq(Events)
        BY LimitsAssumption, StatusesAre
      <3>2. Idle \in Observations
        BY <3>1 DEF Idle, Observations
      <3>3. QED
        BY <3>1, <3>2 DEF NoStream, NoCut, StreamType, Marks
    <2>3. stream.step = "closed"
      BY <2>1 DEF NoStream
    <2>4. QED
      BY <2>1, <2>2, <2>3 DEF StreamInv, CaptureInv, BufferInv, CutInv, LiveInv
  <1>2. StreamSpec => []RegistryInv /\ []Views /\ []QuietView
    BY StreamIsRegistry, RegistryHolds, ViewsHold, QuietViewHolds, PTL
  <1>3. RegistryInv /\ Views /\ StreamInv /\ [StreamNext]_allVars => StreamInv'
    BY StreamStep
  <1>4. QED
    BY <1>1, <1>2, <1>3, PTL DEF StreamSpec

\* Through a bounded buffer, captures that are tried again, an overflow and a session that
\* is opened again: what a client of a valid stream was handed and what waits for it is all
\* that happened, in order, and the execution it shows is the one the view shows.
THEOREM NothingGoesMissing == StreamSpec => []NothingIsMissing
  <1>1. StreamInv => NothingIsMissing
    <2> SUFFICES ASSUME StreamInv, stream.step = "live", ~stream.invalid
                 PROVE  NothingIsMissing
      BY DEF NothingIsMissing
    <2>1. TakeAll(client, stream.buffer) = Has(cursor, Revision, Seen.exec, Seen.status)
      BY DEF StreamInv, LiveInv, Carries
    <2>2. QED
      BY <2>1 DEF NothingIsMissing, Has, Revision
  <1>2. QED
    BY <1>1, StreamHolds, PTL

\* A snapshot is of one instant although the Product is awaited between two looks at the
\* view: the cut was taken at the revision the client starts from, and Product and view
\* say the same of whether an execution runs.
THEOREM SnapshotsAreOneInstant == StreamSpec => SnapshotIsOneInstant
  <1> DEFINE OneInstant ==
        stream.step = "cut" /\ stream'.step = "live" =>
          /\ stream.instant = client'.update
          /\ client'.status = "running" <=> stream.cut.obs.status = "running"
  <1>1. RegistryInv /\ Views /\ QuietView /\ StreamInv /\ [StreamNext]_allVars => [OneInstant]_allVars
    <2> SUFFICES ASSUME RegistryInv, Views, QuietView, StreamInv, [StreamNext]_allVars,
                        stream.step = "cut", stream'.step = "live"
                 PROVE  OneInstant
      OBVIOUS
    <2>1. stream \in StreamType
      BY DEF StreamInv
    <2>2. ~UNCHANGED allVars
      BY DEF allVars, streamVars
    <2>3. ~(Capture \/ Cut \/ Retake \/ GiveUp \/ Read)
      <3>1. ~Capture /\ ~GiveUp
        <4>1. [NoStream EXCEPT !.step = "cutting", !.tries = Attempts,
                               !.before = view[Watched].revision].step = "cutting"
          BY DEF NoStream
        <4>2. NoStream.step = "closed"
          BY DEF NoStream
        <4>3. QED
          BY <4>1, <4>2 DEF Capture, GiveUp
      <3>2. ~Cut /\ ~Read
        BY DEF Cut, Read
      <3>3. ~Retake
        <4>1. [stream EXCEPT !.step = "cutting", !.tries = stream.tries - 1,
                             !.before = view[Watched].revision].step = "cutting"
          BY <2>1 DEF StreamType
        <4>2. NoStream.step = "closed"
          BY DEF NoStream
        <4>3. QED
          BY <4>1, <4>2 DEF Retake
      <3>4. QED
        BY <3>1, <3>2, <3>3
    <2>4. ~Tells
      <3>1. SUFFICES ASSUME Tells PROVE FALSE
        OBVIOUS
      <3>2. Content(cursor + 1) \in Events
        <4>1. 0 \in 0..MaxExecs /\ cursor + 1 \in Nat
          BY LimitsAssumption DEF StreamInv
        <4>2. QED
          BY <4>1, StatusesAre DEF Content, Events
      <3>3. stream' = Pushed(stream, Content(cursor + 1))
        BY <3>1 DEF Tells
      <3>4. QED
        BY <2>1, <3>2, <3>3, PushedIs
    <2>5. ~RegistrySteps
      <3>1. SUFFICES ASSUME RegistrySteps PROVE FALSE
        OBVIOUS
      <3>2. CASE Rebound
        BY <3>1, <3>2 DEF RegistrySteps, NoStream
      <3>3. CASE ~Rebound
        <4>1. stream' # stream
          OBVIOUS
        <4>2. /\ Revision' # Revision
              /\ stream' = Pushed(stream, Update(Revision', Told(Watched), record'[Told(Watched)].status))
          BY <3>1, <3>3, <4>1 DEF RegistrySteps, Delivers, Revision, Told
        <4>3. /\ Revision' = Revision + 1 /\ Told(Watched) \in Execs
              /\ record'[Told(Watched)].status \in Statuses
          BY <3>1, <3>3, <4>2, RevisionMoves DEF RegistrySteps
        <4>4. Revision' \in Nat
          BY <4>3, SeenIs
        <4>5. Update(Revision', Told(Watched), record'[Told(Watched)].status) \in Events
          BY <4>3, <4>4, LimitsAssumption DEF Update, Events, Execs
        <4>6. QED
          BY <2>1, <4>2, <4>5, PushedIs
      <3>4. QED
        BY <3>2, <3>3
    <2>6. Activate
      BY <2>2, <2>3, <2>4, <2>5 DEF StreamNext
    <2>7. client'.update = Revision /\ client'.status = Seen.status /\ stream.instant = Revision
      BY <2>6, ActivateKeeps
    <2>8. IF Seen.status = "running"
          THEN stream.cut.obs = [exec |-> Seen.exec, status |-> "running"]
          ELSE stream.cut.obs = view[Watched].quiescent
      BY <2>6 DEF Activate, Matches
    <2>9. Seen.status = "running" <=> stream.cut.obs.status = "running"
      BY <2>8 DEF QuietView
    <2>10. QED
      BY <2>7, <2>9
  <1>2. QED
    BY <1>1, StreamHolds, PTL DEF StreamSpec, SnapshotIsOneInstant
=============================================================================
