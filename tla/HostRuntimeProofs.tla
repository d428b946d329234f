--------------------------- MODULE HostRuntimeProofs --------------------------
(***************************************************************************)
(* For every number of runs and of troubles: the host has one run at a     *)
(* time, a host that was disposed of is quiet, and the key of equivalent   *)
(* deferred runs leads to the one that is not over.                        *)
(***************************************************************************)
EXTENDS HostRuntime, SequenceTheorems, TLAPS

Statuses == {"idle", "running", "aborting", "disposing", "disposed"}
Events == [from : Tasks \cup {Note}, doomed : BOOLEAN]

HostTypes ==
    /\ status \in Statuses
    /\ active \in Runs \cup {NoRun}
    /\ pc = [x \in Tasks |-> pc[x]]
    /\ deferred \subseteq Runs
    /\ mail \in Seq(Events) /\ poisoned \in BOOLEAN

\* Who has claimed the host is its active task, unless a dispose that was cancelled has
\* left it behind; the active task is claimed, and the status says so.
Claims ==
    /\ \A r, q \in Runs : pc[r] \in Claimed /\ pc[q] \in Claimed => r = q
    /\ \A r \in Runs : pc[r] \in Claimed => active = r \/ (cut /\ status = "disposed")
    /\ active # NoRun =>
           pc[active] \in Claimed /\ ~idle /\ status \in {"running", "aborting", "disposing"}

\* While the owner disposes, the host takes no run; and once it has seen that no run is
\* active there is none, unless it was cancelled.
Disposing ==
    /\ Owner \in cancel => cut
    /\ pc[Owner] \in {"telling", "gathering"} \cup Waiting => status = "disposing"
    /\ pc[Owner] \in {"driver", "draining", "gathering"} /\ ~cut => active = NoRun

\* A run has an event on the bus while it starts or finishes, and one only.
Told ==
    /\ \A n \in DOMAIN mail : mail[n].from \in Runs => pc[mail[n].from] \in {"starting", "finishing"}
    /\ \A n, k \in DOMAIN mail : mail[n].from = mail[k].from /\ mail[n].from \in Runs => n = k

HostInv == HostTypes /\ Claims /\ Disposing /\ Told

LEMMA HostInit == Init => HostInv
  <1> SUFFICES ASSUME Init PROVE HostInv
    OBVIOUS
  <1>1. Owner \in Tasks /\ Runs \subseteq Tasks
    BY DEF Tasks
  <1>2. pc = [x \in Tasks |-> "new"] /\ \A x \in Tasks : pc[x] = "new"
    BY DEF Init
  <1>3. HostTypes
    <2>1. pc = [x \in Tasks |-> pc[x]]
      BY <1>2
    <2>2. mail = <<>> /\ mail \in Seq(Events)
      BY DEF Init
    <2>3. QED
      BY <2>1, <2>2 DEF Init, HostTypes, Statuses
  <1>4. Claims /\ Disposing /\ Told
    BY <1>1, <1>2 DEF Init, Claims, Disposing, Told, Claimed, Waiting
  <1>5. QED
    BY <1>3, <1>4 DEF HostInv

-----------------------------------------------------------------------------
\* Nothing new on the bus is of a run, and what there was keeps its publisher.
SameMail ==
    /\ mail' \in Seq(Events) /\ Len(mail') >= Len(mail)
    /\ \A n \in DOMAIN mail' :
           IF n <= Len(mail) THEN mail'[n].from = mail[n].from ELSE mail'[n].from \notin Runs

LEMMA NoteMail ==
    ASSUME HostTypes, NEW x \in {Note, Owner}, mail' = Event(x, mail)
    PROVE  SameMail
  BY TasksAssumption DEF HostTypes, SameMail, Event, Events, Tasks

LEMMA DoomsMail ==
    ASSUME HostTypes, NEW T, NEW later \in Seq({Note, Owner}), Dooms(T, later)
    PROVE  SameMail /\ poisoned' \in BOOLEAN
  <1> DEFINE Publish(m) == m \o [n \in DOMAIN later |-> [from |-> later[n], doomed |-> poisoned']]
  <1>1. poisoned' \in BOOLEAN
    BY DEF Dooms, HostTypes
  <1>2. \E m \in Seq(Events) :
            /\ Len(m) = Len(mail) /\ \A n \in 1..Len(mail) : m[n].from = mail[n].from
            /\ mail' = Publish(m)
    <2>1. CASE TakenAlong(T) = {}
      BY <2>1 DEF Dooms, HostTypes
    <2>2. CASE TakenAlong(T) # {}
      <3> DEFINE first == CHOOSE n \in TakenAlong(T) : \A k \in TakenAlong(T) : n <= k
                 Doomed(begun) == [n \in DOMAIN mail |-> [mail[n] EXCEPT !.doomed = @ \/ n >= begun]]
      <3>1. PICK begun \in {1, first} : mail' = Publish(Doomed(begun))
        BY <2>2 DEF Dooms
      <3>2. \A n \in 1..Len(mail) : mail[n] \in Events
        BY DEF HostTypes
      <3>3. \A n \in 1..Len(mail) : Doomed(begun)[n] \in Events /\ Doomed(begun)[n].from = mail[n].from
        <4>1. SUFFICES ASSUME NEW n \in 1..Len(mail)
                       PROVE  Doomed(begun)[n] \in Events /\ Doomed(begun)[n].from = mail[n].from
          OBVIOUS
        <4>2. n \in DOMAIN mail
          BY DEF HostTypes
        <4>3. Doomed(begun)[n] = [mail[n] EXCEPT !.doomed = @ \/ n >= begun]
          BY <4>2
        <4>4. (mail[n].doomed \/ n >= begun) \in BOOLEAN
          OBVIOUS
        <4> HIDE DEF Doomed
        <4>5. QED
          BY <3>2, <4>3, <4>4 DEF Events
      <3>4. Doomed(begun) \in Seq(Events) /\ Len(Doomed(begun)) = Len(mail)
        <4>1. DOMAIN mail = 1..Len(mail) /\ Len(mail) \in Nat
          BY DEF HostTypes
        <4>2. Doomed(begun) \in [1..Len(mail) -> Events]
          BY <3>3, <4>1
        <4> HIDE DEF Doomed
        <4>3. QED
          BY <4>1, <4>2
      <3> HIDE DEF Doomed, Publish
      <3>5. QED
        BY <3>1, <3>3, <3>4
    <2>3. QED
      BY <2>1, <2>2
  <1>3. PICK m \in Seq(Events) :
            /\ Len(m) = Len(mail) /\ \A n \in 1..Len(mail) : m[n].from = mail[n].from
            /\ mail' = Publish(m)
    BY <1>2
  <1> DEFINE ps == [n \in DOMAIN later |-> [from |-> later[n], doomed |-> poisoned']]
  <1>4. /\ ps \in Seq(Events) /\ Len(ps) = Len(later)
        /\ \A n \in 1..Len(later) : ps[n].from \in {Note, Owner}
    <2>1. \A n \in 1..Len(later) : later[n] \in {Note, Owner} /\ ps[n] = [from |-> later[n], doomed |-> poisoned']
      OBVIOUS
    <2>2. \A n \in 1..Len(later) : ps[n] \in Events
      BY <1>1, <2>1 DEF Events, Tasks
    <2>3. DOMAIN ps = 1..Len(later) /\ Len(later) \in Nat
      OBVIOUS
    <2>4. ps \in [1..Len(later) -> Events]
      BY <2>2, <2>3
    <2> HIDE DEF ps
    <2>5. QED
      BY <2>1, <2>3, <2>4
  <1>5. mail' = m \o ps
    BY <1>3
  <1> HIDE DEF ps, Publish
  <1>6. mail' \in Seq(Events) /\ Len(mail') = Len(mail) + Len(later)
    <2>1. m \o ps \in Seq(Events) /\ Len(m \o ps) = Len(m) + Len(ps)
      BY <1>4, ConcatProperties
    <2>2. QED
      BY <1>3, <1>4, <1>5, <2>1
  <1>7. \A n \in DOMAIN mail' :
            IF n <= Len(mail) THEN mail'[n].from = mail[n].from ELSE mail'[n].from \in {Note, Owner}
    <2>1. \A n \in 1..(Len(m) + Len(ps)) :
              mail'[n] = IF n <= Len(m) THEN m[n] ELSE ps[n - Len(m)]
      BY <1>4, <1>5, ConcatProperties
    <2>2. DOMAIN mail' = 1..(Len(m) + Len(ps)) /\ Len(m) \in Nat /\ Len(ps) \in Nat
      BY <1>3, <1>4, <1>6
    <2>3. QED
      BY <1>3, <1>4, <2>1, <2>2
  <1>8. Len(mail) \in Nat /\ Len(later) \in Nat /\ Note \notin Runs /\ Owner \notin Runs
    BY TasksAssumption DEF HostTypes
  <1>9. SameMail
    BY <1>6, <1>7, <1>8 DEF SameMail
  <1>10. QED
    BY <1>1, <1>9

\* Tasks are cancelled and nobody publishes.
LEMMA DoomsNobody ==
    ASSUME HostTypes, NEW T, Dooms(T, <<>>)
    PROVE  SameMail /\ poisoned' \in BOOLEAN
  <1>1. <<>> \in Seq({Note, Owner})
    OBVIOUS
  <1>2. QED
    BY <1>1, DoomsMail

-----------------------------------------------------------------------------
\* A run that claims the host, works in it or lets it go.
InHost == {"starting", "working", "finishing"}

\* The owner is where it was, and nothing it relies on is taken from it.
LEMMA OwnerAsBefore ==
    ASSUME HostInv, pc'[Owner] = pc[Owner], Owner \in cancel' => Owner \in cancel \/ cut',
           cut => cut', status = "disposing" => status' = "disposing",
           active' \in {active, NoRun}
    PROVE  Disposing'
  BY DEF HostInv, Disposing

\* No run gets the host and none lets it go.
LEMMA HostAsBefore ==
    ASSUME HostInv, SameMail, UNCHANGED active, active # NoRun => idle' = idle, cut => cut',
           \A r \in Runs : pc'[r] = pc[r] \/ (pc[r] \notin InHost /\ pc'[r] \notin InHost),
           status = "disposed" => status' = "disposed",
           active # NoRun => status' \in {"running", "aborting", "disposing"}
    PROVE  Claims' /\ Told'
  <1>1. \A r \in Runs : pc'[r] \in Claimed <=> pc[r] \in Claimed
    BY DEF InHost, Claimed
  <1>2. active \in Runs \cup {NoRun}
    BY DEF HostInv, HostTypes
  <1>3. Claims'
    BY <1>1, <1>2 DEF HostInv, Claims
  <1>4. \A n \in DOMAIN mail' : mail'[n].from \in Runs => n \in DOMAIN mail /\ mail[n].from = mail'[n].from
    BY DEF SameMail, HostInv, HostTypes
  <1>5. \A r \in Runs : pc[r] \in {"starting", "finishing"} => pc'[r] = pc[r]
    BY DEF InHost
  <1>6. Told'
    BY <1>4, <1>5 DEF HostInv, Told
  <1>7. QED
    BY <1>3, <1>6

\* A task that is not in the host goes elsewhere out of it, the owner excepted.
LEMMA MovesAside ==
    ASSUME HostInv, NEW x \in Tasks, NEW to, pc' = [pc EXCEPT ![x] = to],
           x \in Runs => pc[x] \notin InHost /\ to \notin InHost
    PROVE  /\ pc' = [y \in Tasks |-> pc'[y]] /\ pc'[x] = to
           /\ \A y \in Tasks \ {x} : pc'[y] = pc[y]
           /\ \A r \in Runs : pc'[r] = pc[r] \/ (pc[r] \notin InHost /\ pc'[r] \notin InHost)
  BY DEF HostInv, HostTypes, Tasks

LEMMA OwnerIsATask == Owner \in Tasks \ Runs /\ Settler \in Tasks \ Runs /\ Runs \subseteq Tasks
  BY TasksAssumption DEF Tasks

LEMMA MailStays ==
    ASSUME HostTypes, mail' = mail
    PROVE  SameMail
  BY DEF HostTypes, SameMail

LEMMA AbortedKeeps ==
    ASSUME HostInv, status # "disposed", status' = AbortedStatus
    PROVE  /\ status' \in Statuses /\ (status = "disposing" => status' = "disposing")
           /\ active # NoRun => status' \in {"running", "aborting", "disposing"}
  BY DEF HostInv, HostTypes, Claims, AbortedStatus, Statuses

-----------------------------------------------------------------------------
\* The host is claimed while no run has it.
LEMMA ClaimKeeps ==
    ASSUME HostInv, NEW r \in Runs, pc[r] \notin InHost, CanRun,
           status \notin {"running", "aborting"}, Claim(r),
           UNCHANGED <<deferred, poisoned, cancel, cut>>
    PROVE  HostInv'
  <1>1. /\ status' = "running" /\ active' = r /\ idle' = FALSE
        /\ pc' = [pc EXCEPT ![r] = "starting"] /\ mail' = Event(r, mail)
    BY DEF Claim
  <1>2. status = "idle"
    BY DEF CanRun, Stopping, HostInv, HostTypes, Statuses
  <1>3. active = NoRun /\ \A q \in Runs : pc[q] \notin Claimed
    <2>1. active = NoRun
      BY <1>2 DEF HostInv, Claims
    <2>2. NoRun \notin Runs
      BY BoundsAssumption DEF NoRun, Runs
    <2>3. QED
      BY <1>2, <2>1, <2>2 DEF HostInv, Claims
  <1>4. /\ pc'[r] = "starting" /\ pc' = [y \in Tasks |-> pc'[y]]
        /\ \A y \in Tasks \ {r} : pc'[y] = pc[y]
    BY <1>1, OwnerIsATask DEF HostInv, HostTypes
  <1>5. [from |-> r, doomed |-> poisoned] \in Events
    BY OwnerIsATask DEF Events, HostInv, HostTypes
  <1>6. /\ mail' \in Seq(Events) /\ Len(mail') = Len(mail) + 1
        /\ \A n \in 1..Len(mail) : mail'[n] = mail[n]
        /\ mail'[Len(mail) + 1].from = r
    BY <1>1, <1>5 DEF Event, HostInv, HostTypes
  <1>7. HostTypes'
    BY <1>1, <1>4, <1>6 DEF HostInv, HostTypes, Statuses
  <1>8. Claims'
    BY <1>1, <1>3, <1>4, OwnerIsATask DEF HostInv, Claims, Claimed
  <1>9. Disposing'
    BY <1>1, <1>2, <1>4, OwnerIsATask DEF HostInv, Disposing, Waiting
  <1>10. Told'
    <2>1. \A n \in 1..Len(mail) : mail[n].from # r
      BY DEF HostInv, HostTypes, Told, InHost
    <2>2. DOMAIN mail' = 1..(Len(mail) + 1) /\ Len(mail) \in Nat /\ DOMAIN mail = 1..Len(mail)
      BY <1>6 DEF HostInv, HostTypes
    <2>3. QED
      BY <1>4, <1>6, <2>1, <2>2, OwnerIsATask DEF HostInv, Told
  <1>11. QED
    BY <1>7, <1>8, <1>9, <1>10 DEF HostInv

\* The operation is over: the host is free, and the end is told.
LEMMA WorkEndsKeeps ==
    ASSUME HostInv, NEW r \in Runs, WorkEnds(r)
    PROVE  HostInv'
  <1>1. /\ pc[r] = "working" /\ status' = ReadyAgain /\ active' = NoRun
        /\ pc' = [pc EXCEPT ![r] = "finishing"]
        /\ cancel' = cancel \ {r} /\ mail' = Event(r, mail)
        /\ UNCHANGED <<deferred, poisoned, cut>>
    BY DEF WorkEnds, deferVars, otherVars
  <1>2. /\ pc'[r] = "finishing" /\ pc' = [y \in Tasks |-> pc'[y]]
        /\ \A y \in Tasks \ {r} : pc'[y] = pc[y]
    BY <1>1, OwnerIsATask DEF HostInv, HostTypes
  <1>3. \A q \in Runs : pc'[q] \notin Claimed
    BY <1>1, <1>2, OwnerIsATask DEF HostInv, Claims, Claimed
  <1>4. status' \in Statuses /\ (status = "disposing" => status' = "disposing")
    BY <1>1 DEF ReadyAgain, Stopping, HostInv, HostTypes, Statuses
  <1>5. [from |-> r, doomed |-> poisoned] \in Events
    BY OwnerIsATask DEF Events, HostInv, HostTypes
  <1>6. /\ mail' \in Seq(Events) /\ Len(mail') = Len(mail) + 1
        /\ \A n \in 1..Len(mail) : mail'[n] = mail[n]
        /\ mail'[Len(mail) + 1].from = r
    BY <1>1, <1>5 DEF Event, HostInv, HostTypes
  <1>7. HostTypes'
    BY <1>1, <1>2, <1>4, <1>6 DEF HostInv, HostTypes
  <1>8. Claims'
    BY <1>1, <1>3 DEF Claims
  <1>9. Disposing'
    BY <1>1, <1>2, <1>4, OwnerIsATask, OwnerAsBefore
  <1>10. Told'
    <2>1. \A n \in 1..Len(mail) : mail[n].from # r
      BY <1>1 DEF HostInv, HostTypes, Told
    <2>2. DOMAIN mail' = 1..(Len(mail) + 1) /\ Len(mail) \in Nat /\ DOMAIN mail = 1..Len(mail)
      BY <1>6 DEF HostInv, HostTypes
    <2>3. QED
      BY <1>2, <1>6, <2>1, <2>2, OwnerIsATask DEF HostInv, Told
  <1>11. QED
    BY <1>7, <1>8, <1>9, <1>10 DEF HostInv

-----------------------------------------------------------------------------
\* The oldest event is over: what its publisher does then.
LEMMA EventEndsKeeps ==
    ASSUME HostInv, EventEnds
    PROVE  HostInv'
  <1> DEFINE e == Head(mail)
             x == e.from
  <1>1. /\ mail # <<>> /\ mail' = Tail(mail)
        /\ cancel' \in SUBSET cancel \/ cancel' \subseteq cancel
        /\ \E delivered \in BOOLEAN : Resumes(x, delivered)
        /\ UNCHANGED <<deferred, poisoned, cut>>
    BY DEF EventEnds, deferVars
  <1>2. /\ e \in Events /\ x \in Tasks \cup {Note} /\ e = mail[1]
        /\ Len(mail) \in Nat \ {0} /\ DOMAIN mail = 1..Len(mail)
        /\ mail' \in Seq(Events) /\ DOMAIN mail' = 1..(Len(mail) - 1)
        /\ \A n \in DOMAIN mail' : mail'[n] = mail[n + 1]
    <2>1. mail \in Seq(Events) /\ mail # <<>>
      BY <1>1 DEF HostInv, HostTypes
    <2>2. /\ Head(mail) \in Events /\ Tail(mail) \in Seq(Events)
          /\ Len(Tail(mail)) = Len(mail) - 1
          /\ \A n \in 1..Len(Tail(mail)) : Tail(mail)[n] = mail[n + 1]
      BY <2>1, HeadTailProperties
    <2>3. e.from \in Tasks \cup {Note}
      BY <2>2 DEF Events
    <2>4. e = mail[1] /\ Len(mail) \in Nat \ {0} /\ DOMAIN mail = 1..Len(mail)
      BY <2>1
    <2>5. DOMAIN Tail(mail) = 1..(Len(mail) - 1)
      BY <2>2, <2>4
    <2>6. QED
      BY <1>1, <2>2, <2>3, <2>4, <2>5
  <1> HIDE DEF e, x
  <1>3. x \in Runs => pc[x] \in {"starting", "finishing"}
    BY <1>2 DEF HostInv, Told, x
  <1>4. \A n \in DOMAIN mail' : mail'[n].from \in Runs =>
            mail'[n].from # x /\ pc[mail'[n].from] \in {"starting", "finishing"}
    BY <1>2 DEF HostInv, Told, x
  <1>5. \A n, k \in DOMAIN mail' : mail'[n].from = mail'[k].from /\ mail'[n].from \in Runs => n = k
    BY <1>2 DEF HostInv, Told
  <1>6. \* what becomes of the tasks and of the host suffices
        ASSUME pc' = [y \in Tasks |-> pc'[y]], status' \in Statuses, active' \in {active, NoRun},
               Claims', pc'[Owner] = pc[Owner] \/ Disposing',
               status = "disposing" => status' = "disposing",
               \A r \in Runs \ {x} : pc[r] \in {"starting", "finishing"} => pc'[r] = pc[r]
        PROVE  HostInv'
    <2>1. HostTypes'
      BY <1>1, <1>2, <1>6 DEF HostInv, HostTypes
    <2>2. Disposing'
      BY <1>1, <1>6, OwnerAsBefore
    <2>3. Told'
      BY <1>4, <1>5, <1>6 DEF Told
    <2>4. QED
      BY <1>6, <2>1, <2>2, <2>3 DEF HostInv
  <1>7. CASE UNCHANGED <<hostVars, pc>>
    BY <1>1, <1>6, <1>7 DEF HostInv, HostTypes, Claims, hostVars
  <1>8. CASE x \in Runs /\ pc[x] = "starting" /\ pc' = [pc EXCEPT ![x] = "working"] /\ UNCHANGED hostVars
    <2>1. pc'[x] = "working" /\ pc' = [y \in Tasks |-> pc'[y]] /\ \A y \in Tasks \ {x} : pc'[y] = pc[y]
      BY <1>8, OwnerIsATask DEF HostInv, HostTypes
    <2>2. \A r \in Runs : pc'[r] \in Claimed <=> pc[r] \in Claimed
      BY <1>8, <2>1, OwnerIsATask DEF Claimed
    <2>3. active \in Runs \cup {NoRun} /\ status \in Statuses
      BY DEF HostInv, HostTypes
    <2>4. Claims'
      BY <1>1, <1>8, <2>2, <2>3 DEF HostInv, Claims, hostVars
    <2>5. QED
      BY <1>6, <1>8, <2>1, <2>3, <2>4, OwnerIsATask DEF hostVars
  <1>9. CASE x \in Runs /\ pc[x] = "starting" /\ StartFails(x)
    <2> DEFINE gone == [pc EXCEPT ![x] = "done"]
    <2>1. status' = ReadyAgain /\ active' = NoRun /\ idle' = TRUE /\ pc' = Woken(gone)
      BY <1>9 DEF StartFails
    <2>2. gone[x] = "done" /\ \A y \in Tasks \ {x} : gone[y] = pc[y]
      BY <1>9, OwnerIsATask DEF HostInv, HostTypes
    <2> HIDE DEF gone
    <2>3. /\ pc' = [y \in Tasks |-> pc'[y]]
          /\ \A y \in Tasks : pc'[y] = IF gone[y] = "idling" THEN "looping" ELSE gone[y]
      BY <2>1 DEF Woken
    <2>4. \A q \in Runs : pc'[q] \notin Claimed
      BY <1>9, <2>2, <2>3, OwnerIsATask DEF HostInv, Claims, Claimed
    <2>5. Claims'
      BY <2>1, <2>4 DEF Claims
    <2>6. status' \in Statuses /\ (status = "disposing" => status' = "disposing")
      BY <2>1 DEF ReadyAgain, Stopping, HostInv, HostTypes, Statuses
    <2>7. Disposing'
      BY <1>1, <1>9, <2>1, <2>2, <2>3, <2>6, OwnerIsATask DEF HostInv, Disposing, Waiting
    <2>8. \A r \in Runs \ {x} : pc[r] \in {"starting", "finishing"} => pc'[r] = pc[r]
      BY <2>2, <2>3, OwnerIsATask
    <2>9. QED
      BY <1>6, <2>1, <2>3, <2>5, <2>6, <2>7, <2>8
  <1>10. CASE x \in Runs /\ pc[x] = "finishing" /\ RunOver(x)
    <2> DEFINE gone == [pc EXCEPT ![x] = "done"]
    <2>1. /\ UNCHANGED <<status, active>>
          /\ \/ active = NoRun /\ pc' = Woken(gone)
             \/ pc' = gone /\ idle' = idle
      BY <1>10 DEF RunOver
    <2>2. gone = [y \in Tasks |-> gone[y]] /\ gone[x] = "done" /\ \A y \in Tasks \ {x} : gone[y] = pc[y]
      BY <1>10, OwnerIsATask DEF HostInv, HostTypes
    <2> HIDE DEF gone
    <2>3. /\ pc' = [y \in Tasks |-> pc'[y]]
          /\ \A y \in Tasks : pc'[y] = gone[y] \/ (gone[y] = "idling" /\ pc'[y] = "looping")
      BY <2>1, <2>2 DEF Woken
    <2>4. \A r \in Runs : pc'[r] \in Claimed <=> pc[r] \in Claimed
      BY <1>10, <2>2, <2>3, OwnerIsATask DEF Claimed
    <2>5. active \in Runs \cup {NoRun} /\ status \in Statuses
      BY DEF HostInv, HostTypes
    <2>6. Claims'
      BY <1>1, <2>1, <2>4, <2>5 DEF HostInv, Claims
    <2>7. Disposing'
      BY <1>1, <1>10, <2>1, <2>2, <2>3, OwnerIsATask DEF HostInv, Disposing, Waiting
    <2>8. \A r \in Runs \ {x} : pc[r] \in {"starting", "finishing"} => pc'[r] = pc[r]
      BY <2>2, <2>3, OwnerIsATask
    <2>9. QED
      BY <1>6, <2>1, <2>3, <2>5, <2>6, <2>7, <2>8
  <1>11. ASSUME x \notin Runs, UNCHANGED hostVars,
                NEW to \in {"looping", "new", "done"}, pc' = [pc EXCEPT ![x] = to],
                x = Owner /\ to = "looping" => pc[Owner] = "telling"
         PROVE HostInv'
    <2>1. \A r \in Runs : pc'[r] = pc[r]
      BY <1>11, OwnerIsATask DEF HostInv, HostTypes
    <2>2. pc' = [y \in Tasks |-> pc'[y]] /\ (pc'[Owner] = pc[Owner] \/ (x = Owner /\ pc'[Owner] = to))
      BY <1>11, OwnerIsATask DEF HostInv, HostTypes
    <2>3. active \in Runs \cup {NoRun} /\ status \in Statuses
      BY DEF HostInv, HostTypes
    <2>4. Claims'
      BY <1>1, <1>11, <2>1, <2>3 DEF HostInv, Claims, hostVars
    <2>5. Disposing'
      BY <1>1, <1>11, <2>2 DEF HostInv, Disposing, Waiting, hostVars
    <2>6. QED
      BY <1>6, <1>11, <2>1, <2>2, <2>3, <2>4, <2>5 DEF hostVars
  <1>12. QED
    <2>1. PICK delivered \in BOOLEAN : Resumes(x, delivered)
      BY <1>1
    <2>2. CASE x = Note
      <3>1. UNCHANGED hostVars /\ UNCHANGED pc
        BY <2>1, <2>2, TasksAssumption DEF Resumes, hostVars
      <3>2. QED
        BY <1>7, <3>1
    <2>3. CASE x # Note /\ x \in Runs /\ pc[x] = "starting"
      <3>1. (pc' = [pc EXCEPT ![x] = "working"] /\ UNCHANGED hostVars) \/ StartFails(x)
        BY <2>1, <2>3, OwnerIsATask DEF Resumes
      <3>2. QED
        BY <1>8, <1>9, <2>3, <3>1
    <2>4. CASE x # Note /\ x \in Runs /\ pc[x] = "finishing"
      <3>1. RunOver(x)
        BY <2>1, <2>4, OwnerIsATask DEF Resumes
      <3>2. QED
        BY <1>10, <2>4, <3>1
    <2>5. CASE x # Note /\ x \notin Runs /\ x = Owner /\ pc[x] = "telling"
      <3>1. UNCHANGED hostVars /\ \E to \in {"looping", "new"} : pc' = [pc EXCEPT ![x] = to]
        BY <2>1, <2>5 DEF Resumes
      <3>2. QED
        BY <1>11, <2>5, <3>1
    <2>6. CASE x # Note /\ x \notin Runs /\ ~(x = Owner /\ pc[x] = "telling")
      <3>1. UNCHANGED hostVars /\ pc' = [pc EXCEPT ![x] = "done"]
        BY <2>1, <2>6 DEF Resumes
      <3>2. QED
        BY <1>11, <2>6, <3>1
    <2>7. QED
      BY <1>3, <2>2, <2>3, <2>4, <2>5, <2>6

-----------------------------------------------------------------------------
\* Waits. A step of the loop that takes no part in the host and leaves the owner's
\* promise as it is.
LEMMA AsideKeeps ==
    ASSUME HostInv, SameMail, UNCHANGED <<active, idle>>, deferred' \subseteq Runs,
           status' \in Statuses, poisoned' \in BOOLEAN, cut => cut', Disposing',
           pc' = [x \in Tasks |-> pc'[x]],
           \A r \in Runs : pc'[r] = pc[r] \/ (pc[r] \notin InHost /\ pc'[r] \notin InHost),
           status = "disposed" => status' = "disposed",
           active # NoRun => status' \in {"running", "aborting", "disposing"}
    PROVE  HostInv'
  <1>1. HostTypes'
    BY DEF HostInv, HostTypes, SameMail
  <1>2. QED
    BY <1>1, HostAsBefore DEF HostInv

\* The owner goes on from where the host is its own.
LEMMA OwnerGoesOn ==
    ASSUME HostInv, NEW to \in {"telling", "gathering"} \cup Waiting,
           pc' = [pc EXCEPT ![Owner] = to], cut => cut',
           Owner \in cancel' => cut', status' = "disposing", UNCHANGED active,
           to \in {"driver", "draining", "gathering"} => active = NoRun \/ cut'
    PROVE  Disposing'
  BY OwnerIsATask DEF HostInv, HostTypes, Disposing

LEMMA WaitsAre ==
    /\ Waiting \cap InHost = {} /\ "done" \notin InHost /\ "new" \notin InHost
    /\ "gathering" \notin InHost /\ "telling" \notin InHost /\ "farewell" \notin InHost
  BY DEF Waiting, InHost

LEMMA LooksKeeps ==
    ASSUME HostInv, NEW x \in Tasks, Looks(x)
    PROVE  HostInv'
  <1>1. /\ pc[x] = "looping" /\ pc[x] \notin InHost
        /\ UNCHANGED <<cancel, deferred, poisoned, cut>>
    BY DEF Looks, deferVars, otherVars, InHost
  <1>2. CASE x \in Runs /\ status \notin {"running", "aborting"} /\ CanRun /\ Claim(x)
    BY <1>1, <1>2, ClaimKeeps
  <1>3. ASSUME UNCHANGED <<status, active, idle, mail>>, NEW to \in {"idling", "driver", "done"},
               To(x, to), to = "driver" => active = NoRun, to = "done" => x \in Runs
        PROVE  HostInv'
    <2>1. pc' = [pc EXCEPT ![x] = to] /\ to \notin InHost
      BY <1>3 DEF To, InHost
    <2>2. /\ pc' = [y \in Tasks |-> pc'[y]] /\ \A y \in Tasks \ {x} : pc'[y] = pc[y]
          /\ \A r \in Runs : pc'[r] = pc[r] \/ (pc[r] \notin InHost /\ pc'[r] \notin InHost)
      BY <1>1, <2>1, MovesAside
    <2>3. Disposing'
      <3>1. CASE x = Owner
        <4>1. pc[Owner] \in Waiting /\ to \in Waiting
          BY <1>1, <1>3, <3>1, OwnerIsATask DEF Waiting
        <4>2. status = "disposing" /\ (Owner \in cancel => cut)
          BY <4>1 DEF HostInv, Disposing
        <4>3. QED
          BY <1>1, <1>3, <2>1, <3>1, <4>1, <4>2, OwnerGoesOn
      <3>2. CASE x # Owner
        BY <1>1, <1>3, <2>2, <3>2, OwnerIsATask, OwnerAsBefore
      <3>3. QED
        BY <3>1, <3>2
    <2>4. HostTypes /\ SameMail /\ Claims
      BY <1>3, MailStays DEF HostInv
    <2>5. QED
      BY <1>1, <1>3, <2>2, <2>3, <2>4, AsideKeeps DEF HostTypes, Claims
  <1>4. CASE x \in Runs /\ Raises(x) /\ UNCHANGED <<hostVars, mail>>
    <2>1. To(x, "done")
      BY <1>4, OwnerIsATask DEF Raises
    <2>2. QED
      BY <1>3, <1>4, <2>1 DEF hostVars
  <1>5. CASE To(x, "idling") /\ UNCHANGED <<hostVars, mail>>
    BY <1>3, <1>5 DEF hostVars
  <1>6. CASE active = NoRun /\ To(x, "driver") /\ UNCHANGED <<hostVars, mail>>
    BY <1>3, <1>6 DEF hostVars
  <1>7. QED
    BY <1>2, <1>4, <1>5, <1>6 DEF Looks

\* A task raises where it waits; the owner goes on with its finally, knowing that no
\* run is active unless it was cancelled.
LEMMA RaisesKeeps ==
    ASSUME HostInv, NEW x \in Tasks, Raises(x),
           pc[x] \in {"driver", "draining"}
             \/ (x \in cancel /\ pc[x] \in Waiting)
             \/ (x = Settler /\ pc[x] = "gathering"),
           cancel' \subseteq cancel,
           UNCHANGED <<hostVars, deferVars, busVars, cut>>
    PROVE  HostInv'
  <1> DEFINE to == CASE x = Owner -> "gathering" [] x = Settler -> "new" [] OTHER -> "done"
  <1>1. pc' = [pc EXCEPT ![x] = to]
    BY DEF Raises, To
  <1>2. to \in {"gathering", "new", "done"} /\ (x = Owner => to = "gathering")
    BY OwnerIsATask, TasksAssumption
  <1> HIDE DEF to
  <1>3. to \notin InHost /\ (x \in Runs => pc[x] \notin InHost)
    BY <1>2, OwnerIsATask DEF InHost, Waiting
  <1>4. /\ pc' = [y \in Tasks |-> pc'[y]] /\ \A y \in Tasks \ {x} : pc'[y] = pc[y]
        /\ \A r \in Runs : pc'[r] = pc[r] \/ (pc[r] \notin InHost /\ pc'[r] \notin InHost)
    BY <1>1, <1>3, MovesAside
  <1>5. Disposing'
    <2>1. CASE x = Owner
      <3>1. pc[Owner] \in Waiting
        BY <2>1, TasksAssumption DEF Waiting
      <3>2. status = "disposing" /\ (Owner \in cancel => cut)
        BY <3>1 DEF HostInv, Disposing
      <3>3. active = NoRun \/ cut
        BY <2>1, <3>2, TasksAssumption DEF HostInv, Disposing
      <3>4. QED
        BY <1>1, <1>2, <2>1, <3>2, <3>3, OwnerGoesOn DEF hostVars
    <2>2. CASE x # Owner
      BY <1>4, <2>2, OwnerIsATask, OwnerAsBefore DEF hostVars
    <2>3. QED
      BY <2>1, <2>2
  <1>6. HostTypes /\ SameMail /\ Claims
    BY MailStays DEF HostInv, busVars
  <1>7. QED
    BY <1>4, <1>5, <1>6, AsideKeeps DEF hostVars, deferVars, busVars, HostTypes, Claims

\* What the loop does with a task that can go on.
LEMMA ContinuesKeeps ==
    ASSUME HostInv, NEW x \in Tasks, Continues(x)
    PROVE  HostInv'
  <1>1. CASE Looks(x)
    BY <1>1, LooksKeeps
  <1>2. CASE DriverIdle(x)
    <2>1. /\ pc[x] = "driver" /\ pc[x] \notin InHost
          /\ UNCHANGED <<active, idle, cancel, deferVars, busVars, cut>>
      BY <1>2 DEF DriverIdle, InHost
    <2>2. CASE Raises(x) /\ UNCHANGED status
      BY <2>1, <2>2, RaisesKeeps DEF hostVars
    <2>3. CASE /\ To(x, "draining")
               /\ status' = IF active = NoRun /\ status \in {"running", "aborting"}
                            THEN "idle" ELSE status
      <3>1. pc' = [pc EXCEPT ![x] = "draining"] /\ "draining" \notin InHost
        BY <2>3 DEF To, InHost
      <3>2. /\ pc' = [y \in Tasks |-> pc'[y]] /\ \A y \in Tasks \ {x} : pc'[y] = pc[y]
            /\ \A r \in Runs : pc'[r] = pc[r] \/ (pc[r] \notin InHost /\ pc'[r] \notin InHost)
        BY <2>1, <3>1, MovesAside
      <3>3. /\ status' \in Statuses /\ (status = "disposing" => status' = "disposing")
            /\ (status = "disposed" => status' = "disposed")
            /\ (active # NoRun => status' \in {"running", "aborting", "disposing"})
        BY <2>3 DEF HostInv, HostTypes, Claims, Statuses
      <3>4. Disposing'
        <4>1. CASE x = Owner
          <5>1. status = "disposing" /\ (Owner \in cancel => cut) /\ (active = NoRun \/ cut)
            BY <2>1, <4>1 DEF HostInv, Disposing, Waiting
          <5>2. "draining" \in Waiting
            BY DEF Waiting
          <5>3. QED
            BY <2>1, <3>1, <3>3, <4>1, <5>1, <5>2, OwnerGoesOn
        <4>2. CASE x # Owner
          BY <2>1, <3>2, <3>3, <4>2, OwnerIsATask, OwnerAsBefore
        <4>3. QED
          BY <4>1, <4>2
      <3>5. HostTypes /\ SameMail
        BY <2>1, MailStays DEF HostInv, busVars
      <3>6. QED
        BY <2>1, <3>2, <3>3, <3>4, <3>5, AsideKeeps DEF deferVars, busVars, HostTypes
    <2>4. QED
      BY <1>2, <2>2, <2>3 DEF DriverIdle
  <1>3. CASE Drained(x)
    <2>1. /\ pc[x] = "draining" /\ pc[x] \notin InHost
          /\ UNCHANGED <<hostVars, cancel, deferVars, busVars, cut>>
      BY <1>3 DEF Drained, InHost
    <2>2. CASE Raises(x)
      BY <2>1, <2>2, RaisesKeeps
    <2>3. ASSUME NEW to \in {"looping", "gathering"}, To(x, to), to = "looping" <=> x \in Runs
          PROVE  HostInv'
      <3>1. pc' = [pc EXCEPT ![x] = to] /\ to \notin InHost
        BY <2>3 DEF To, InHost
      <3>2. /\ pc' = [y \in Tasks |-> pc'[y]] /\ \A y \in Tasks \ {x} : pc'[y] = pc[y]
            /\ \A r \in Runs : pc'[r] = pc[r] \/ (pc[r] \notin InHost /\ pc'[r] \notin InHost)
        BY <2>1, <3>1, MovesAside
      <3>3. Disposing'
        <4>1. CASE x = Owner
          <5>1. status = "disposing" /\ (Owner \in cancel => cut) /\ (active = NoRun \/ cut)
            BY <2>1, <4>1 DEF HostInv, Disposing, Waiting
          <5>2. QED
            BY <2>1, <2>3, <3>1, <4>1, <5>1, OwnerGoesOn, OwnerIsATask DEF hostVars
        <4>2. CASE x # Owner
          BY <2>1, <3>2, <4>2, OwnerIsATask, OwnerAsBefore DEF hostVars
        <4>3. QED
          BY <4>1, <4>2
      <3>4. HostTypes /\ SameMail /\ Claims
        BY <2>1, MailStays DEF HostInv, busVars
      <3>5. QED
        BY <2>1, <3>2, <3>3, <3>4, AsideKeeps DEF hostVars, deferVars, busVars, HostTypes, Claims
    <2>4. QED
      BY <1>3, <2>2, <2>3 DEF Drained
  <1>4. CASE Cancelled(x)
    BY <1>4, RaisesKeeps DEF Cancelled, otherVars
  <1>5. CASE x \in Runs /\ WorkEnds(x)
    BY <1>5, WorkEndsKeeps
  <1>6. CASE x \in Runs /\ Observed(x)
    <2>1. deferred' \subseteq Runs /\ UNCHANGED <<hostVars, taskVars, busVars, cut>>
      BY <1>6 DEF Observed, otherVars, HostInv, HostTypes
    <2>2. Disposing' /\ SameMail
      BY <2>1, OwnerAsBefore, MailStays DEF hostVars, taskVars, busVars, HostInv
    <2>3. QED
      BY <2>1, <2>2, AsideKeeps DEF hostVars, taskVars, busVars, HostInv, HostTypes, Claims
  <1>7. CASE x = Settler /\ SettleGathers
    <2>1. /\ pc[x] = "gathering"
          /\ UNCHANGED <<hostVars, deferVars, cut>>
          /\ \E to \in {"new", "looping"} : pc' = [pc EXCEPT ![x] = to]
      BY <1>7 DEF SettleGathers, Round, To
    <2>2. /\ cancel' \subseteq cancel \cup deferred
          /\ SameMail /\ poisoned' \in BOOLEAN
      <3>1. CASE UNCHANGED <<cancel, mail, poisoned>>
        BY <3>1, MailStays DEF HostInv, HostTypes
      <3>2. CASE Round(settle.cancels, settle.cancelled, <<>>)
        <4>1. /\ cancel' \subseteq cancel \cup deferred
              /\ \E T : Dooms(T, <<>>)
          BY <3>2 DEF Round
        <4>2. QED
          BY <4>1, DoomsNobody DEF HostInv
      <3>3. QED
        BY <1>7, <3>1, <3>2 DEF SettleGathers
    <2>3. /\ pc' = [y \in Tasks |-> pc'[y]] /\ \A y \in Tasks \ {x} : pc'[y] = pc[y]
          /\ \A r \in Runs : pc'[r] = pc[r] \/ (pc[r] \notin InHost /\ pc'[r] \notin InHost)
      BY <1>7, <2>1, OwnerIsATask, MovesAside
    <2>4. Disposing'
      BY <1>7, <2>1, <2>2, <2>3, OwnerIsATask, TasksAssumption, OwnerAsBefore
         DEF hostVars, HostInv, HostTypes
    <2>5. QED
      BY <2>1, <2>2, <2>3, <2>4, AsideKeeps DEF hostVars, deferVars, HostInv, HostTypes, Claims
  <1>8. CASE x = Owner /\ Disposed
    <2>1. /\ pc[Owner] = "gathering"
          /\ status' = "disposed" /\ active' = NoRun
          /\ pc' = [pc EXCEPT ![Owner] = "farewell"]
          /\ cancel' \subseteq cancel /\ mail' = Event(Owner, mail)
          /\ UNCHANGED <<deferred, poisoned, cut>>
      BY <1>8 DEF Disposed, To, deferVars
    <2>2. /\ pc' = [y \in Tasks |-> pc'[y]] /\ pc'[Owner] = "farewell"
          /\ \A r \in Runs : pc'[r] = pc[r]
      BY <2>1, OwnerIsATask DEF HostInv, HostTypes
    <2>3. SameMail
      BY <2>1, NoteMail DEF HostInv
    <2>4. HostTypes'
      BY <2>1, <2>2, <2>3 DEF HostInv, HostTypes, SameMail, Statuses
    <2>5. status = "disposing" /\ (active = NoRun \/ cut)
      BY <2>1 DEF HostInv, Disposing
    <2>6. NoRun \notin Runs
      BY BoundsAssumption DEF NoRun, Runs
    <2>7. \A r \in Runs : pc[r] \in Claimed => cut
      BY <2>5, <2>6 DEF HostInv, Claims
    <2>8. Claims'
      BY <2>1, <2>2, <2>7 DEF HostInv, Claims
    <2>9. Disposing'
      BY <2>1, <2>2 DEF HostInv, Disposing, Waiting
    <2>10. Told'
      <3>1. \A n \in DOMAIN mail' : mail'[n].from \in Runs => n \in DOMAIN mail /\ mail[n].from = mail'[n].from
        BY <2>3 DEF SameMail, HostInv, HostTypes
      <3>2. QED
        BY <2>2, <3>1 DEF HostInv, Told
    <2>11. QED
      BY <2>4, <2>8, <2>9, <2>10 DEF HostInv
  <1>9. QED
    BY <1>1, <1>2, <1>3, <1>4, <1>5, <1>6, <1>7, <1>8 DEF Continues

-----------------------------------------------------------------------------
\* What is asked of the host from outside.

LEMMA RunsAsk ==
    ASSUME HostInv, NEW r \in Runs, Run(r) \/ CancelDeferred(r) \/ \E k \in Keys \cup {NoKey} : Defer(r, k)
    PROVE  HostInv'
  <1>1. CASE Run(r)
    BY <1>1, ClaimKeeps DEF Run, New, InHost, IsActive, deferVars, otherVars
  <1>2. CASE CancelDeferred(r)
    <2>1. /\ cancel' = cancel \cup {r}
          /\ UNCHANGED <<hostVars, pc, deferVars, cut>>
          /\ Dooms({r}, <<>>)
      BY <1>2 DEF CancelDeferred
    <2>2. SameMail /\ poisoned' \in BOOLEAN
      BY <2>1, DoomsNobody DEF HostInv
    <2>3. Disposing'
      BY <2>1, OwnerIsATask, OwnerAsBefore DEF hostVars
    <2>4. QED
      BY <2>1, <2>2, <2>3, AsideKeeps DEF hostVars, deferVars, HostInv, HostTypes, Claims
  <1>3. ASSUME NEW k \in Keys \cup {NoKey}, Defer(r, k) PROVE HostInv'
    <2>1. /\ pc[r] = "new" /\ pc' = [pc EXCEPT ![r] = "looping"]
          /\ deferred' = deferred \cup {r}
          /\ UNCHANGED <<hostVars, cancel, busVars, cut>>
      BY <1>3 DEF Defer, New, otherVars
    <2>2. /\ pc' = [y \in Tasks |-> pc'[y]] /\ \A y \in Tasks \ {r} : pc'[y] = pc[y]
          /\ \A q \in Runs : pc'[q] = pc[q] \/ (pc[q] \notin InHost /\ pc'[q] \notin InHost)
      BY <2>1, OwnerIsATask, WaitsAre, MovesAside DEF InHost
    <2>3. Disposing' /\ SameMail
      BY <2>1, <2>2, OwnerIsATask, OwnerAsBefore, MailStays DEF hostVars, busVars, HostInv
    <2>4. QED
      BY <2>1, <2>2, <2>3, AsideKeeps DEF hostVars, busVars, HostInv, HostTypes, Claims
  <1>4. QED
    BY <1>1, <1>2, <1>3

LEMMA CallersCancelled ==
    ASSUME HostInv, NEW x \in Tasks, CancelCaller(x)
    PROVE  HostInv'
  <1>1. /\ cancel' = cancel \cup {x} /\ cut' = (cut \/ x = Owner)
        /\ UNCHANGED <<hostVars, pc, deferVars>>
        /\ Dooms({x}, <<>>)
    BY DEF CancelCaller
  <1>2. SameMail /\ poisoned' \in BOOLEAN
    BY <1>1, DoomsNobody DEF HostInv
  <1>3. Disposing'
    BY <1>1, OwnerAsBefore DEF hostVars
  <1>4. QED
    BY <1>1, <1>2, <1>3, AsideKeeps DEF hostVars, deferVars, HostInv, HostTypes, Claims

LEMMA SettlesAndAborts ==
    ASSUME HostInv, Abort \/ \E cancels \in BOOLEAN : SettleBegins(cancels)
    PROVE  HostInv'
  <1>1. CASE Abort
    <2>1. /\ status # "disposed" /\ status' = AbortedStatus /\ mail' = Event(Note, mail)
          /\ UNCHANGED <<active, idle, taskVars, deferVars, poisoned, cut>>
      BY <1>1 DEF Abort
    <2>2. SameMail
      BY <2>1, NoteMail DEF HostInv
    <2>3. Disposing'
      BY <2>1, AbortedKeeps, OwnerAsBefore DEF taskVars
    <2>4. QED
      BY <2>1, <2>2, <2>3, AbortedKeeps, AsideKeeps DEF taskVars, deferVars, HostInv, HostTypes
  <1>2. ASSUME NEW cancels \in BOOLEAN, SettleBegins(cancels) PROVE HostInv'
    <2>1. /\ pc[Settler] = "new"
          /\ status' = status \/ (status # "disposed" /\ status' = AbortedStatus)
          /\ \E later \in {<<>>, <<Note>>} : Round(cancels, {}, later)
          /\ UNCHANGED <<active, idle, deferVars, cut>>
      BY <1>2 DEF SettleBegins
    <2>2. /\ pc' = [pc EXCEPT ![Settler] = "looping"]
          /\ cancel' \subseteq cancel \cup deferred
          /\ \E T : \E later \in {<<>>, <<Note>>} : Dooms(T, later)
      BY <2>1 DEF Round, To
    <2>3. <<>> \in Seq({Note, Owner}) /\ <<Note>> \in Seq({Note, Owner})
      OBVIOUS
    <2>4. SameMail /\ poisoned' \in BOOLEAN
      <3>1. PICK T : \E later \in {<<>>, <<Note>>} : Dooms(T, later)
        BY <2>2
      <3>2. QED
        BY <2>3, <3>1, DoomsMail DEF HostInv
    <2>5. /\ status' \in Statuses /\ (status = "disposing" => status' = "disposing")
          /\ (status = "disposed" => status' = "disposed")
          /\ (active # NoRun => status' \in {"running", "aborting", "disposing"})
      BY <2>1, AbortedKeeps DEF HostInv, HostTypes, Claims
    <2>6. /\ pc' = [y \in Tasks |-> pc'[y]] /\ \A y \in Tasks \ {Settler} : pc'[y] = pc[y]
          /\ \A q \in Runs : pc'[q] = pc[q] \/ (pc[q] \notin InHost /\ pc'[q] \notin InHost)
      BY <2>2, OwnerIsATask, MovesAside
    <2>7. Disposing'
      BY <2>1, <2>2, <2>5, <2>6, OwnerIsATask, TasksAssumption, OwnerAsBefore DEF HostInv, HostTypes
    <2>8. QED
      BY <2>1, <2>4, <2>5, <2>6, <2>7, AsideKeeps DEF deferVars, HostInv, HostTypes
  <1>3. QED
    BY <1>1, <1>2

LEMMA DisposeKeeps ==
    ASSUME HostInv, DisposeBegins
    PROVE  HostInv'
  <1>1. /\ pc[Owner] = "new" /\ status # "disposed" /\ status' = "disposing"
        /\ cancel' \subseteq cancel \cup deferred
        /\ pc' = [pc EXCEPT ![Owner] = "telling"]
        /\ \E T : \E later \in {<<Owner>>, <<Note, Owner>>} : Dooms(T, later)
        /\ UNCHANGED <<active, idle, deferVars, cut>>
    BY DEF DisposeBegins, To
  <1>2. <<Owner>> \in Seq({Note, Owner}) /\ <<Note, Owner>> \in Seq({Note, Owner})
    OBVIOUS
  <1>3. SameMail /\ poisoned' \in BOOLEAN
    <2>1. PICK T : \E later \in {<<Owner>>, <<Note, Owner>>} : Dooms(T, later)
      BY <1>1
    <2>2. QED
      BY <1>2, <2>1, DoomsMail DEF HostInv
  <1>4. /\ pc' = [y \in Tasks |-> pc'[y]]
        /\ \A q \in Runs : pc'[q] = pc[q] \/ (pc[q] \notin InHost /\ pc'[q] \notin InHost)
    BY <1>1, OwnerIsATask, MovesAside
  <1>5. Owner \in cancel' => cut'
    BY <1>1, OwnerIsATask DEF HostInv, HostTypes, Disposing
  <1>6. Disposing'
    BY <1>1, <1>5, OwnerGoesOn
  <1>7. QED
    BY <1>1, <1>3, <1>4, <1>6, AsideKeeps DEF deferVars, HostInv, HostTypes, Statuses

LEMMA HostStep == HostInv /\ [Next]_vars => HostInv'
  <1> SUFFICES ASSUME HostInv, [Next]_vars PROVE HostInv'
    OBVIOUS
  <1>1. ASSUME UNCHANGED <<hostVars, taskVars, deferVars, busVars, cut>> PROVE HostInv'
    <2>1. Disposing' /\ SameMail
      BY <1>1, OwnerAsBefore, MailStays DEF hostVars, taskVars, busVars, HostInv
    <2>2. QED
      BY <1>1, <2>1, AsideKeeps DEF hostVars, taskVars, deferVars, busVars, HostInv, HostTypes, Claims
  <1>2. ASSUME NEW r \in Runs,
               Run(r) \/ CancelDeferred(r) \/ \E k \in Keys \cup {NoKey} : Defer(r, k)
        PROVE HostInv'
    BY <1>2, RunsAsk
  <1>3. ASSUME NEW x \in Tasks, Continues(x) \/ CancelCaller(x) PROVE HostInv'
    BY <1>3, ContinuesKeeps, CallersCancelled
  <1>4. CASE EventEnds
    BY <1>4, EventEndsKeeps
  <1>5. CASE Abort \/ \E cancels \in BOOLEAN : SettleBegins(cancels)
    BY <1>5, SettlesAndAborts
  <1>6. CASE DisposeBegins
    BY <1>6, DisposeKeeps
  <1>7. CASE DriverRuns \/ DriverEnds
    BY <1>1, <1>7 DEF DriverRuns, DriverEnds
  <1>8. CASE UNCHANGED vars
    BY <1>1, <1>8 DEF vars, otherVars
  <1>9. QED
    BY <1>2, <1>3, <1>4, <1>5, <1>6, <1>7, <1>8 DEF Next

\* The host has one run at a time, the one it calls active, and its idle event is not
\* set meanwhile.
THEOREM HostHasOneRun == Spec => []OneRun
  <1>1. HostInv => OneRun
    <2>1. SUFFICES ASSUME HostInv PROVE OneRun
      OBVIOUS
    <2>2. \A r \in Runs : pc[r] \in Claimed /\ ~cut => active = r
      BY <2>1 DEF HostInv, Claims
    <2>3. QED
      BY <2>1, <2>2 DEF HostInv, Claims, OneRun
  <1>2. QED
    BY HostInit, HostStep, <1>1, PTL DEF Spec

\* A host that an owner disposed of, and was not cancelled meanwhile, runs nothing.
THEOREM DisposedHostIsQuiet == Spec => []DisposedIsQuiet
  <1>1. HostInv => DisposedIsQuiet
    <2>1. SUFFICES ASSUME HostInv, status = "disposed", ~cut, NEW r \in Runs, pc[r] \in Claimed
                   PROVE  FALSE
      BY DEF DisposedIsQuiet
    <2>2. active = r
      BY <2>1 DEF HostInv, Claims
    <2>3. active = NoRun
      BY <2>1 DEF HostInv, Claims
    <2>4. QED
      BY <2>2, <2>3, BoundsAssumption DEF NoRun, Runs
  <1>2. QED
    BY HostInit, HostStep, <1>1, PTL DEF Spec

-----------------------------------------------------------------------------
\* Keys of deferred runs.
KeyInv ==
    /\ key \in [Runs -> Keys \cup {NoKey}]
    /\ byKey = [k \in Keys |-> byKey[k]]
    /\ KeyIsLive

\* A run that is over stays so: no event of it is on the bus, and it waits for nothing.
LEMMA DoneStays ==
    ASSUME HostInv, [Next]_vars, NEW r \in Runs, ~Live(r)
    PROVE  ~Live(r)'
  <1>1. pc[r] = "done" /\ r \in Tasks \ {Owner, Settler} /\ pc = [y \in Tasks |-> pc[y]]
    BY OwnerIsATask, TasksAssumption DEF Live, HostInv, HostTypes
  <1>2. SUFFICES pc'[r] = "done"
    BY DEF Live
  <1>3. ASSUME NEW x \in Tasks, NEW to, pc' = [pc EXCEPT ![x] = to], pc[x] # "done"
        PROVE  pc'[r] = "done"
    BY <1>1, <1>3
  <1>4. CASE UNCHANGED pc
    BY <1>1, <1>4
  <1>5. ASSUME NEW q \in Runs, Run(q) \/ CancelDeferred(q) \/ \E k \in Keys \cup {NoKey} : Defer(q, k)
        PROVE  pc'[r] = "done"
    <2>1. \/ UNCHANGED pc
          \/ pc[q] = "new" /\ \E to : pc' = [pc EXCEPT ![q] = to]
      BY <1>5 DEF Run, CancelDeferred, Defer, New, Claim
    <2>2. QED
      BY <1>3, <1>4, <2>1, OwnerIsATask
  <1>6. ASSUME NEW x \in Tasks, Continues(x) \/ CancelCaller(x) PROVE pc'[r] = "done"
    <2>1. CASE Looks(x)
      <3>1. pc[x] = "looping" /\ \E to : pc' = [pc EXCEPT ![x] = to]
        BY <2>1 DEF Looks, To, Claim, Raises
      <3>2. QED
        BY <1>3, <3>1
    <2>2. CASE DriverIdle(x) \/ Drained(x) \/ Cancelled(x)
      <3>1. pc[x] \in {"driver", "draining", "gathering"} \cup Waiting /\ \E to : pc' = [pc EXCEPT ![x] = to]
        BY <2>2 DEF DriverIdle, Drained, Cancelled, To, Raises
      <3>2. QED
        BY <1>3, <3>1 DEF Waiting
    <2>3. CASE x \in Runs /\ (WorkEnds(x) \/ Observed(x))
      <3>1. UNCHANGED pc \/ (pc[x] = "working" /\ \E to : pc' = [pc EXCEPT ![x] = to])
        BY <2>3 DEF WorkEnds, Observed, taskVars
      <3>2. QED
        BY <1>3, <1>4, <3>1
    <2>4. CASE (x = Settler /\ SettleGathers) \/ (x = Owner /\ Disposed)
      <3>1. pc[x] = "gathering" /\ \E to : pc' = [pc EXCEPT ![x] = to]
        BY <2>4 DEF SettleGathers, Disposed, Round, To
      <3>2. QED
        BY <1>3, <3>1
    <2>5. CASE CancelCaller(x)
      BY <1>4, <2>5 DEF CancelCaller
    <2>6. QED
      BY <1>6, <2>1, <2>2, <2>3, <2>4, <2>5 DEF Continues
  <1>7. CASE EventEnds
    <2> DEFINE x == Head(mail).from
    <2>1. mail # <<>> /\ \E delivered \in BOOLEAN : Resumes(x, delivered)
      BY <1>7 DEF EventEnds
    <2>2. x # r /\ (x \in Runs => pc[x] \in {"starting", "finishing"})
      <3>1. 1 \in DOMAIN mail /\ x = mail[1].from
        BY <2>1 DEF HostInv, HostTypes
      <3>2. QED
        BY <1>1, <3>1 DEF HostInv, Told
    <2> HIDE DEF x
    <2>3. PICK delivered \in BOOLEAN : Resumes(x, delivered)
      BY <2>1
    <2>4. CASE x = Note
      BY <1>4, <2>3, <2>4, TasksAssumption DEF Resumes, hostVars
    <2>5. ASSUME NEW gone, gone = [pc EXCEPT ![x] = "done"], pc' = Woken(gone) PROVE pc'[r] = "done"
      BY <1>1, <2>2, <2>5 DEF Woken
    <2>6. CASE x # Note /\ x \in Runs
      <3>1. \/ \E to : pc' = [pc EXCEPT ![x] = to]
            \/ pc' = Woken([pc EXCEPT ![x] = "done"])
        BY <2>2, <2>3, <2>6, OwnerIsATask DEF Resumes, StartFails, RunOver
      <3>2. QED
        BY <1>1, <2>2, <2>5, <3>1
    <2>7. CASE x # Note /\ x \notin Runs
      <3>1. \E to : pc' = [pc EXCEPT ![x] = to]
        BY <2>3, <2>7 DEF Resumes
      <3>2. QED
        BY <1>1, <2>2, <3>1
    <2>8. QED
      BY <2>4, <2>6, <2>7
  <1>8. CASE Abort \/ DriverRuns \/ DriverEnds
    BY <1>4, <1>8 DEF Abort, DriverRuns, DriverEnds, taskVars
  <1>9. CASE DisposeBegins \/ \E cancels \in BOOLEAN : SettleBegins(cancels)
    <2>1. \E x \in {Owner, Settler} : \E to : pc' = [pc EXCEPT ![x] = to]
      BY <1>9 DEF DisposeBegins, SettleBegins, Round, To
    <2>2. QED
      BY <1>1, <2>1
  <1>10. CASE UNCHANGED vars
    BY <1>4, <1>10 DEF vars, taskVars
  <1>11. QED
    BY <1>5, <1>6, <1>7, <1>8, <1>9, <1>10 DEF Next

LEMMA KeyStep == HostInv /\ KeyInv /\ [Next]_vars => KeyInv'
  <1> SUFFICES ASSUME HostInv, KeyInv, [Next]_vars PROVE KeyInv'
    OBVIOUS
  <1>1. \A r \in Runs : Live(r)' => Live(r)
    BY DoneStays
  <1>2. deferred \subseteq Runs
    BY DEF HostInv, HostTypes
  <1>3. CASE UNCHANGED deferVars
    BY <1>1, <1>2, <1>3 DEF KeyInv, KeyIsLive, deferVars
  <1>4. ASSUME NEW r \in Runs, NEW k \in Keys \cup {NoKey}, Defer(r, k) PROVE KeyInv'
    <2>1. /\ deferred' = deferred \cup {r} /\ key' = [key EXCEPT ![r] = k]
          /\ byKey' = IF k = NoKey THEN byKey ELSE [byKey EXCEPT ![k] = r]
          /\ k \in Keys => \A q \in Runs : byKey[k] = q => ~Live(q)
      BY <1>4 DEF Defer
    <2>2. \A q \in deferred \ {r} : Live(q) /\ key[q] # NoKey => byKey[key[q]] = q /\ key[q] # k
      BY <1>2, <2>1 DEF KeyInv, KeyIsLive
    <2>3. KeyIsLive'
      BY <1>1, <1>2, <2>1, <2>2 DEF KeyInv, KeyIsLive
    <2>4. QED
      BY <2>1, <2>3 DEF KeyInv
  <1>5. ASSUME NEW r \in Runs, Observed(r) PROVE KeyInv'
    BY <1>1, <1>2, <1>5 DEF Observed, KeyInv, KeyIsLive
  <1>6. QED
    <2>1. ASSUME NEW r \in Runs, Run(r) \/ CancelDeferred(r) PROVE UNCHANGED deferVars
      BY <2>1 DEF Run, CancelDeferred
    <2>2. ASSUME NEW x \in Tasks, Continues(x) \/ CancelCaller(x)
          PROVE  UNCHANGED deferVars \/ \E r \in Runs : Observed(r)
      BY <2>2 DEF Continues, CancelCaller, Looks, DriverIdle, Drained, Cancelled, WorkEnds,
                  SettleGathers, Disposed
    <2>3. CASE EventEnds \/ Abort \/ DisposeBegins \/ DriverRuns \/ DriverEnds
                 \/ \E cancels \in BOOLEAN : SettleBegins(cancels)
      BY <1>3, <2>3 DEF EventEnds, Abort, DisposeBegins, DriverRuns, DriverEnds, SettleBegins
    <2>4. CASE UNCHANGED vars
      BY <1>3, <2>4 DEF vars
    <2>5. QED
      BY <1>3, <1>4, <1>5, <2>1, <2>2, <2>3, <2>4 DEF Next

\* The key of equivalent deferred runs leads to the one that is not over: there is one
\* at most, whatever the order in which their tasks end and the loop calls back.
THEOREM KeyLeadsToLiveRun == Spec => []KeyIsLive
  <1>1. Init => KeyInv
    BY DEF Init, KeyInv, KeyIsLive
  <1>2. KeyInv => KeyIsLive
    BY DEF KeyInv
  <1>3. QED
    BY HostInit, HostStep, KeyStep, <1>1, <1>2, PTL DEF Spec
=============================================================================
