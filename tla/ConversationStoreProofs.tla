------------------------- MODULE ConversationStoreProofs ----------------------
(***************************************************************************)
(* For every set of processes, records and calls and every number of       *)
(* faults, in rooted stores and by pathname: a conversation whose deletion *)
(* was acknowledged stays deleted (RetireInv); and what a synced receipt   *)
(* says stays true, a head that is accepted describes the journal, and an  *)
(* append writes what is new (StoreInv). Both rest on the tombstone that   *)
(* is there to stay (Grave), which in a rooted store is durable.           *)
(*                                                                         *)
(* The second invariant rests on stamps that are never given twice: a head *)
(* that was made of a journal keeps fitting every journal with its stamp   *)
(* (Fits), whatever the journal has become, so that one with the identity  *)
(* of the journal is the head of that journal (AcceptedHead).              *)
(***************************************************************************)
EXTENDS ConversationStore, SequenceTheorems, FiniteSetTheorems, TLAPS

\* Where the lock of the journal is held.
UnderLock == {"creating", "writing", "syncing", "unlinking", "unlinked"}

\* One process at a time is under the lock, and every process is somewhere.
Locked ==
  /\ pc = [w \in Writers |-> pc[w]]
  /\ \A w \in Writers : pc[w].at \in UnderLock => lock = w

\* The tombstone a process has published, settled or is going to publish, and none
\* while one creates: what a deletion rests on is there before it is acknowledged.
Tombs ==
  /\ tombSynced # None => tomb # None
  /\ deleted => Forgotten \/ Grave # None
  /\ \A w \in Writers :
       /\ pc[w].at = "creating" => tomb = None
       /\ pc[w].at = "deleting" => [rev |-> pc[w].rev, op |-> pc[w].op] # None
       /\ pc[w].at = "unlinking" => tomb # None
       /\ pc[w].at \in {"resuming", "unlinked"} => Grave # None

RetireInv == Locked /\ Tombs

LEMMA RetireInit == Init => RetireInv
  BY DEF Init, RetireInv, Locked, Tombs, UnderLock, Idle

\* A process goes on to another place: the lock and the tombstone are as that place says.
LEMMA MovesOn ==
  ASSUME RetireInv, NEW w \in Writers, NEW to,
         pc' = [pc EXCEPT ![w] = to],
         \/ lock' = lock /\ to.at \notin UnderLock
         \/ lock' = lock /\ pc[w].at \in UnderLock
         \/ lock = None /\ lock' = w
         \/ lock = w /\ lock' = None /\ to.at \notin UnderLock
         \/ lock = None /\ lock' = None /\ to.at \notin UnderLock,
         UNCHANGED <<mode, tomb, tombSynced, deleted, lost>>,
         to.at = "creating" => tomb = None,
         to.at = "deleting" => [rev |-> to.rev, op |-> to.op] # None,
         to.at = "unlinking" => tomb # None,
         to.at \in {"resuming", "unlinked"} => Grave # None
  PROVE  RetireInv'
  <1>1. pc'[w] = to /\ \A v \in Writers \ {w} : pc'[v] = pc[v]
    BY DEF RetireInv, Locked
  <1>2. Locked'
    BY <1>1, NoneAssumption DEF RetireInv, Locked
  <1>3. Tombs'
    BY <1>1 DEF RetireInv, Tombs, Grave, Forgotten
  <1>4. QED
    BY <1>2, <1>3 DEF RetireInv

\* A step that moves no process and touches no tombstone.
LEMMA StaysThere ==
  ASSUME RetireInv, UNCHANGED <<mode, pc, lock, tomb, tombSynced, deleted, lost>>
  PROVE  RetireInv'
  BY DEF RetireInv, Locked, Tombs, Grave, Forgotten

LEMMA AppendsRetire ==
  ASSUME RetireInv, NEW w \in Writers,
         \/ \E c \in Calls : AppendByHead(w, c) \/ AppendByReplay(w, c)
         \/ Repairs(w) \/ Writes(w) \/ WritesPart(w) \/ Commits(w) \/ WriteHeadIfCurrent(w)
  PROVE  RetireInv'
  <1>1. ASSUME NEW c, NEW known, NEW h, Enters(w), Answers(w, c, known, h),
               UNCHANGED <<mode, tomb, tombSynced, deleted, lost>>
        PROVE  RetireInv'
    <2>1. CASE UNCHANGED <<lock, pc>>
      BY <1>1, <2>1, StaysThere
    <2>2. CASE Rest(c, known) # <<>>
      <3> DEFINE to == [at |-> "writing", call |-> c, head |-> h,
                        todo |-> Rest(c, known), told |-> Receipts(c, known, "write")]
      <3>1. lock = None /\ lock' = w /\ pc' = [pc EXCEPT ![w] = to]
        BY <1>1, <2>2 DEF Enters, Answers
      <3>2. to.at = "writing"
        OBVIOUS
      <3> HIDE DEF to
      <3>3. QED
        BY <1>1, <3>1, <3>2, MovesOn
    <2>3. QED
      BY <1>1, <2>1, <2>2 DEF Answers
  <1>2. ASSUME NEW c \in Calls, AppendByHead(w, c) \/ AppendByReplay(w, c) PROVE RetireInv'
    BY <1>1, <1>2 DEF AppendByHead, AppendByReplay, disk
  <1>3. CASE Repairs(w)
    BY <1>3, StaysThere DEF Repairs, memory, receipts
  <1>4. CASE Writes(w)
    <2> DEFINE to == [pc[w] EXCEPT !.at = "syncing"]
    <2>1. /\ pc[w].at = "writing"
          /\ pc' = [pc EXCEPT ![w] = to]
          /\ UNCHANGED <<mode, lock, tomb, tombSynced, deleted, lost>>
      BY <1>4 DEF Writes, receipts
    <2>2. to.at = "syncing"
      OBVIOUS
    <2> HIDE DEF to
    <2>3. QED
      BY <2>1, <2>2, MovesOn DEF UnderLock
  <1>5. CASE WritesPart(w) \/ Commits(w)
    <2>1. /\ lock' = None /\ pc' = [pc EXCEPT ![w] = Idle] /\ lock = w
          /\ UNCHANGED <<mode, tomb, tombSynced, deleted, lost>>
      BY <1>5 DEF WritesPart, Commits, Leaves, receipts, RetireInv, Locked, UnderLock
    <2>2. Idle.at = "idle" /\ "idle" \notin UnderLock
      BY DEF Idle, UnderLock
    <2>3. QED
      BY <2>1, <2>2, MovesOn
  <1>6. CASE WriteHeadIfCurrent(w)
    BY <1>6, StaysThere DEF WriteHeadIfCurrent, receipts
  <1>7. QED
    BY <1>2, <1>3, <1>4, <1>5, <1>6

LEMMA CreatesRetire ==
  ASSUME RetireInv, NEW w \in Writers,
         \/ \E s \in Imports, op \in CreateOps : CreatesAgain(w, s, op) \/ Creates(w, s, op)
         \/ CreateSettles(w)
  PROVE  RetireInv'
  <1>1. ASSUME NEW s \in Imports, NEW op \in CreateOps, CreatesAgain(w, s, op) PROVE RetireInv'
    BY <1>1, StaysThere DEF CreatesAgain, memory
  <1>2. ASSUME NEW s \in Imports, NEW op \in CreateOps, Creates(w, s, op) PROVE RetireInv'
    <2> DEFINE to == [at |-> "creating", recs |-> s, op |-> op]
    <2>1. /\ lock = None /\ lock' = w /\ tomb = None /\ pc' = [pc EXCEPT ![w] = to]
          /\ UNCHANGED <<mode, tomb, tombSynced, deleted, lost>>
      BY <1>2 DEF Creates, Enters, IsFree, receipts
    <2>2. to.at = "creating"
      OBVIOUS
    <2> HIDE DEF to
    <2>3. QED
      BY <2>1, <2>2, MovesOn
  <1>3. CASE CreateSettles(w)
    <2>1. /\ lock' = None /\ pc' = [pc EXCEPT ![w] = Idle] /\ lock = w
          /\ UNCHANGED <<mode, tomb, tombSynced, deleted, lost>>
      BY <1>3 DEF CreateSettles, Leaves, RetireInv, Locked, UnderLock
    <2>2. Idle.at = "idle" /\ "idle" \notin UnderLock
      BY DEF Idle, UnderLock
    <2>3. QED
      BY <2>1, <2>2, MovesOn
  <1>4. QED
    BY <1>1, <1>2, <1>3

\* The tombstone is made durable, the journal unlinked, the deletion acknowledged.
LEMMA DeletesRetire ==
  ASSUME RetireInv, NEW w \in Writers,
         \/ \E e \in 0..MaxRevision, op \in DeleteOps : DeleteBegins(w, e, op)
         \/ DeleteLocks(w) \/ DeleteRefused(w) \/ DeleteUnlinks(w) \/ DeleteSettles(w)
         \/ DeleteResumes(w)
  PROVE  RetireInv'
  <1>1. ASSUME NEW e \in 0..MaxRevision, NEW op \in DeleteOps, DeleteBegins(w, e, op)
        PROVE  RetireInv'
    <2>1. [rev |-> e, op |-> op] # None
      BY NoneAssumption
    <2>2. UNCHANGED <<mode, lock, tomb, deleted, lost>>
      BY <1>1 DEF DeleteBegins, receipts
    <2>3. CASE tomb = None
      <3> DEFINE to == [at |-> "deleting", rev |-> e, op |-> op]
      <3>1. pc' = [pc EXCEPT ![w] = to] /\ tombSynced' = tombSynced
        BY <1>1, <2>3 DEF DeleteBegins
      <3>2. to.at = "deleting" /\ to.rev = e /\ to.op = op /\ to.at \notin UnderLock
        BY DEF UnderLock
      <3> HIDE DEF to
      <3>3. QED
        BY <2>1, <2>2, <3>1, <3>2, MovesOn
    <2>4. CASE tomb # None
      <3> DEFINE to == [at |-> "resuming"]
      <3>1. pc' = [pc EXCEPT ![w] = to] /\ tombSynced' = Settled(tomb)
        BY <1>1, <2>4 DEF DeleteBegins
      <3>2. to.at = "resuming" /\ to.at \notin UnderLock
        BY DEF UnderLock
      <3> HIDE DEF to
      <3>3. pc'[w] = to /\ \A v \in Writers \ {w} : pc'[v] = pc[v]
        BY <3>1 DEF RetireInv, Locked
      <3>4. Locked'
        BY <2>2, <3>1, <3>2, <3>3 DEF RetireInv, Locked
      <3>5. Tombs'
        BY <2>2, <2>4, <3>1, <3>2, <3>3 DEF RetireInv, Tombs, Grave, Settled, Forgotten
      <3>6. QED
        BY <3>4, <3>5 DEF RetireInv
    <2>5. QED
      BY <2>3, <2>4
  <1>2. CASE DeleteLocks(w)
    <2> DEFINE to == [at |-> "unlinking"]
    <2>1. /\ pc[w].at = "deleting" /\ lock = None /\ lock' = w
          /\ tomb' = [rev |-> pc[w].rev, op |-> pc[w].op]
          /\ pc' = [pc EXCEPT ![w] = to]
          /\ UNCHANGED <<mode, tombSynced, deleted, lost>>
      BY <1>2 DEF DeleteLocks, receipts
    <2>2. to.at = "unlinking"
      OBVIOUS
    <2> HIDE DEF to
    <2>3. tomb' # None
      BY <2>1 DEF RetireInv, Tombs
    <2>4. pc'[w] = to /\ \A v \in Writers \ {w} : pc'[v] = pc[v]
      BY <2>1 DEF RetireInv, Locked
    <2>5. \A v \in Writers : pc[v].at \notin UnderLock
      BY <2>1, NoneAssumption DEF RetireInv, Locked
    <2>6. Locked'
      BY <2>1, <2>4, <2>5 DEF RetireInv, Locked
    <2>7. Tombs'
      BY <2>1, <2>2, <2>3, <2>4, <2>5 DEF RetireInv, Tombs, UnderLock, Grave, Forgotten
    <2>8. QED
      BY <2>6, <2>7 DEF RetireInv
  <1>3. CASE DeleteRefused(w)
    <2>1. /\ pc' = [pc EXCEPT ![w] = Idle]
          /\ UNCHANGED <<mode, lock, tomb, tombSynced, deleted, lost>>
      BY <1>3 DEF DeleteRefused, disk, receipts
    <2>2. Idle.at = "idle" /\ "idle" \notin UnderLock
      BY DEF Idle, UnderLock
    <2>3. QED
      BY <2>1, <2>2, MovesOn
  <1>4. CASE DeleteUnlinks(w)
    <2> DEFINE to == [at |-> "unlinked"]
    <2>1. /\ pc[w].at = "unlinking" /\ tombSynced' = Settled(tomb)
          /\ pc' = [pc EXCEPT ![w] = to]
          /\ UNCHANGED <<mode, lock, tomb, deleted, lost>>
      BY <1>4 DEF DeleteUnlinks, receipts
    <2>2. to.at = "unlinked"
      OBVIOUS
    <2> HIDE DEF to
    <2>3. lock = w /\ tomb # None
      BY <2>1 DEF RetireInv, Locked, Tombs, UnderLock
    <2>4. pc'[w] = to /\ \A v \in Writers \ {w} : pc'[v] = pc[v]
      BY <2>1 DEF RetireInv, Locked
    <2>5. Locked'
      BY <2>1, <2>3, <2>4 DEF RetireInv, Locked
    <2>6. Tombs'
      BY <2>1, <2>2, <2>3, <2>4 DEF RetireInv, Tombs, Grave, Settled, Forgotten
    <2>7. QED
      BY <2>5, <2>6 DEF RetireInv
  <1>5. CASE DeleteSettles(w)
    <2>1. /\ pc[w].at = "unlinked" /\ deleted' = TRUE
          /\ lock' = None /\ pc' = [pc EXCEPT ![w] = Idle]
          /\ UNCHANGED <<mode, tomb, tombSynced, lost>>
      BY <1>5 DEF DeleteSettles, Leaves
    <2>2. Idle.at = "idle" /\ "idle" \notin UnderLock
      BY DEF Idle, UnderLock
    <2>3. lock = w /\ Grave # None
      BY <2>1 DEF RetireInv, Locked, Tombs, UnderLock
    <2>4. pc'[w] = Idle /\ \A v \in Writers \ {w} : pc'[v] = pc[v]
      BY <2>1 DEF RetireInv, Locked
    <2>5. Locked'
      BY <2>1, <2>2, <2>3, <2>4 DEF RetireInv, Locked
    <2>6. Tombs'
      BY <2>1, <2>2, <2>3, <2>4 DEF RetireInv, Tombs, Grave, Forgotten
    <2>7. QED
      BY <2>5, <2>6 DEF RetireInv
  <1>6. CASE DeleteResumes(w)
    <2>1. /\ pc[w].at = "resuming" /\ UNCHANGED <<mode, tomb, tombSynced, lost>>
      BY <1>6 DEF DeleteResumes
    <2>2. Grave # None
      BY <2>1 DEF RetireInv, Tombs
    <2>3. CASE file = None
      <3>1. deleted' = TRUE /\ pc' = [pc EXCEPT ![w] = Idle] /\ lock' = lock
        BY <1>6, <2>3 DEF DeleteResumes
      <3>2. Idle.at = "idle" /\ "idle" \notin UnderLock
        BY DEF Idle, UnderLock
      <3>3. pc'[w] = Idle /\ \A v \in Writers \ {w} : pc'[v] = pc[v]
        BY <3>1 DEF RetireInv, Locked
      <3>4. Locked'
        BY <3>1, <3>2, <3>3 DEF RetireInv, Locked
      <3>5. Tombs'
        BY <2>1, <2>2, <3>1, <3>2, <3>3 DEF RetireInv, Tombs, Grave, Forgotten
      <3>6. QED
        BY <3>4, <3>5 DEF RetireInv
    <2>4. CASE file # None
      <3> DEFINE to == [at |-> "unlinked"]
      <3>1. lock = None /\ lock' = w /\ pc' = [pc EXCEPT ![w] = to] /\ deleted' = deleted
        BY <1>6, <2>4 DEF DeleteResumes
      <3>2. to.at = "unlinked"
        OBVIOUS
      <3> HIDE DEF to
      <3>3. QED
        BY <2>1, <2>2, <3>1, <3>2, MovesOn
    <2>5. QED
      BY <2>3, <2>4
  <1>7. QED
    BY <1>1, <1>2, <1>3, <1>4, <1>5, <1>6

\* A failure, a kill or a power loss: the tombstone of an acknowledged deletion survives.
LEMMA FaultsRetire ==
  ASSUME RetireInv, PowerLoss \/ \E w \in Writers : Fails(w) \/ Killed(w)
  PROVE  RetireInv'
  <1>1. Idle.at = "idle" /\ "idle" \notin UnderLock
    BY DEF Idle, UnderLock
  <1>2. ASSUME NEW w \in Writers, Fails(w) \/ Killed(w) PROVE RetireInv'
    <2>1. /\ pc' = [pc EXCEPT ![w] = Idle]
          /\ lock' = IF lock = w THEN None ELSE lock
          /\ UNCHANGED <<mode, tomb, tombSynced, deleted, lost>>
      BY <1>2 DEF Fails, Killed, disk, receipts
    <2>2. QED
      BY <1>1, <2>1, MovesOn
  <1>3. CASE PowerLoss
    <2>1. /\ pc' = [w \in Writers |-> Idle] /\ UNCHANGED <<mode, deleted>>
          /\ tomb' = tombSynced' /\ tomb' \in Leftovers(tomb, tombSynced, Garbage)
          /\ lost' = (lost \/ (tomb # None /\ tomb' = None /\ (deleted \/ file = None)))
      BY <1>3 DEF PowerLoss
    <2>2. Locked' /\ \A w \in Writers : pc'[w].at = "idle"
      BY <1>1, <2>1 DEF Locked
    <2>3. deleted /\ tomb' = None => Forgotten'
      <3>1. SUFFICES ASSUME deleted, tomb' = None, ~Forgotten PROVE Forgotten'
        BY <2>1 DEF Forgotten
      <3>2. Grave # None /\ tomb # None
        BY <3>1 DEF RetireInv, Tombs, Grave
      <3>3. ~mode.rooted
        BY <2>1, <3>1, <3>2 DEF Leftovers, Grave
      <3>4. QED
        BY <2>1, <3>1, <3>2, <3>3 DEF Forgotten
    <2>4. Tombs'
      BY <2>1, <2>2, <2>3 DEF Tombs, Grave
    <2>5. QED
      BY <2>2, <2>4 DEF RetireInv
  <1>4. QED
    BY <1>2, <1>3

LEMMA RetireStep == RetireInv /\ [Next]_vars => RetireInv'
  <1> SUFFICES ASSUME RetireInv, [Next]_vars PROVE RetireInv'
    OBVIOUS
  <1>1. ASSUME NEW w \in Writers, Operates(w) PROVE RetireInv'
    BY <1>1, AppendsRetire, CreatesRetire, DeletesRetire DEF Operates
  <1>2. CASE PowerLoss \/ \E w \in Writers : Fails(w) \/ Killed(w)
    BY <1>2, FaultsRetire
  <1>3. CASE UNCHANGED vars
    BY <1>3, StaysThere DEF vars, disk, memory, receipts
  <1>4. QED
    BY <1>1, <1>2, <1>3 DEF Next

\* A conversation whose deletion was acknowledged is not created again: a creation looks for
\* its tombstone under the lock. A rooted store has made it durable, so this is for good; by
\* pathname only a power loss that takes the tombstone ends it.
THEOREM DeletedStays == Spec => []DeletedIsRetired
  <1>1. RetireInv => DeletedIsRetired
    BY DEF RetireInv, Tombs, DeletedIsRetired, Grave
  <1>2. QED
    BY RetireInit, RetireStep, <1>1, PTL DEF Spec

-----------------------------------------------------------------------------
(***************************************************************************)
(* The journal, the heads that describe it and the receipts given for it.  *)
(***************************************************************************)
Journals == [lines : Seq(Records), torn : BOOLEAN, stamp : Nat]

\* Sequence t is the beginning of sequence s.
Begins(s, t) == Len(t) <= Len(s) /\ \A i \in 1..Len(t) : t[i] = s[i]

\* The synced journal is the beginning of the one that is seen, which is missing
\* only behind a tombstone.
Disk ==
  /\ made \in Nat
  /\ \A f \in {file, synced} : f # None => f \in Journals /\ f.stamp <= made
  /\ file # None /\ synced # None => Begins(file.lines, synced.lines)
  /\ file = None /\ synced # None => Grave # None

\* Head h was made of a journal: it agrees with the journals f and s where their
\* stamp is the same, and no stamp is given twice, m being the last one.
Fits(h, f, s, m) ==
  /\ h.records \in Seq(Records) /\ ~h.id.torn
  /\ h.id.size = Len(h.records) /\ h.id.stamp \in 0..m
  /\ \A g \in {f, s} : g # None /\ g.stamp = h.id.stamp =>
       \A i \in 1..Len(g.lines) : i <= Len(h.records) => h.records[i] = g.lines[i]

Heads ==
  /\ cache = [w \in Writers |-> cache[w]] /\ queued = [w \in Writers |-> queued[w]]
  /\ \A w \in Writers :
       /\ cache[w] # None /\ cache[w].head # None => Fits(cache[w].head, file, synced, made)
       /\ queued[w] # None => Fits(queued[w], file, synced, made)
  /\ \A m \in {side, sideSynced} :
       m # None /\ m.head # None => Fits(m.head, file, synced, made)

\* What a process at p knows of the journal f, which nobody else can touch.
Knows(p, f) ==
  /\ p.at = "writing" =>
       /\ f # None /\ ~f.torn
       /\ p.todo \in Seq(Records) \ {<<>>}
       /\ Len(f.lines) + Len(p.todo) = p.call.at + Len(p.call.recs)
       /\ Places(f.lines, p.todo[1]) = {}
       /\ p.head # None => p.head.records = f.lines
       /\ \A a \in p.told : /\ a.rev \in 1..(Len(f.lines) + Len(p.todo))
                            /\ a.rec = (f.lines \o p.todo)[a.rev]
  /\ p.at = "syncing" =>
       /\ f # None /\ ~f.torn
       /\ p.head # None => p.head.records \o p.todo = f.lines
       /\ \A a \in p.told : Holds(f, a)
  /\ p.at = "creating" => f # None /\ ~f.torn /\ f.lines = p.recs
  /\ p.at = "unlinked" => f = None

Working == \A w \in Writers : Knows(pc[w], file)

\* The receipt a of a synced append is true of the journals f and s, or the tombstone t
\* has taken their place; a journal that is seen is not all unsynced.
Durable(a, f, s, t) ==
  a.by = "write" =>
    /\ s = None => f = None
    /\ \A g \in {f, s} : Holds(g, a) \/ (g = None /\ t # None)

Acks == Forgotten \/ \A a \in acked : Durable(a, file, synced, Grave)

\* What there is beside the lock and the tombstone.
Store == Disk /\ Heads /\ Working /\ Acks

StoreInv == RetireInv /\ Store

\* What a step does to the journals: they are new, or beginnings of the ones before.
Ages ==
  /\ made' \in Nat /\ made <= made'
  /\ \A g \in {file', synced'} : g # None =>
       \/ g.stamp > made
       \/ \E f \in {file, synced} : f # None /\ g.stamp = f.stamp /\ Begins(f.lines, g.lines)

\* The invariant of the disk, the heads and the receipts there were survive the step.
Kept ==
  /\ Disk' /\ Ages
  /\ Forgotten' \/ \A a \in acked : Durable(a, file', synced', Grave')

LEMMA JournalFacts ==
  ASSUME Disk, NEW f \in {file, synced}, f # None
  PROVE  /\ f \in Journals /\ f.lines \in Seq(Records) /\ Len(f.lines) \in Nat
         /\ f.torn \in BOOLEAN /\ f.stamp \in Nat /\ f.stamp <= made /\ made \in Nat
         /\ Begins(f.lines, f.lines)
  <1>1. f \in Journals /\ f.stamp <= made /\ made \in Nat
    BY DEF Disk
  <1>2. f.lines \in Seq(Records) /\ f.torn \in BOOLEAN /\ f.stamp \in Nat
    BY <1>1 DEF Journals
  <1>3. QED
    BY <1>1, <1>2, LenProperties DEF Begins

LEMMA FitsKept ==
  ASSUME Disk, Ages, NEW h, Fits(h, file, synced, made)
  PROVE  Fits(h, file', synced', made')
  <1>1. /\ h.records \in Seq(Records) /\ Len(h.records) \in Nat
        /\ h.id.stamp \in 0..made /\ made \in Nat
    BY LenProperties DEF Fits, Disk
  <1>2. h.id.stamp \in 0..made'
    BY <1>1 DEF Ages
  <1>3. ASSUME NEW g \in {file', synced'}, g # None, g.stamp = h.id.stamp,
               NEW i \in 1..Len(g.lines), i <= Len(h.records)
        PROVE  h.records[i] = g.lines[i]
    <2>1. ~(g.stamp > made)
      BY <1>1, <1>3
    <2>2. PICK f \in {file, synced} :
            f # None /\ g.stamp = f.stamp /\ Begins(f.lines, g.lines)
      BY <1>3, <2>1 DEF Ages
    <2>3. Len(f.lines) \in Nat /\ Len(g.lines) <= Len(f.lines) /\ g.lines[i] = f.lines[i]
      BY <2>2, JournalFacts DEF Begins
    <2>4. i \in 1..Len(f.lines)
      BY <2>3
    <2>5. QED
      BY <1>3, <2>2, <2>3, <2>4 DEF Fits
  <1>4. QED
    BY <1>2, <1>3 DEF Fits

\* The head made of the journal as it is.
LEMMA HeadOfFits ==
  ASSUME Disk, file # None, ~file.torn
  PROVE  /\ HeadOf(file).records = file.lines
         /\ Fits(HeadOf(file), file, synced, made)
  <1>. DEFINE h == HeadOf(file)
  <1>1. h.records = file.lines /\ h.id = Identity(file)
    BY DEF HeadOf
  <1>2. h.id.size = Len(file.lines) /\ h.id.torn = file.torn /\ h.id.stamp = file.stamp
    BY <1>1 DEF Identity
  <1>3. file.lines \in Seq(Records) /\ Len(file.lines) \in Nat /\ file.stamp \in 0..made
    BY JournalFacts
  <1>4. ASSUME NEW i \in 1..Len(file.lines), synced # None, i \in 1..Len(synced.lines)
        PROVE  file.lines[i] = synced.lines[i]
    BY <1>4 DEF Disk, Begins
  <1>5. synced # None => Len(synced.lines) \in Nat
    BY JournalFacts
  <1>. HIDE DEF h
  <1>6. ASSUME NEW g \in {file, synced}, g # None,
               NEW i \in 1..Len(g.lines), i <= Len(h.records)
        PROVE  h.records[i] = g.lines[i]
    <2>1. CASE g = file
      BY <1>1, <2>1
    <2>2. CASE g = synced
      <3>1. i \in 1..Len(file.lines)
        BY <1>1, <1>3, <1>5, <1>6, <2>2
      <3>2. QED
        BY <1>1, <1>4, <1>6, <2>2, <3>1
    <2>3. QED
      BY <2>1, <2>2
  <1>7. Fits(h, file, synced, made)
    BY <1>1, <1>2, <1>3, <1>6 DEF Fits
  <1>8. QED
    BY <1>1, <1>7 DEF h

\* A head that is taken for the one of the journal.
LEMMA AcceptedHead ==
  ASSUME Disk, file # None, NEW h, Fits(h, file, synced, made), h.id = Identity(file)
  PROVE  h.records = file.lines /\ ~file.torn
  <1>1. h.id.size = Len(file.lines) /\ h.id.torn = file.torn /\ h.id.stamp = file.stamp
    BY DEF Identity
  <1>2. file.lines \in Seq(Records) /\ h.records \in Seq(Records)
        /\ Len(file.lines) = Len(h.records) /\ ~file.torn
    BY <1>1, JournalFacts DEF Fits
  <1>3. \A i \in 1..Len(file.lines) : h.records[i] = file.lines[i]
    <2>1. \A i \in 1..Len(file.lines) : i <= Len(h.records)
      BY <1>2, LenProperties
    <2>2. QED
      BY <1>1, <2>1 DEF Fits
  <1>4. QED
    BY <1>2, <1>3, SeqEqual

-----------------------------------------------------------------------------
(***************************************************************************)
(* The ways the journal changes.                                           *)
(***************************************************************************)

\* The journals are among those there were.
LEMMA OldJournals ==
  ASSUME Disk, UNCHANGED made, \A g \in {file', synced'} : g # None => g \in {file, synced}
  PROVE  Ages
  <1>1. ASSUME NEW g \in {file', synced'}, g # None
        PROVE  g \in {file, synced} /\ Begins(g.lines, g.lines)
    BY <1>1, JournalFacts
  <1>2. \A g \in {file', synced'} : g # None =>
          \E f \in {file, synced} : f # None /\ g.stamp = f.stamp /\ Begins(f.lines, g.lines)
    BY <1>1
  <1>3. made' \in Nat /\ made <= made'
    BY DEF Disk
  <1>4. QED
    BY <1>2, <1>3 DEF Ages

\* A tombstone stays, and what a power loss took is not given back.
TombStays == (Grave # None => Grave' # None) /\ (Forgotten => Forgotten')

LEMMA TombsAlike ==
  ASSUME UNCHANGED <<mode, tomb, tombSynced, lost>>
  PROVE  UNCHANGED <<Grave, Forgotten>> /\ TombStays
  BY DEF TombStays, Grave, Forgotten

LEMMA SameDisk ==
  ASSUME Disk, Acks, TombStays, UNCHANGED <<file, synced, made>>
  PROVE  Kept
  <1>1. Disk'
    BY DEF Disk, TombStays
  <1>2. Ages
    BY OldJournals
  <1>3. Forgotten' \/ \A a \in acked : Durable(a, file', synced', Grave')
    BY DEF Acks, Durable, TombStays
  <1>4. QED
    BY <1>1, <1>2, <1>3 DEF Kept

\* A tail is repaired: the lines stay, the journal is a new one and synced.
LEMMA MendedDisk ==
  ASSUME Disk, Acks, TombStays, file # None, Mends
  PROVE  /\ Kept
         /\ file' # None /\ ~file'.torn /\ file'.lines = file.lines
         /\ ~file.torn => UNCHANGED <<file, synced, made>>
  <1>1. CASE ~file.torn
    <2>1. UNCHANGED <<file, synced, made>>
      BY <1>1 DEF Mends, Repaired
    <2>2. QED
      BY <1>1, <2>1, SameDisk
  <1>2. CASE file.torn
    <2>. DEFINE g == Journal(file.lines, FALSE, made + 1)
    <2>1. file' = g /\ synced' = g /\ made' = made + 1
      BY <1>2 DEF Mends, Repaired
    <2>2. g.lines = file.lines /\ ~g.torn /\ g.stamp = made + 1 /\ g \in Journals
      BY JournalFacts DEF Journal, Journals
    <2>. HIDE DEF g
    <2>3. g # None
      BY <2>2, NoneAssumption DEF Journals
    <2>4. made \in Nat /\ Begins(file.lines, file.lines)
      BY JournalFacts
    <2>5. Disk' /\ Ages
      BY <2>1, <2>2, <2>3, <2>4 DEF Disk, Ages
    <2>6. ASSUME ~Forgotten', NEW a \in acked PROVE Durable(a, file', synced', Grave')
      <3>1. a.by = "write" => Holds(file, a)
        BY <2>6 DEF Acks, Durable, TombStays
      <3>2. Holds(file, a) => Holds(g, a)
        BY <2>2, <2>3 DEF Holds
      <3>3. QED
        BY <2>1, <2>3, <3>1, <3>2 DEF Durable
    <2>7. QED
      BY <1>2, <2>1, <2>2, <2>3, <2>5, <2>6 DEF Kept
  <1>3. QED
    BY <1>1, <1>2, JournalFacts

\* Lines are appended to the journal, not yet synced.
LEMMA WrittenDisk ==
  ASSUME Disk, Acks, file # None, file' \in Journals, made' = made + 1, file'.stamp = made + 1,
         Begins(file'.lines, file.lines), TombStays, UNCHANGED synced
  PROVE  Kept
  <1>1. file' # None
    BY NoneAssumption DEF Journals
  <1>2. made \in Nat /\ Len(file.lines) \in Nat /\ Len(file'.lines) \in Nat
    BY JournalFacts, LenProperties DEF Journals
  <1>3. synced # None => /\ Begins(file.lines, synced.lines) /\ Len(synced.lines) \in Nat
                         /\ Begins(synced.lines, synced.lines) /\ synced.stamp \in Nat
                         /\ synced.stamp <= made /\ synced \in Journals
    BY JournalFacts DEF Disk
  <1>4. synced # None => Begins(file'.lines, synced.lines)
    BY <1>2, <1>3 DEF Begins
  <1>5. Disk'
    BY <1>1, <1>2, <1>3, <1>4 DEF Disk
  <1>6. Ages
    BY <1>2, <1>3 DEF Ages
  <1>7. ASSUME ~Forgotten', NEW a \in acked PROVE Durable(a, file', synced', Grave')
    <2>1. a.by = "write" => Holds(file, a) /\ synced # None /\ Holds(synced, a)
      BY <1>7 DEF Acks, Durable, TombStays
    <2>2. Holds(file, a) => Holds(file', a)
      BY <1>1, <1>2 DEF Holds, Begins
    <2>3. QED
      BY <1>1, <2>1, <2>2 DEF Durable
  <1>8. QED
    BY <1>5, <1>6, <1>7 DEF Kept

\* The journal is synced as it is.
LEMMA SyncedDisk ==
  ASSUME Disk, Acks, TombStays, file # None, synced' = file, UNCHANGED <<file, made>>
  PROVE  Kept
  <1>1. Disk'
    BY JournalFacts DEF Disk
  <1>2. Ages
    BY OldJournals
  <1>3. Forgotten' \/ \A a \in acked : Durable(a, file', synced', Grave')
    BY DEF Acks, Durable, TombStays
  <1>4. QED
    BY <1>1, <1>2, <1>3 DEF Kept

\* The first journal of the conversation: no receipt was given before it.
LEMMA CreatedDisk ==
  ASSUME RetireInv, Disk, Acks, IsFree, NEW s \in Seq(Records),
         file' = Journal(s, FALSE, made + 1), made' = made + 1, TombStays, UNCHANGED synced
  PROVE  Kept /\ file' # None /\ ~file'.torn /\ file'.lines = s
  <1>. DEFINE g == Journal(s, FALSE, made + 1)
  <1>1. Grave = None /\ file = None
    BY DEF RetireInv, Tombs, IsFree, Grave
  <1>2. synced = None /\ made \in Nat
    BY <1>1 DEF Disk
  <1>3. g \in Journals /\ g.stamp = made + 1 /\ g.lines = s /\ ~g.torn
    BY <1>2 DEF Journal, Journals
  <1>. HIDE DEF g
  <1>4. g # None
    BY <1>3, NoneAssumption DEF Journals
  <1>5. file' = g /\ synced' = None /\ made' = made + 1
    BY <1>2 DEF g
  <1>6. Disk' /\ Ages
    <2>1. file' = g /\ file' # None /\ synced' = None
      BY <1>4, <1>5
    <2>2. g \in Journals /\ g.stamp <= made' /\ made' \in Nat
      BY <1>2, <1>3, <1>5
    <2>3. Disk'
      BY <2>1, <2>2 DEF Disk
    <2>4. g.stamp > made /\ made <= made'
      BY <1>2, <1>3, <1>5
    <2>5. Ages
      BY <2>1, <2>2, <2>4 DEF Ages
    <2>6. QED
      BY <2>3, <2>5
  <1>7. Forgotten' \/ \A a \in acked : a.by # "write"
    BY <1>1 DEF Acks, Durable, Holds, TombStays
  <1>8. QED
    BY <1>3, <1>4, <1>5, <1>6, <1>7 DEF Kept, Durable

\* The journal is unlinked behind its tombstone.
LEMMA GoneDisk ==
  ASSUME Disk, Acks, TombStays, file' = None, Grave' # None, UNCHANGED <<synced, made>>
  PROVE  Kept
  <1>1. Disk'
    BY DEF Disk
  <1>2. Ages
    BY OldJournals
  <1>3. Forgotten' \/ \A a \in acked : Durable(a, file', synced', Grave')
    BY DEF Acks, Durable, TombStays
  <1>4. QED
    BY <1>1, <1>2, <1>3 DEF Kept

\* The unlinking is synced, if the store is rooted.
LEMMA UnlinkedDisk ==
  ASSUME Disk, Acks, TombStays, file = None, synced' \in {None, synced}, Grave # None,
         UNCHANGED <<file, made>>
  PROVE  Kept
  <1>1. Disk'
    BY DEF Disk, TombStays
  <1>2. Ages
    BY OldJournals
  <1>3. Forgotten' \/ \A a \in acked : Durable(a, file', synced', Grave')
    BY DEF Acks, Durable, TombStays
  <1>4. QED
    BY <1>1, <1>2, <1>3 DEF Kept

\* What a power loss leaves has at least what was synced.
LEMMA LostDisk ==
  ASSUME Disk, Acks, NEW g \in Survivors(file, synced), file' = g, synced' = g,
         Forgotten => Forgotten', file = None /\ Grave # None => Forgotten' \/ Grave' # None,
         UNCHANGED made
  PROVE  Kept
  <1>1. made \in Nat
    BY DEF Disk
  <1>2. CASE g = synced \/ (g = None /\ file = None)
    <2>1. Ages
      BY <1>2, OldJournals
    <2>2. g # None => g \in Journals /\ g.stamp <= made /\ Begins(g.lines, g.lines)
      BY <1>2, JournalFacts
    <2>3. Disk'
      BY <1>1, <1>2, <2>2 DEF Disk
    <2>4. ASSUME ~Forgotten', NEW a \in acked, a.by = "write" PROVE Durable(a, g, g, Grave')
      <3>1. /\ synced = None => file = None
            /\ \A f \in {file, synced} : Holds(f, a) \/ (f = None /\ Grave # None)
        BY <2>4 DEF Acks, Durable
      <3>2. file = None => Grave' # None
        BY <2>4, <3>1 DEF Holds
      <3>3. QED
        BY <1>2, <3>1, <3>2 DEF Durable
    <2>5. QED
      BY <2>1, <2>3, <2>4 DEF Kept, Durable
  <1>3. CASE g # synced /\ ~(g = None /\ file = None)
    <2>. DEFINE kept == IF synced = None THEN 0 ELSE Len(synced.lines)
    <2>. DEFINE parts == {Journal(SubSeq(file.lines, 1, k), torn, file.stamp) :
                            k \in kept..Len(file.lines), torn \in BOOLEAN}
    <2>1. file # None /\ g \in parts
      <3>. DEFINE odd == IF file.torn THEN {} ELSE {Journal(file.lines, TRUE, file.stamp)}
                  other == IF file = None THEN {None} ELSE parts \ odd
      <3>1. Survivors(file, synced) = {synced} \cup other
        BY DEF Survivors
      <3>. HIDE DEF parts, odd
      <3>2. g \in other
        BY <1>3, <3>1, Zenon
      <3>3. QED
        BY <1>3, <3>2
    <2>2. PICK k \in kept..Len(file.lines), torn \in BOOLEAN :
            g = Journal(SubSeq(file.lines, 1, k), torn, file.stamp)
      BY <2>1
    <2>. HIDE DEF parts
    <2>3. file.lines \in Seq(Records) /\ Len(file.lines) \in Nat /\ file.stamp \in Nat
          /\ file.stamp <= made
      BY <2>1, JournalFacts
    <2>4. kept \in Nat
      BY JournalFacts
    <2>5. k \in 0..Len(file.lines)
      BY <2>2, <2>3, <2>4
    <2>6. /\ SubSeq(file.lines, 1, k) \in Seq(Records) /\ Len(SubSeq(file.lines, 1, k)) = k
          /\ \A i \in 1..k : SubSeq(file.lines, 1, k)[i] = file.lines[i]
      BY <2>3, <2>5, SubSeqProperties
    <2>7. g.lines = SubSeq(file.lines, 1, k) /\ g.torn = torn /\ g.stamp = file.stamp
          /\ g \in Journals
      BY <2>2, <2>3, <2>6 DEF Journal, Journals
    <2>8. g # None
      BY <2>7, NoneAssumption DEF Journals
    <2>9. Begins(file.lines, g.lines) /\ Begins(g.lines, g.lines)
      BY <2>5, <2>6, <2>7 DEF Begins
    <2>10. Disk' /\ Ages
      <3>1. Disk'
        BY <1>1, <2>3, <2>7, <2>8, <2>9 DEF Disk
      <3>2. \A x \in {file', synced'} : file # None /\ x.stamp = file.stamp
                                         /\ Begins(file.lines, x.lines)
        BY <2>1, <2>7, <2>9
      <3>3. Ages
        BY <1>1, <3>2 DEF Ages
      <3>4. QED
        BY <3>1, <3>3
    <2>11. ASSUME ~Forgotten', NEW a \in acked, a.by = "write" PROVE Holds(g, a)
      <3>1. Holds(file, a) /\ Holds(synced, a) /\ synced # None
        BY <2>1, <2>11 DEF Acks, Durable
      <3>2. a.rev \in 1..Len(synced.lines) /\ Len(synced.lines) \in Nat
        <4>1. synced.lines \in Seq(Records)
          BY <3>1, JournalFacts
        <4>2. QED
          BY <3>1, <4>1, LenProperties DEF Holds
      <3>3. a.rev \in 1..k
        BY <2>2, <2>5, <3>1, <3>2
      <3>4. a.rev \in DOMAIN g.lines /\ g.lines[a.rev] = file.lines[a.rev]
        BY <2>6, <2>7, <3>3, LenProperties
      <3>5. QED
        BY <2>8, <3>1, <3>4 DEF Holds
    <2>12. QED
      BY <2>8, <2>10, <2>11 DEF Kept, Durable
  <1>4. QED
    BY <1>2, <1>3
-----------------------------------------------------------------------------
(***************************************************************************)
(* What a call is going to write, and what it wrote.                       *)
(***************************************************************************)
LEMMA CallShape ==
  ASSUME NEW c \in Calls
  PROVE  /\ c.recs \in Seq(Records) /\ c.at \in Nat
         /\ c.single => Len(c.recs) = 1
  <1>1. CASE \E r \in Records, e \in 0..MaxRevision : c = One(r, e)
    <2>1. PICK r \in Records, e \in 0..MaxRevision : c = One(r, e)
      BY <1>1
    <2>2. c.recs = <<r>> /\ c.at = e
      BY <2>1 DEF One
    <2>3. QED
      BY <2>1, <2>2, CallAssumption
  <1>2. CASE \E s \in Batches, e \in 0..MaxRevision : c = Many(s, e)
    <2>1. PICK s \in Batches, e \in 0..MaxRevision : c = Many(s, e)
      BY <1>2
    <2>2. c.recs = s /\ c.at = e /\ ~c.single
      BY <2>1 DEF Many
    <2>3. QED
      BY <2>1, <2>2, CallAssumption
  <1>3. QED
    BY <1>1, <1>2 DEF Calls

\* The records of an accepted call that are missing come right behind the journal.
LEMMA MissingRecords ==
  ASSUME NEW c \in Calls, NEW known \in Seq(Records), Accepts(c, known),
         Rest(c, known) # <<>>
  PROVE  LET k == Overlap(c, known)
         IN  /\ k \in 0..(Len(c.recs) - 1) /\ c.at + k = Len(known)
             /\ Places(known, c.recs[k + 1]) = {}
             /\ \A i \in 1..k : known[c.at + i] = c.recs[i]
             /\ \A i \in DOMAIN c.recs : Position(c, known, i) = c.at + i
  <1>. DEFINE k == Overlap(c, known)
  <1>1. /\ c.recs \in Seq(Records) /\ c.at \in Nat /\ Len(c.recs) \in Nat
        /\ Len(known) \in Nat
    BY CallShape, LenProperties
  <1>2. Rest(c, known) = SubSeq(c.recs, k + 1, Len(c.recs))
    BY DEF Rest
  <1>3. CASE c.single
    <2>. DEFINE found == {p \in {1} : c.recs[1] \in Elements(known)}
    <2>1. Len(c.recs) = 1 /\ k = Cardinality(found)
      BY <1>3, CallShape DEF Overlap
    <2>2. c.recs[1] \notin Elements(known)
      <3>1. SUFFICES ASSUME c.recs[1] \in Elements(known) PROVE FALSE
        OBVIOUS
      <3>2. found = {1}
        BY <3>1
      <3>. HIDE DEF found
      <3>3. k = 1
        BY <2>1, <3>2, FS_Singleton
      <3>. HIDE DEF k
      <3>4. SubSeq(c.recs, k + 1, Len(c.recs)) = <<>>
        BY <1>1, <2>1, <3>3, SubSeqProperties
      <3>5. QED
        BY <1>2, <3>4
    <2>3. k = 0
      <3>1. found = {}
        BY <2>2
      <3>. HIDE DEF found
      <3>2. QED
        BY <2>1, <3>1, FS_EmptySet
    <2>4. ~Reconciled(c, known)
      BY <2>2 DEF Reconciled, Places, Elements
    <2>5. Places(known, c.recs[1]) = {} /\ Len(known) = c.at
      BY <1>3, <2>4 DEF Accepts
    <2>. HIDE DEF k
    <2>6. \A i \in DOMAIN c.recs : Position(c, known, i) = c.at + i
      BY <2>3 DEF Position, k
    <2>7. k \in 0..(Len(c.recs) - 1) /\ c.at + k = Len(known)
      BY <1>1, <2>1, <2>3, <2>5
    <2>8. Places(known, c.recs[k + 1]) = {}
      BY <2>3, <2>5
    <2>9. \A i \in 1..k : known[c.at + i] = c.recs[i]
      BY <2>3
    <2>10. QED
      BY <2>6, <2>7, <2>8, <2>9 DEF k
  <1>4. CASE ~c.single
    <2>1. BatchAgrees(c, known) /\ k = Smaller(Len(c.recs), Len(known) - c.at)
      BY <1>4 DEF Accepts, Overlap
    <2>2. Len(known) >= c.at
      BY <2>1 DEF BatchAgrees
    <2>. HIDE DEF k
    <2>3. k \in Nat /\ k <= Len(c.recs) /\ k <= Len(known) - c.at
      BY <1>1, <2>1, <2>2 DEF Smaller
    <2>4. k # Len(c.recs)
      <3>1. SUFFICES ASSUME k = Len(c.recs) PROVE FALSE
        OBVIOUS
      <3>2. SubSeq(c.recs, k + 1, Len(c.recs)) = <<>>
        BY <1>1, <3>1, SubSeqProperties
      <3>3. QED
        BY <1>2, <3>2
    <2>5. k \in 0..(Len(c.recs) - 1) /\ c.at + k = Len(known)
      BY <1>1, <2>1, <2>2, <2>3, <2>4 DEF Smaller
    <2>6. Smaller(Len(c.recs), k + 1) = k + 1
      BY <1>1, <2>5 DEF Smaller
    <2>7. \A i \in 1..(k + 1) :
            /\ Places(known, c.recs[i]) \subseteq {c.at + i}
            /\ c.at + i \in DOMAIN known => known[c.at + i] = c.recs[i]
      BY <2>1, <2>6 DEF BatchAgrees, k
    <2>8. DOMAIN known = 1..Len(known)
      BY LenProperties
    <2>9. Places(known, c.recs[k + 1]) = {}
      <3>1. Places(known, c.recs[k + 1]) \subseteq {c.at + (k + 1)}
        <4>1. k + 1 \in 1..(k + 1)
          BY <2>3
        <4>2. QED
          BY <2>7, <4>1
      <3>2. c.at + (k + 1) \notin DOMAIN known
        BY <1>1, <2>5, <2>8
      <3>3. Places(known, c.recs[k + 1]) \subseteq DOMAIN known
        BY DEF Places
      <3>4. QED
        BY <3>1, <3>2, <3>3
    <2>10. ASSUME NEW i \in 1..k PROVE known[c.at + i] = c.recs[i]
      BY <1>1, <2>5, <2>7, <2>8
    <2>11. \A i \in DOMAIN c.recs : Position(c, known, i) = c.at + i
      BY <1>4 DEF Position
    <2>12. QED
      BY <2>5, <2>9, <2>10, <2>11 DEF k
  <1>5. QED
    BY <1>3, <1>4

\* What a process that starts to write knows of the journal.
LEMMA WriterKnows ==
  ASSUME NEW c \in Calls, NEW f, f # None, ~f.torn, f.lines \in Seq(Records),
         Accepts(c, f.lines), Rest(c, f.lines) # <<>>,
         NEW h, h # None => h.records = f.lines,
         NEW p, p.at = "writing", p.call = c, p.head = h, p.todo = Rest(c, f.lines),
         p.told = Receipts(c, f.lines, "write")
  PROVE  Knows(p, f)
  <1>. DEFINE k == Overlap(c, f.lines)
              n == Len(c.recs)
  <1>1. /\ k \in 0..(n - 1) /\ c.at + k = Len(f.lines)
        /\ Places(f.lines, c.recs[k + 1]) = {}
        /\ \A i \in 1..k : f.lines[c.at + i] = c.recs[i]
        /\ \A i \in DOMAIN c.recs : Position(c, f.lines, i) = c.at + i
    BY MissingRecords
  <1>2. p.todo = SubSeq(c.recs, k + 1, n)
    BY DEF Rest
  <1>3. /\ c.recs \in Seq(Records) /\ c.at \in Nat /\ n \in Nat /\ DOMAIN c.recs = 1..n
        /\ Len(f.lines) \in Nat
    BY CallShape, LenProperties
  <1>. HIDE DEF k, n
  <1>4. /\ p.todo \in Seq(Records) /\ Len(p.todo) = n - k
        /\ \A j \in 1..(n - k) : p.todo[j] = c.recs[k + j]
    <2>1. k + 1 \in 1..(n + 1) /\ n \in (k + 1)-1..n
      BY <1>1, <1>3
    <2>2. QED
      BY <1>1, <1>2, <1>3, <2>1, SubSeqProperties DEF n
  <1>5. p.todo # <<>> /\ p.todo[1] = c.recs[k + 1]
    BY <1>1, <1>3, <1>4
  <1>6. Len(f.lines) + Len(p.todo) = c.at + Len(c.recs)
    BY <1>1, <1>3, <1>4 DEF n
  <1>7. \A i \in 1..(Len(f.lines) + Len(p.todo)) :
          (f.lines \o p.todo)[i] = IF i <= Len(f.lines) THEN f.lines[i]
                                                        ELSE p.todo[i - Len(f.lines)]
    BY <1>4, ConcatProperties
  <1>8. ASSUME NEW a \in p.told
        PROVE  /\ a.rev \in 1..(Len(f.lines) + Len(p.todo))
               /\ a.rec = (f.lines \o p.todo)[a.rev]
    <2>1. PICK i \in DOMAIN c.recs : a = [rev |-> Position(c, f.lines, i), rec |-> c.recs[i],
                                          by |-> "write"]
      BY <1>8 DEF Receipts
    <2>2. a.rev = c.at + i /\ a.rec = c.recs[i] /\ i \in 1..n
      BY <1>1, <1>3, <2>1
    <2>3. c.at + i \in 1..(Len(f.lines) + Len(p.todo))
      BY <1>1, <1>3, <1>4, <2>2
    <2>4. CASE i <= k
      <3>1. c.at + i <= Len(f.lines) /\ i \in 1..k
        BY <1>1, <1>3, <2>2, <2>4
      <3>2. (f.lines \o p.todo)[c.at + i] = f.lines[c.at + i]
        BY <1>7, <2>3, <3>1
      <3>3. QED
        BY <1>1, <2>2, <2>3, <3>1, <3>2
    <2>5. CASE i > k
      <3>. k \in Int /\ n \in Int /\ i \in Int /\ i <= n /\ c.at \in Int
           /\ Len(f.lines) = c.at + k
        BY <1>1, <1>3, <2>2
      <3>1. ~(c.at + i <= Len(f.lines)) /\ (c.at + i) - Len(f.lines) = i - k
            /\ i - k \in 1..(n - k) /\ k + (i - k) = i
        BY <2>5
      <3>2. (f.lines \o p.todo)[c.at + i] = p.todo[i - k]
        BY <1>7, <2>3, <3>1
      <3>3. p.todo[i - k] = c.recs[i]
        BY <1>4, <3>1
      <3>4. QED
        BY <2>2, <2>3, <3>2, <3>3
    <2>6. i <= k \/ i > k
      BY <1>1, <1>3, <2>2
    <2>7. QED
      BY <2>4, <2>5, <2>6
  <1>9. \A a \in p.told : /\ a.rev \in 1..(Len(f.lines) + Len(p.todo))
                          /\ a.rec = (f.lines \o p.todo)[a.rev]
    BY <1>8
  <1>10. Places(f.lines, p.todo[1]) = {}
    BY <1>1, <1>5
  <1>11. QED
    BY <1>4, <1>5, <1>6, <1>9, <1>10 DEF Knows

LEMMA AppendedFacts ==
  ASSUME made \in Nat, NEW f \in Journals, ~f.torn, NEW s \in Seq(Records)
  PROVE  /\ Appended(f, s) \in Journals /\ Appended(f, s).lines = f.lines \o s
         /\ Appended(f, s).torn = FALSE /\ Appended(f, s).stamp = made + 1
         /\ Begins(f.lines \o s, f.lines)
  <1>1. f.lines \in Seq(Records) /\ Len(f.lines) \in Nat /\ Len(s) \in Nat
    BY LenProperties DEF Journals
  <1>2. f.lines \o s \in Seq(Records) /\ Len(f.lines \o s) = Len(f.lines) + Len(s)
    BY <1>1, ConcatProperties
  <1>3. \A i \in 1..Len(f.lines) : (f.lines \o s)[i] = f.lines[i]
    BY <1>1, ConcatProperties
  <1>4. Appended(f, s) = [lines |-> f.lines \o s, torn |-> FALSE, stamp |-> made + 1]
    <2>1. Appended(f, s) = [[[f EXCEPT !.lines = f.lines \o s] EXCEPT !.torn = FALSE]
                              EXCEPT !.stamp = made + 1]
      BY DEF Appended
    <2>2. QED
      BY <2>1 DEF Journals
  <1>5. QED
    BY <1>1, <1>2, <1>3, <1>4 DEF Begins, Journals
-----------------------------------------------------------------------------
(***************************************************************************)
(* The parts of the invariant from one state to the next.                  *)
(***************************************************************************)

\* A head is one of those there were, or fits the journals as they are now.
LEMMA HeadsGoOn ==
  ASSUME Disk, Heads, Ages,
         cache' = [v \in Writers |-> cache'[v]], queued' = [v \in Writers |-> queued'[v]],
         \A v \in Writers :
           /\ cache'[v] = cache[v]
              \/ (cache'[v] # None /\ cache'[v].head # None =>
                    Fits(cache'[v].head, file', synced', made'))
           /\ queued'[v] = queued[v]
              \/ (queued'[v] # None => Fits(queued'[v], file', synced', made')),
         \A m \in {side', sideSynced'} :
           m \in {side, sideSynced}
           \/ (m # None /\ m.head # None => Fits(m.head, file', synced', made'))
  PROVE  Heads'
  <1>1. ASSUME NEW h, Fits(h, file, synced, made) PROVE Fits(h, file', synced', made')
    BY <1>1, FitsKept
  <1>2. ASSUME NEW v \in Writers
        PROVE  /\ cache'[v] # None /\ cache'[v].head # None =>
                    Fits(cache'[v].head, file', synced', made')
               /\ queued'[v] # None => Fits(queued'[v], file', synced', made')
    BY <1>1 DEF Heads
  <1>3. ASSUME NEW m \in {side', sideSynced'}, m # None, m.head # None
        PROVE  Fits(m.head, file', synced', made')
    BY <1>1, <1>3 DEF Heads
  <1>4. QED
    BY <1>2, <1>3 DEF Heads

LEMMA HeadsStay ==
  ASSUME Disk, Heads, Ages, UNCHANGED <<cache, queued, side, sideSynced>>
  PROVE  Heads'
  BY HeadsGoOn DEF Heads

\* A process goes on to another place: the others know what they knew.
LEMMA WorkGoesOn ==
  ASSUME RetireInv, Working, NEW w \in Writers, NEW to, pc' = [pc EXCEPT ![w] = to],
         UNCHANGED file \/ lock \in {w, None},
         Knows(to, file')
  PROVE  Working'
  <1>1. pc'[w] = to /\ \A v \in Writers \ {w} : pc'[v] = pc[v]
    BY DEF RetireInv, Locked
  <1>2. ASSUME NEW v \in Writers \ {w} PROVE Knows(pc'[v], file')
    <2>1. CASE UNCHANGED file
      BY <1>1, <2>1 DEF Working
    <2>2. CASE lock \in {w, None}
      <3>1. pc[v].at \notin UnderLock
        BY <2>2, NoneAssumption DEF RetireInv, Locked
      <3>2. QED
        BY <1>1, <3>1 DEF Knows, UnderLock
    <2>3. QED
      BY <2>1, <2>2
  <1>3. QED
    BY <1>1, <1>2 DEF Working

LEMMA WorkStays ==
  ASSUME RetireInv, Working, UNCHANGED pc, UNCHANGED file \/ lock = None
  PROVE  Working'
  <1>1. CASE UNCHANGED file
    BY <1>1 DEF Working
  <1>2. CASE lock = None
    <2>1. \A v \in Writers : pc[v].at \notin UnderLock
      BY <1>2, NoneAssumption DEF RetireInv, Locked
    <2>2. QED
      BY <2>1 DEF Working, Knows, UnderLock
  <1>3. QED
    BY <1>1, <1>2

LEMMA ElsewhereKnows ==
  ASSUME NEW p, p.at \notin {"writing", "syncing", "creating", "unlinked"}, NEW f
  PROVE  Knows(p, f)
  BY DEF Knows

LEMMA IdleKnows == \A f : Knows(Idle, f)
  BY DEF Knows, Idle

\* The receipts there were, and those of the step.
LEMMA AcksGoOn ==
  ASSUME Kept,
         \A a \in acked' : a \in acked \/ Durable(a, file', synced', Grave')
  PROVE  Acks'
  BY DEF Kept, Acks

\* A receipt of what the journal had already says nothing of what was synced.
LEMMA AnsweredFromJournal ==
  ASSUME Kept, NEW s, acked' = acked \cup s, \A a \in s : a.by = "journal"
  PROVE  Acks'
  BY AcksGoOn DEF Durable

LEMMA AnswersStore ==
  ASSUME RetireInv, Working, Kept, NEW w \in Writers, lock = None,
         NEW c \in Calls, NEW known \in Seq(Records), NEW h,
         Accepts(c, known), Answers(w, c, known, h),
         file' # None, ~file'.torn, file'.lines = known,
         h # None => h.records = known
  PROVE  Working' /\ Acks'
  <1>1. CASE Rest(c, known) = <<>>
    <2>1. acked' = acked \cup Receipts(c, known, "journal") /\ UNCHANGED pc
      BY <1>1 DEF Answers
    <2>2. \A a \in Receipts(c, known, "journal") : a.by = "journal"
      BY DEF Receipts
    <2>3. Acks'
      BY <2>1, <2>2, AnsweredFromJournal
    <2>4. QED
      BY <2>1, <2>3, WorkStays
  <1>2. CASE Rest(c, known) # <<>>
    <2>. DEFINE to == [at |-> "writing", call |-> c, head |-> h,
                       todo |-> Rest(c, known), told |-> Receipts(c, known, "write")]
    <2>1. pc' = [pc EXCEPT ![w] = to] /\ UNCHANGED acked
      BY <1>2 DEF Answers
    <2>2. /\ to.at = "writing" /\ to.call = c /\ to.head = h /\ to.todo = Rest(c, known)
          /\ to.told = Receipts(c, known, "write")
      OBVIOUS
    <2>. HIDE DEF to
    <2>3. Knows(to, file')
      BY <1>2, <2>2, WriterKnows
    <2>4. Working'
      BY <2>1, <2>3, WorkGoesOn
    <2>5. Acks'
      BY <2>1, AcksGoOn
    <2>6. QED
      BY <2>4, <2>5
  <1>3. QED
    BY <1>1, <1>2

\* The head an append goes by is the one of the journal.
LEMMA HeadIsOfJournal ==
  ASSUME Disk, Heads, NEW w \in Writers, file # None, HeadForAppend(w) # None
  PROVE  HeadForAppend(w).records = file.lines /\ ~file.torn
  <1>. DEFINE h == HeadForAppend(w)
  <1>1. h.id = Identity(file) /\ Fits(h, file, synced, made)
    <2>1. CASE cache[w] # None /\ cache[w].side = side /\ cache[w].head.id = Identity(file)
      <3>1. h = cache[w].head
        BY <2>1 DEF HeadForAppend
      <3>2. QED
        BY <2>1, <3>1 DEF Heads
    <2>2. CASE ~(cache[w] # None /\ cache[w].side = side /\ cache[w].head.id = Identity(file))
      <3>1. h = side.head /\ side # None /\ side.head.id = Identity(file)
        BY <2>2 DEF HeadForAppend
      <3>2. QED
        BY <3>1 DEF Heads
    <2>3. QED
      BY <2>1, <2>2
  <1>. HIDE DEF h
  <1>2. h.records = file.lines /\ ~file.torn
    BY <1>1, AcceptedHead
  <1>3. QED
    BY <1>2 DEF h

LEMMA AppendByHeadStore ==
  ASSUME RetireInv, Store, NEW w \in Writers, NEW c \in Calls, AppendByHead(w, c)
  PROVE  Store'
  <1>1. /\ lock = None /\ file # None /\ HeadForAppend(w) # None
        /\ Accepts(c, HeadForAppend(w).records)
        /\ Answers(w, c, HeadForAppend(w).records, HeadForAppend(w))
        /\ UNCHANGED <<file, synced, made, mode, tomb, tombSynced, lost, side, sideSynced,
                       cache, queued>>
    BY DEF AppendByHead, Enters, disk
  <1>2. HeadForAppend(w).records = file.lines /\ ~file.torn /\ file.lines \in Seq(Records)
    BY <1>1, HeadIsOfJournal, JournalFacts DEF Store
  <1>3. Kept
    BY <1>1, SameDisk DEF Store, TombStays, Grave, Forgotten
  <1>4. Heads'
    BY <1>1, <1>3, HeadsStay DEF Store, Kept
  <1>5. Working' /\ Acks'
    BY <1>1, <1>2, <1>3, AnswersStore DEF Store
  <1>6. QED
    BY <1>3, <1>4, <1>5 DEF Store, Kept

LEMMA AppendByReplayStore ==
  ASSUME RetireInv, Store, NEW w \in Writers, NEW c \in Calls, AppendByReplay(w, c)
  PROVE  Store'
  <1>. DEFINE h == IF file.torn THEN None ELSE HeadOf(file)
  <1>1. /\ lock = None /\ file # None /\ Mends /\ Accepts(c, file.lines)
        /\ Answers(w, c, file.lines, h)
        /\ UNCHANGED <<mode, tomb, tombSynced, lost, cache, queued>>
    BY DEF AppendByReplay, Enters
  <1>2. /\ Kept /\ file' # None /\ ~file'.torn /\ file'.lines = file.lines
        /\ ~file.torn => UNCHANGED <<file, synced, made>>
    BY <1>1, MendedDisk DEF Store, TombStays, Grave, Forgotten
  <1>3. file.lines \in Seq(Records)
    BY <1>1, JournalFacts DEF Store
  <1>4. h # None => h.records = file.lines
    BY DEF HeadOf
  <1>. HIDE DEF h
  <1>5. Working' /\ Acks'
    BY <1>1, <1>2, <1>3, <1>4, AnswersStore DEF Store
  <1>6. Heads'
    <2>1. CASE Rest(c, file.lines) = <<>> /\ ~file.torn
      <3>1. side' = WithHead(HeadOf(file)) /\ sideSynced' \in {sideSynced, side, side'}
        BY <2>1 DEF AppendByReplay, PutsSide
      <3>2. side'.head = HeadOf(file)
        BY <3>1 DEF WithHead
      <3>3. Fits(HeadOf(file), file', synced', made')
        BY <1>1, <1>2, <2>1, HeadOfFits DEF Store
      <3>4. QED
        BY <1>1, <1>2, <3>1, <3>2, <3>3, HeadsGoOn DEF Store, Heads, Kept
    <2>2. CASE ~(Rest(c, file.lines) = <<>> /\ ~file.torn)
      <3>1. UNCHANGED <<side, sideSynced>>
        BY <2>2 DEF AppendByReplay
      <3>2. QED
        BY <1>1, <1>2, <3>1, HeadsStay DEF Store, Kept
    <2>3. QED
      BY <2>1, <2>2
  <1>7. QED
    BY <1>2, <1>5, <1>6 DEF Store, Kept

LEMMA RepairsStore ==
  ASSUME RetireInv, Store, NEW w \in Writers, Repairs(w)
  PROVE  Store'
  <1>1. /\ lock = None /\ file # None /\ Mends
        /\ UNCHANGED <<mode, tomb, tombSynced, lost, side, sideSynced, pc, cache, queued, acked>>
    BY DEF Repairs, Enters, memory, receipts
  <1>2. Kept
    BY <1>1, MendedDisk DEF Store, TombStays, Grave, Forgotten
  <1>3. Heads'
    BY <1>1, <1>2, HeadsStay DEF Store, Kept
  <1>4. Working'
    BY <1>1, WorkStays DEF Store
  <1>5. Acks'
    BY <1>1, <1>2, AcksGoOn
  <1>6. QED
    BY <1>2, <1>3, <1>4, <1>5 DEF Store, Kept
\* The payload is written behind a journal nobody else can touch.
LEMMA WritesStore ==
  ASSUME RetireInv, Store, NEW w \in Writers, Writes(w)
  PROVE  Store'
  <1>. DEFINE to == [pc[w] EXCEPT !.at = "syncing"]
              todo == pc[w].todo
  <1>1. /\ pc[w].at = "writing" /\ file' = Appended(file, todo) /\ made' = made + 1
        /\ pc' = [pc EXCEPT ![w] = to]
        /\ UNCHANGED <<synced, mode, tomb, tombSynced, lost, side, sideSynced, cache, queued,
                       acked>>
    BY DEF Writes, receipts
  <1>2. Knows(pc[w], file) /\ lock = w
    BY <1>1 DEF Store, Working, RetireInv, Locked, UnderLock
  <1>3. /\ file # None /\ ~file.torn /\ todo \in Seq(Records)
        /\ pc[w].head # None => pc[w].head.records = file.lines
        /\ \A a \in pc[w].told : /\ a.rev \in 1..(Len(file.lines) + Len(todo))
                                 /\ a.rec = (file.lines \o todo)[a.rev]
    BY <1>1, <1>2 DEF Knows
  <1>4. file \in Journals /\ made \in Nat /\ file.lines \in Seq(Records)
    BY <1>3, JournalFacts DEF Store
  <1>5. /\ file' \in Journals /\ file'.lines = file.lines \o todo /\ ~file'.torn
        /\ file'.stamp = made + 1 /\ Begins(file'.lines, file.lines)
    BY <1>1, <1>3, <1>4, AppendedFacts
  <1>6. to.at = "syncing" /\ to.head = pc[w].head /\ to.todo = todo /\ to.told = pc[w].told
    OBVIOUS
  <1>. HIDE DEF to, todo
  <1>7. Kept
    BY <1>1, <1>3, <1>5, TombsAlike, WrittenDisk DEF Store
  <1>8. file' # None
    BY <1>5, NoneAssumption DEF Journals
  <1>9. ASSUME NEW a \in to.told PROVE Holds(file', a)
    <2>1. a.rev \in 1..(Len(file.lines) + Len(todo)) /\ a.rec = file'.lines[a.rev]
      BY <1>3, <1>5, <1>6
    <2>2. DOMAIN file'.lines = 1..(Len(file.lines) + Len(todo))
      <3>1. file'.lines \in Seq(Records) /\ Len(file'.lines) = Len(file.lines) + Len(todo)
        BY <1>3, <1>4, <1>5, ConcatProperties
      <3>2. QED
        BY <3>1, LenProperties
    <2>3. QED
      BY <1>8, <2>1, <2>2 DEF Holds
  <1>10. to.head # None => to.head.records \o to.todo = file'.lines
    BY <1>3, <1>5, <1>6
  <1>11. Knows(to, file')
    BY <1>5, <1>6, <1>8, <1>9, <1>10 DEF Knows
  <1>12. Working'
    BY <1>1, <1>2, <1>11, WorkGoesOn DEF Store
  <1>13. Heads'
    BY <1>1, <1>7, HeadsStay DEF Store, Kept
  <1>14. Acks'
    BY <1>1, <1>7, AcksGoOn
  <1>15. QED
    BY <1>7, <1>12, <1>13, <1>14 DEF Store, Kept

LEMMA WritesPartStore ==
  ASSUME RetireInv, Store, NEW w \in Writers, WritesPart(w)
  PROVE  Store'
  <1>. DEFINE todo == pc[w].todo
  <1>1. /\ pc[w].at = "writing" /\ made' = made + 1
        /\ pc' = [pc EXCEPT ![w] = Idle]
        /\ UNCHANGED <<synced, mode, tomb, tombSynced, lost, side, sideSynced, cache, queued,
                       acked>>
    BY DEF WritesPart, Leaves, receipts
  <1>2. Knows(pc[w], file) /\ lock = w
    BY <1>1 DEF Store, Working, RetireInv, Locked, UnderLock
  <1>3. file # None /\ ~file.torn /\ todo \in Seq(Records)
    BY <1>1, <1>2 DEF Knows
  <1>4. file \in Journals /\ made \in Nat /\ Len(todo) \in Nat
    BY <1>3, JournalFacts, LenProperties DEF Store
  <1>5. PICK k \in 0..(Len(todo) - 1), torn \in BOOLEAN :
          file' = [Appended(file, SubSeq(todo, 1, k)) EXCEPT !.torn = @ \/ torn]
    BY DEF WritesPart
  <1>. DEFINE s == SubSeq(todo, 1, k)
              g == Appended(file, s)
  <1>6. s \in Seq(Records)
    BY <1>3, <1>4, SubSeqProperties
  <1>7. /\ g \in Journals /\ g.lines = file.lines \o s
        /\ g.stamp = made + 1 /\ Begins(file.lines \o s, file.lines)
    BY <1>3, <1>4, <1>6, AppendedFacts
  <1>8. file' = [g EXCEPT !.torn = g.torn \/ torn]
    BY <1>5
  <1>. HIDE DEF s, g
  <1>9. file' \in Journals /\ file'.lines = g.lines /\ file'.stamp = g.stamp
    <2>1. (g.torn \/ torn) \in BOOLEAN
      OBVIOUS
    <2>2. QED
      BY <1>7, <1>8, <2>1 DEF Journals
  <1>10. Kept
    BY <1>1, <1>3, <1>7, <1>9, TombsAlike, WrittenDisk DEF Store
  <1>11. Working'
    BY <1>1, <1>2, IdleKnows, WorkGoesOn DEF Store
  <1>12. Heads'
    BY <1>1, <1>10, HeadsStay DEF Store, Kept
  <1>13. Acks'
    BY <1>1, <1>10, AcksGoOn
  <1>14. QED
    BY <1>10, <1>11, <1>12, <1>13 DEF Store, Kept

\* The journal is synced; the advanced head is the one made of it.
LEMMA CommitsStore ==
  ASSUME RetireInv, Store, NEW w \in Writers, Commits(w)
  PROVE  Store'
  <1>1. /\ pc[w].at = "syncing" /\ synced' = file /\ acked' = acked \cup pc[w].told
        /\ Remembers(w) /\ pc' = [pc EXCEPT ![w] = Idle]
        /\ UNCHANGED <<file, mode, tomb, tombSynced, lost, made>>
    BY DEF Commits, Leaves
  <1>2. Knows(pc[w], file)
    BY <1>1 DEF Store, Working
  <1>3. /\ file # None /\ ~file.torn
        /\ pc[w].head # None => pc[w].head.records \o pc[w].todo = file.lines
        /\ \A a \in pc[w].told : Holds(file, a)
    BY <1>1, <1>2 DEF Knows
  <1>4. Kept
    BY <1>1, <1>3, SyncedDisk DEF Store, TombStays, Grave, Forgotten
  <1>5. Working'
    BY <1>1, IdleKnows, WorkGoesOn DEF Store
  <1>6. Acks'
    <2>1. \A a \in pc[w].told : Durable(a, file', synced', Grave')
      BY <1>1, <1>3 DEF Durable
    <2>2. QED
      BY <1>1, <1>4, <2>1, AcksGoOn
  <1>7. Heads'
    <2>1. CASE pc[w].head = None
      <3>1. UNCHANGED <<cache, queued, side, sideSynced>>
        BY <1>1, <2>1 DEF Remembers
      <3>2. QED
        BY <1>1, <1>4, <3>1, HeadsStay DEF Store, Kept
    <2>2. CASE pc[w].head # None
      <3>. DEFINE h == NewHead(w)
                  kept == [head |-> h, side |-> side']
      <3>1. h = HeadOf(file)
        BY <1>3, <2>2 DEF NewHead, Advanced, HeadOf
      <3>2. Fits(h, file, synced, made)
        BY <1>3, <3>1, HeadOfFits DEF Store
      <3>3. Fits(h, file', synced', made')
        BY <1>4, <3>2, FitsKept DEF Store, Kept
      <3>. HIDE DEF h
      <3>4. /\ cache' = [cache EXCEPT ![w] = kept]
            /\ queued' = [queued EXCEPT ![w] = h] \/ UNCHANGED queued
        BY <1>1, <2>2 DEF Remembers, h
      <3>5. kept.head = h
        OBVIOUS
      <3>. HIDE DEF kept
      <3>6. /\ cache' = [v \in Writers |-> cache'[v]] /\ queued' = [v \in Writers |-> queued'[v]]
            /\ cache'[w] = kept /\ queued'[w] \in {h, queued[w]}
            /\ \A v \in Writers \ {w} : cache'[v] = cache[v] /\ queued'[v] = queued[v]
        BY <3>4 DEF Store, Heads
      <3>7. /\ side' = side \/ (side' = WithHead(h) /\ side'.head = h)
            /\ sideSynced' \in {sideSynced, side, side'}
        BY <1>1, <2>2 DEF Remembers, PutsSide, WithHead, h
      <3>8. ASSUME NEW m \in {side', sideSynced'}
            PROVE  m \in {side, sideSynced} \/ m.head = h
        BY <3>7
      <3>9. QED
        BY <1>1, <1>4, <3>3, <3>5, <3>6, <3>8, HeadsGoOn DEF Store, Kept
    <2>3. QED
      BY <2>1, <2>2
  <1>8. QED
    BY <1>4, <1>5, <1>6, <1>7 DEF Store, Kept

LEMMA WriteHeadStore ==
  ASSUME RetireInv, Store, NEW w \in Writers, WriteHeadIfCurrent(w)
  PROVE  Store'
  <1>1. /\ queued[w] # None /\ queued' = [queued EXCEPT ![w] = None]
        /\ UNCHANGED <<file, synced, made, mode, tomb, tombSynced, lost, pc, acked>>
    BY DEF WriteHeadIfCurrent, receipts
  <1>2. Kept
    BY <1>1, SameDisk DEF Store, TombStays, Grave, Forgotten
  <1>3. Working'
    BY <1>1, WorkStays DEF Store
  <1>4. Acks'
    BY <1>1, <1>2, AcksGoOn
  <1>5. Fits(queued[w], file', synced', made')
    BY <1>1, <1>2, FitsKept DEF Store, Kept, Heads
  <1>6. /\ queued' = [v \in Writers |-> queued'[v]] /\ queued'[w] = None
        /\ \A v \in Writers \ {w} : queued'[v] = queued[v]
    BY <1>1 DEF Store, Heads
  <1>7. Heads'
    <2>1. CASE HeadIsCurrent(queued[w])
      <3>. DEFINE kept == [head |-> queued[w], side |-> side']
      <3>1. /\ side' = WithHead(queued[w]) /\ sideSynced' \in {sideSynced, side, side'}
            /\ cache' = [cache EXCEPT ![w] = kept]
        BY <2>1 DEF WriteHeadIfCurrent, PutsSide
      <3>2. side'.head = queued[w] /\ kept.head = queued[w]
        BY <3>1 DEF WithHead
      <3>. HIDE DEF kept
      <3>3. /\ cache' = [v \in Writers |-> cache'[v]] /\ cache'[w] = kept
            /\ \A v \in Writers \ {w} : cache'[v] = cache[v]
        BY <3>1 DEF Store, Heads
      <3>4. QED
        BY <1>2, <1>5, <1>6, <3>1, <3>2, <3>3, HeadsGoOn DEF Store, Kept
    <2>2. CASE ~HeadIsCurrent(queued[w])
      <3>1. UNCHANGED <<side, sideSynced, cache>>
        BY <2>2 DEF WriteHeadIfCurrent
      <3>2. cache' = [v \in Writers |-> cache'[v]]
        BY <3>1 DEF Store, Heads
      <3>3. QED
        BY <1>2, <1>6, <3>1, <3>2, HeadsGoOn DEF Store, Kept
    <2>3. QED
      BY <2>1, <2>2
  <1>8. QED
    BY <1>2, <1>3, <1>4, <1>7 DEF Store, Kept

LEMMA CreatesStore ==
  ASSUME RetireInv, Store, NEW w \in Writers, NEW s \in Imports, NEW op \in CreateOps,
         CreatesAgain(w, s, op) \/ Creates(w, s, op)
  PROVE  Store'
  <1>1. CASE CreatesAgain(w, s, op)
    <2>1. /\ lock = None /\ file # None /\ Mends /\ acked' = acked \cup Imported(s, "journal")
          /\ UNCHANGED <<mode, tomb, tombSynced, lost, side, sideSynced, pc, cache, queued>>
      BY <1>1 DEF CreatesAgain, Enters, memory
    <2>2. Kept
      BY <2>1, MendedDisk DEF Store, TombStays, Grave, Forgotten
    <2>3. \A a \in Imported(s, "journal") : a.by = "journal"
      BY DEF Imported
    <2>4. Acks'
      BY <2>1, <2>2, <2>3, AnsweredFromJournal
    <2>5. Working'
      BY <2>1, WorkStays DEF Store
    <2>6. Heads'
      BY <2>1, <2>2, HeadsStay DEF Store, Kept
    <2>7. QED
      BY <2>2, <2>4, <2>5, <2>6 DEF Store, Kept
  <1>2. CASE Creates(w, s, op)
    <2>. DEFINE to == [at |-> "creating", recs |-> s, op |-> op]
    <2>1. /\ lock = None /\ IsFree
          /\ file' = Journal(s, FALSE, made + 1) /\ made' = made + 1
          /\ pc' = [pc EXCEPT ![w] = to]
          /\ UNCHANGED <<synced, mode, tomb, tombSynced, lost, side, sideSynced, cache, queued,
                         acked>>
      BY <1>2 DEF Creates, Enters, receipts
    <2>2. s \in Seq(Records)
      BY CallAssumption
    <2>3. to.at = "creating" /\ to.recs = s
      OBVIOUS
    <2>. HIDE DEF to
    <2>4. Kept /\ file' # None /\ ~file'.torn /\ file'.lines = s
      BY <2>1, <2>2, TombsAlike, CreatedDisk DEF Store
    <2>5. Knows(to, file')
      BY <2>3, <2>4 DEF Knows
    <2>6. Working'
      BY <2>1, <2>5, WorkGoesOn DEF Store
    <2>7. Acks'
      BY <2>1, <2>4, AcksGoOn
    <2>8. Heads'
      BY <2>1, <2>4, HeadsStay DEF Store, Kept
    <2>9. QED
      BY <2>4, <2>6, <2>7, <2>8 DEF Store, Kept
  <1>3. QED
    BY <1>1, <1>2
LEMMA CreateSettlesStore ==
  ASSUME RetireInv, Store, NEW w \in Writers, CreateSettles(w)
  PROVE  Store'
  <1>1. /\ pc[w].at = "creating" /\ synced' = file
        /\ side' = [create |-> pc[w].op, head |-> HeadOf(file)]
        /\ sideSynced' \in {sideSynced, side, side'}
        /\ acked' = acked \cup Imported(pc[w].recs, "write")
        /\ pc' = [pc EXCEPT ![w] = Idle]
        /\ UNCHANGED <<file, mode, tomb, tombSynced, lost, made, cache, queued>>
    BY DEF CreateSettles, Leaves, PutsSide
  <1>2. file # None /\ ~file.torn /\ file.lines = pc[w].recs
    BY <1>1 DEF Store, Working, Knows
  <1>3. Kept
    BY <1>1, <1>2, SyncedDisk DEF Store, TombStays, Grave, Forgotten
  <1>4. Working'
    BY <1>1, IdleKnows, WorkGoesOn DEF Store
  <1>5. Acks'
    <2>1. ASSUME NEW a \in Imported(pc[w].recs, "write") PROVE Holds(file, a)
      <3>1. PICK i \in DOMAIN pc[w].recs : a = [rev |-> i, rec |-> pc[w].recs[i], by |-> "write"]
        BY <2>1 DEF Imported
      <3>2. QED
        BY <1>2, <3>1 DEF Holds
    <2>2. \A a \in Imported(pc[w].recs, "write") : Durable(a, file', synced', Grave')
      BY <1>1, <1>2, <2>1 DEF Durable
    <2>3. QED
      BY <1>1, <1>3, <2>2, AcksGoOn
  <1>6. Heads'
    <2>1. side'.head = HeadOf(file)
      BY <1>1
    <2>2. Fits(HeadOf(file), file, synced, made)
      BY <1>2, HeadOfFits DEF Store
    <2>3. Fits(HeadOf(file), file', synced', made')
      BY <1>3, <2>2, FitsKept DEF Store, Kept
    <2>4. QED
      BY <1>1, <1>3, <2>1, <2>3, HeadsGoOn DEF Store, Heads, Kept
  <1>7. QED
    BY <1>3, <1>4, <1>5, <1>6 DEF Store, Kept

\* The steps of a deletion before the journal goes.
LEMMA DeleteBeginsStore ==
  ASSUME RetireInv, Store, NEW w \in Writers,
         \/ \E e \in 0..MaxRevision, op \in DeleteOps : DeleteBegins(w, e, op)
         \/ DeleteLocks(w) \/ DeleteRefused(w)
  PROVE  Store'
  <1>1. ASSUME NEW to, pc' = [pc EXCEPT ![w] = to],
               to.at \notin {"writing", "syncing", "creating", "unlinked"},
               Kept, UNCHANGED file \/ lock = None,
               UNCHANGED <<side, sideSynced, cache, queued, acked>>
        PROVE  Store'
    <2>1. Working'
      BY <1>1, ElsewhereKnows, WorkGoesOn DEF Store
    <2>2. Heads' /\ Acks'
      BY <1>1, HeadsStay, AcksGoOn DEF Store, Kept
    <2>3. QED
      BY <1>1, <2>1, <2>2 DEF Store, Kept
  <1>2. ASSUME NEW e \in 0..MaxRevision, NEW op \in DeleteOps, DeleteBegins(w, e, op)
        PROVE  Store'
    <2>1. UNCHANGED <<file, synced, made, side, sideSynced, cache, queued, acked>> /\ TombStays
      BY <1>2 DEF DeleteBegins, receipts, RetireInv, Tombs, TombStays, Settled, Grave, Forgotten
    <2>2. Kept
      BY <2>1, SameDisk DEF Store
    <2>3. CASE tomb = None
      <3>. DEFINE to == [at |-> "deleting", rev |-> e, op |-> op]
      <3>1. pc' = [pc EXCEPT ![w] = to]
        BY <1>2, <2>3 DEF DeleteBegins
      <3>2. to.at = "deleting"
        OBVIOUS
      <3>. HIDE DEF to
      <3>3. QED
        BY <1>1, <2>1, <2>2, <3>1, <3>2
    <2>4. CASE tomb # None
      <3>. DEFINE to == [at |-> "resuming"]
      <3>1. pc' = [pc EXCEPT ![w] = to]
        BY <1>2, <2>4 DEF DeleteBegins
      <3>2. to.at = "resuming"
        OBVIOUS
      <3>. HIDE DEF to
      <3>3. QED
        BY <1>1, <2>1, <2>2, <3>1, <3>2
    <2>5. QED
      BY <2>3, <2>4
  <1>3. CASE DeleteLocks(w)
    <2>. DEFINE to == [at |-> "unlinking"]
    <2>1. /\ lock = None /\ file # None /\ Mends /\ pc' = [pc EXCEPT ![w] = to]
          /\ tomb' = [rev |-> pc[w].rev, op |-> pc[w].op] /\ pc[w].at = "deleting"
          /\ UNCHANGED <<mode, tombSynced, lost, side, sideSynced, cache, queued, acked>>
      BY <1>3 DEF DeleteLocks, receipts
    <2>2. to.at = "unlinking"
      OBVIOUS
    <2>. HIDE DEF to
    <2>3. TombStays
      BY <2>1 DEF RetireInv, Tombs, TombStays, Grave, Forgotten
    <2>4. Kept
      BY <2>1, <2>3, MendedDisk DEF Store
    <2>5. QED
      BY <1>1, <2>1, <2>2, <2>4
  <1>4. CASE DeleteRefused(w)
    <2>1. /\ pc' = [pc EXCEPT ![w] = Idle] /\ Idle.at = "idle"
          /\ UNCHANGED <<file, synced, made, mode, tomb, tombSynced, lost, side, sideSynced,
                         cache, queued, acked>>
      BY <1>4 DEF DeleteRefused, disk, receipts, Idle
    <2>2. Kept
      BY <2>1, SameDisk DEF Store, TombStays, Grave, Forgotten
    <2>3. QED
      BY <1>1, <2>1, <2>2
  <1>5. QED
    BY <1>2, <1>3, <1>4

\* The journal goes, then what a power loss would leave of it.
LEMMA DeleteEndsStore ==
  ASSUME RetireInv, Store, NEW w \in Writers,
         DeleteUnlinks(w) \/ DeleteSettles(w) \/ DeleteResumes(w)
  PROVE  Store'
  <1>1. ASSUME NEW to, pc' = [pc EXCEPT ![w] = to], Knows(to, file'),
               Kept, UNCHANGED file \/ lock \in {w, None},
               UNCHANGED <<side, sideSynced, cache, queued, acked>>
        PROVE  Store'
    <2>1. Working'
      BY <1>1, WorkGoesOn DEF Store
    <2>2. Heads' /\ Acks'
      BY <1>1, HeadsStay, AcksGoOn DEF Store, Kept
    <2>3. QED
      BY <1>1, <2>1, <2>2 DEF Store, Kept
  <1>. DEFINE gone == [at |-> "unlinked"]
  <1>2. \A f : f = None => Knows(gone, f)
    BY DEF Knows
  <1>. HIDE DEF gone
  <1>3. CASE DeleteUnlinks(w)
    <2>1. /\ pc[w].at = "unlinking" /\ tombSynced' = Settled(tomb) /\ file' = None
          /\ pc' = [pc EXCEPT ![w] = gone]
          /\ UNCHANGED <<mode, tomb, lost, synced, made, side, sideSynced, cache, queued, acked>>
      BY <1>3 DEF DeleteUnlinks, receipts, gone
    <2>2. lock = w /\ Grave' # None /\ TombStays
      BY <2>1 DEF RetireInv, Locked, Tombs, UnderLock, Grave, Settled, Forgotten, TombStays
    <2>3. Kept
      BY <2>1, <2>2, GoneDisk DEF Store
    <2>4. QED
      BY <1>1, <1>2, <2>1, <2>2, <2>3
  <1>4. CASE DeleteSettles(w)
    <2>1. /\ pc[w].at = "unlinked" /\ synced' \in {None, synced}
          /\ pc' = [pc EXCEPT ![w] = Idle]
          /\ UNCHANGED <<file, mode, tomb, tombSynced, lost, made, side, sideSynced, cache,
                         queued, acked>>
      BY <1>4 DEF DeleteSettles, Leaves
    <2>2. file = None /\ Grave # None /\ TombStays
      BY <2>1, TombsAlike DEF Store, Working, Knows, RetireInv, Tombs
    <2>3. Kept
      BY <2>1, <2>2, UnlinkedDisk DEF Store
    <2>4. QED
      BY <1>1, <2>1, <2>3, IdleKnows
  <1>5. CASE DeleteResumes(w)
    <2>1. /\ pc[w].at = "resuming"
          /\ UNCHANGED <<synced, mode, tomb, tombSynced, lost, made, side, sideSynced, cache,
                         queued, acked>>
      BY <1>5 DEF DeleteResumes
    <2>2. Grave # None /\ Grave' # None /\ TombStays
      BY <2>1, TombsAlike DEF RetireInv, Tombs
    <2>3. CASE file = None
      <3>1. pc' = [pc EXCEPT ![w] = Idle] /\ UNCHANGED file
        BY <1>5, <2>3 DEF DeleteResumes
      <3>2. Kept
        BY <2>1, <2>2, <3>1, SameDisk DEF Store
      <3>3. QED
        BY <1>1, <2>1, <3>1, <3>2, IdleKnows
    <2>4. CASE file # None
      <3>1. lock = None /\ file' = None /\ pc' = [pc EXCEPT ![w] = gone]
        BY <1>5, <2>4 DEF DeleteResumes, gone
      <3>2. Kept
        BY <2>1, <2>2, <3>1, GoneDisk DEF Store
      <3>3. QED
        BY <1>1, <1>2, <2>1, <3>1, <3>2
    <2>5. QED
      BY <2>3, <2>4
  <1>6. QED
    BY <1>3, <1>4, <1>5

LEMMA FaultsStore ==
  ASSUME RetireInv, Store, PowerLoss \/ \E w \in Writers : Fails(w) \/ Killed(w)
  PROVE  Store'
  <1>1. ASSUME NEW w \in Writers, Fails(w) \/ Killed(w) PROVE Store'
    <2>1. /\ pc' = [pc EXCEPT ![w] = Idle]
          /\ UNCHANGED <<file, synced, made, mode, tomb, tombSynced, lost, side, sideSynced, acked>>
      BY <1>1 DEF Fails, Killed, disk, receipts
    <2>2. Kept
      BY <2>1, SameDisk DEF Store, TombStays, Grave, Forgotten
    <2>3. Working'
      BY <2>1, IdleKnows, WorkGoesOn DEF Store
    <2>4. Acks'
      BY <2>1, <2>2, AcksGoOn
    <2>5. CASE UNCHANGED <<cache, queued>>
      BY <2>1, <2>2, <2>3, <2>4, <2>5, HeadsStay DEF Store, Kept
    <2>6. CASE cache' = [cache EXCEPT ![w] = None] /\ queued' = [queued EXCEPT ![w] = None]
      <3>1. /\ cache' = [v \in Writers |-> cache'[v]] /\ queued' = [v \in Writers |-> queued'[v]]
            /\ cache'[w] = None /\ queued'[w] = None
            /\ \A v \in Writers \ {w} : cache'[v] = cache[v] /\ queued'[v] = queued[v]
        BY <2>6 DEF Store, Heads
      <3>2. Heads'
        BY <2>1, <2>2, <3>1, HeadsGoOn DEF Store, Kept
      <3>3. QED
        BY <2>2, <2>3, <2>4, <3>2 DEF Store, Kept
    <2>7. QED
      BY <1>1, <2>5, <2>6 DEF Fails, Killed
  <1>2. CASE PowerLoss
    <2>1. PICK g \in Survivors(file, synced), t \in Leftovers(tomb, tombSynced, Garbage),
               m \in Leftovers(side, sideSynced, Unreadable) :
            /\ file' = g /\ synced' = g
            /\ tomb' = t /\ tombSynced' = t
            /\ side' = m /\ sideSynced' = m
            /\ lost' = (lost \/ (tomb # None /\ t = None /\ (deleted \/ file = None)))
      BY <1>2 DEF PowerLoss
    <2>2. /\ pc' = [w \in Writers |-> Idle]
          /\ cache' = [w \in Writers |-> None] /\ queued' = [w \in Writers |-> None]
          /\ UNCHANGED <<mode, made, acked>>
      BY <1>2 DEF PowerLoss
    <2>3. /\ Forgotten => Forgotten'
          /\ file = None /\ Grave # None => Forgotten' \/ Grave' # None
      <3>1. Forgotten => Forgotten'
        BY <2>1, <2>2 DEF Forgotten
      <3>2. CASE mode.rooted
        BY <2>1, <2>2, <3>1, <3>2 DEF Leftovers, Grave, RetireInv, Tombs
      <3>3. CASE ~mode.rooted
        BY <2>1, <2>2, <3>1, <3>3 DEF Grave, Forgotten
      <3>4. QED
        BY <3>1, <3>2, <3>3
    <2>4. Kept
      BY <2>1, <2>2, <2>3, LostDisk DEF Store
    <2>5. Working'
      BY <2>2, IdleKnows DEF Working
    <2>6. Acks'
      BY <2>2, <2>4, AcksGoOn
    <2>7. Heads'
      <3>1. m \in {side, sideSynced} \/ m.head = None
        BY <2>1 DEF Leftovers, Unreadable
      <3>2. QED
        BY <2>1, <2>2, <2>4, <3>1, HeadsGoOn DEF Store, Kept
    <2>8. QED
      BY <2>4, <2>5, <2>6, <2>7 DEF Store, Kept
  <1>3. QED
    BY <1>1, <1>2

LEMMA StoreInit == Init => StoreInv
  <1> SUFFICES ASSUME Init PROVE StoreInv
    OBVIOUS
  <1>1. Disk /\ Acks
    BY DEF Init, Disk, Acks
  <1>2. Heads /\ Working
    BY IdleKnows DEF Init, Heads, Working
  <1>3. QED
    BY <1>1, <1>2, RetireInit DEF StoreInv, Store

LEMMA StoreStep == StoreInv /\ [Next]_vars => StoreInv'
  <1> SUFFICES ASSUME StoreInv, [Next]_vars PROVE StoreInv'
    OBVIOUS
  <1>1. RetireInv /\ Store
    BY DEF StoreInv
  <1>2. RetireInv'
    BY <1>1, RetireStep
  <1>3. ASSUME NEW w \in Writers, Operates(w) PROVE Store'
    <2>1. ASSUME NEW c \in Calls, AppendByHead(w, c) \/ AppendByReplay(w, c) PROVE Store'
      BY <1>1, <2>1, AppendByHeadStore, AppendByReplayStore
    <2>2. CASE Repairs(w) \/ Writes(w) \/ WritesPart(w) \/ Commits(w) \/ WriteHeadIfCurrent(w)
      BY <1>1, <2>2, RepairsStore, WritesStore, WritesPartStore, CommitsStore, WriteHeadStore
    <2>3. ASSUME NEW s \in Imports, NEW op \in CreateOps,
                 CreatesAgain(w, s, op) \/ Creates(w, s, op)
          PROVE  Store'
      BY <1>1, <2>3, CreatesStore
    <2>4. CASE CreateSettles(w)
      BY <1>1, <2>4, CreateSettlesStore
    <2>5. CASE \/ \E e \in 0..MaxRevision, op \in DeleteOps : DeleteBegins(w, e, op)
               \/ DeleteLocks(w) \/ DeleteRefused(w)
      BY <1>1, <2>5, DeleteBeginsStore
    <2>6. CASE DeleteUnlinks(w) \/ DeleteSettles(w) \/ DeleteResumes(w)
      BY <1>1, <2>6, DeleteEndsStore
    <2>7. QED
      BY <1>3, <2>1, <2>2, <2>3, <2>4, <2>5, <2>6 DEF Operates
  <1>4. ASSUME PowerLoss \/ \E w \in Writers : Fails(w) \/ Killed(w) PROVE Store'
    BY <1>1, <1>4, FaultsStore
  <1>5. ASSUME UNCHANGED vars PROVE Store'
    <2>1. UNCHANGED <<file, synced, made, mode, tomb, tombSynced, lost, side, sideSynced, pc,
                      cache, queued, acked>>
      BY <1>5 DEF vars, disk, memory, receipts
    <2>2. Kept
      BY <1>1, <2>1, SameDisk DEF Store, TombStays, Grave, Forgotten
    <2>3. Heads' /\ Working' /\ Acks'
      BY <1>1, <2>1, <2>2, HeadsStay, WorkStays, AcksGoOn DEF Store, Kept
    <2>4. QED
      BY <2>2, <2>3 DEF Store, Kept
  <1>6. Store'
    BY <1>3, <1>4, <1>5 DEF Next
  <1>7. QED
    BY <1>2, <1>6 DEF StoreInv

LEMMA StoreAlways == Spec => []StoreInv
  BY StoreInit, StoreStep, PTL DEF Spec

\* The record of an append that was synced stays at the revision its receipt names, in the
\* journal and in what a power loss leaves of it, until a tombstone has replaced it. A rooted
\* store has made that durable by then; by pathname this holds as long as no power loss takes
\* the tombstone of a journal that is gone.
THEOREM ReceiptsStand == Spec => []ReceiptsHold
  <1>1. StoreInv => ReceiptsHold
    BY DEF StoreInv, Store, Acks, Durable, ReceiptsHold
  <1>2. QED
    BY StoreAlways, <1>1, PTL

\* A head that has the identity of the journal describes it, whichever process made it and
\* wherever it was kept: no write of the journal leaves it with the identity it had.
THEOREM HeadsDescribe == Spec => []HeadIsJournal
  <1>1. StoreInv => HeadIsJournal
    <2> SUFFICES ASSUME StoreInv, file # None,
                        NEW h \in {cache[w].head : w \in {v \in Writers : cache[v] # None}}
                                    \cup {queued[w] : w \in Writers}
                                    \cup {m.head : m \in {side, sideSynced} \ {None}},
                        h # None, h.id = Identity(file)
                 PROVE  h.records = file.lines
      BY DEF HeadIsJournal
    <2>1. Fits(h, file, synced, made)
      BY DEF StoreInv, Store, Heads
    <2>2. QED
      BY <2>1, AcceptedHead DEF StoreInv, Store
  <1>2. QED
    BY StoreAlways, <1>1, PTL

\* An append writes only what the journal has not: it has no torn tail, is at the expected
\* revision and has no record with the id, by whichever head the decision was taken.
THEOREM AppendsAreFresh == Spec => []AppendsAreNew
  <1>1. StoreInv => AppendsAreNew
    BY DEF StoreInv, Store, Working, Knows, AppendsAreNew
  <1>2. QED
    BY StoreAlways, <1>1, PTL
=============================================================================
