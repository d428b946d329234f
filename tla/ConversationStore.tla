--------------------------- MODULE ConversationStore --------------------------
(***************************************************************************)
(* One conversation of a file store, over its journal:                     *)
(*                                                                         *)
(*   src/src/loushang/harness/conversation/stores/file.py                  *)
(*   src/src/loushang/harness/journal/jsonl.py, _rooted_io.py              *)
(*                                                                         *)
(* Several processes hold a store of the same directory. Each operation    *)
(* runs under the exclusive lock of the journal, but a deletion looks for  *)
(* the tombstone before it takes the lock. Operations of the file system   *)
(* fail, processes are killed, and a power loss keeps what was synced and  *)
(* any part of what was not. A replacement of a file (atomic_write) is one *)
(* step, but for that of the tombstone.                                    *)
(*                                                                         *)
(* All stores of the directory have the same mode. A rooted one (file_io)  *)
(* syncs whatever it writes. One by pathname, the default, syncs journals, *)
(* but no sidecar and no tombstone (_write_json_sidecar), and after an     *)
(* unlink nothing; it waits for a lock where a rooted one gives up, and    *)
(* may do both here. A deferred store (background_head_updates) leaves     *)
(* heads to a worker, any other publishes them with the append.            *)
(*                                                                         *)
(* A record is a pair of its id, which is also the operation id of its     *)
(* append, and a body. Left out: the header, which never changes, the      *)
(* times of receipts, and a store without head token.                      *)
(***************************************************************************)
EXTENDS Integers, Sequences, FiniteSets

CONSTANTS
  Writers,      \* processes with a store of the directory
  Records,      \* pairs <<id, body>>
  Batches,      \* sequences of records given to append_batch
  Imports,      \* sequences of records given to create
  CreateOps,    \* operation ids of creations
  DefaultCreate,\* the operation id of a creation that recorded none
  DeleteOps,    \* operation ids of deletions
  RecentLimit,  \* bound of the recent records of a head
  Collisions,   \* ids the operation filter takes for known ones
  MaxRevision,  \* bound: expected revisions given
  MaxFaults,    \* bound: kills, failures and power losses
  Modes,        \* modes a store of the directory may have
  None, Garbage \* no value; what does not decode

ASSUME ModeAssumption == Modes \subseteq [rooted : BOOLEAN, deferred : BOOLEAN]
ASSUME CallAssumption ==
  /\ Batches \cup Imports \subseteq Seq(Records)
  /\ MaxRevision \in Nat
ASSUME NoneAssumption ==
  /\ None \notin Writers \cup {Garbage}
  /\ None \notin [rev : 0..MaxRevision, op : DeleteOps]
  /\ None \notin [lines : Seq(Records), torn : BOOLEAN, stamp : Nat]

VARIABLES
  mode,               \* that of every store, which never changes
  file, synced,       \* the journal, as it is seen and as a power loss leaves it
  tomb, tombSynced,   \* the tombstone, likewise
  side, sideSynced,   \* the metadata sidecar, likewise
  lock,               \* who holds the exclusive lock of the journal
  pc,                 \* per process: the operation it is in
  cache, queued,      \* per process: _head_cache and _queued_head_updates
  made,               \* stamps given so far
  acked, deleted,     \* receipts returned: of records, "write" or "journal" being
                      \* what the writer knew them from; of a deletion
  lost,               \* a power loss took the tombstone of a journal that was gone
  faults

disk == <<file, synced, tomb, tombSynced, side, sideSynced, made>>
memory == <<lock, pc, cache, queued>>
receipts == <<acked, deleted, lost>>
vars == <<mode, disk, memory, receipts, faults>>

Id(r) == r[1]
Idle == [at |-> "idle"]
Smaller(m, n) == IF m < n THEN m ELSE n
Elements(s) == {s[i] : i \in DOMAIN s}

(***************************************************************************)
(* The journal and the heads that summarise it.  A journal is its complete *)
(* lines, whether an unterminated line follows them, and a stamp for its   *)
(* inode and times, which no two writes of it share.  A head is the        *)
(* records it was made from and the identity of the journal it claims to   *)
(* describe.                                                               *)
(***************************************************************************)
Journal(lines, torn, stamp) == [lines |-> lines, torn |-> torn, stamp |-> stamp]
Identity(f) == [size |-> Len(f.lines), torn |-> f.torn, stamp |-> f.stamp]
HeadOf(f) == [records |-> f.lines, id |-> Identity(f)]
Advanced(h, s, f) == [records |-> h.records \o s, id |-> Identity(f)]

\* Bytes appended after a torn tail make one line with it.
Appended(f, s) ==
  [f EXCEPT !.lines = IF f.torn /\ s # <<>> THEN f.lines \o <<Garbage>> \o Tail(s)
                                            ELSE f.lines \o s,
            !.torn = f.torn /\ s = <<>>,
            !.stamp = made + 1]

\* load_jsonl with partial_tail="repair": the journal is replaced by its complete lines.
Repaired(f) == IF f.torn THEN Journal(f.lines, FALSE, made + 1) ELSE f
Decodes(f) == Garbage \notin Elements(f.lines)

MightContain(h, id) ==
  \/ \E r \in Elements(h.records) : Id(r) = id
  \/ h.records # <<>> /\ id \in Collisions

\* The record is among the recent ones of the head, at that position, and the only one with
\* its id.
RecentHit(h, r, p) ==
  /\ p \in DOMAIN h.records /\ p > Len(h.records) - RecentLimit
  /\ h.records[p] = r
  /\ \A q \in DOMAIN h.records \ {p} : Id(h.records[q]) # Id(r)

\* _head_for_append: the cached head, else the one of the sidecar, if it describes the journal.
HeadForAppend(w) ==
  IF cache[w] # None /\ cache[w].side = side /\ cache[w].head.id = Identity(file)
  THEN cache[w].head
  ELSE IF side # None /\ side.head # None /\ side.head.id = Identity(file)
       THEN side.head ELSE None

\* A sidecar that does not decode is taken for one that holds nothing.
Unreadable == [create |-> Garbage, head |-> None]
WithHead(h) ==
  [create |-> IF side \in {None, Unreadable} THEN None ELSE side.create, head |-> h]

\* _write_json_sidecar: only a rooted store syncs it. The one that is replaced may have
\* reached the disk by now.
PutsSide(m) ==
  /\ side' = m
  /\ IF mode.rooted THEN sideSynced' = m ELSE sideSynced' \in {sideSynced, side}

(***************************************************************************)
(* What an append does, given the records known: those of the head or,     *)
(* when the head cannot decide, those of the journal.                      *)
(***************************************************************************)
One(r, e) == [recs |-> <<r>>, at |-> e, single |-> TRUE]
Many(s, e) == [recs |-> s, at |-> e, single |-> FALSE]
Calls == {One(r, e) : r \in Records, e \in 0..MaxRevision}
           \cup {Many(s, e) : s \in Batches, e \in 0..MaxRevision}

Places(known, r) == {p \in DOMAIN known : Id(known[p]) = Id(r)}

\* The records of the call that the journal has already.
Overlap(c, known) ==
  IF c.single THEN Cardinality({p \in {1} : c.recs[1] \in Elements(known)})
              ELSE Smaller(Len(c.recs), Len(known) - c.at)
Rest(c, known) == SubSeq(c.recs, Overlap(c, known) + 1, Len(c.recs))
Position(c, known, i) ==
  IF c.single /\ Overlap(c, known) = 1
  THEN CHOOSE p \in Places(known, c.recs[1]) : \A q \in Places(known, c.recs[1]) : p <= q
  ELSE c.at + i
Receipts(c, known, by) ==
  {[rev |-> Position(c, known, i), rec |-> c.recs[i], by |-> by] : i \in DOMAIN c.recs}
Imported(s, by) == {[rev |-> i, rec |-> s[i], by |-> by] : i \in DOMAIN s}

\* _prepare_batch_from_head, and the use _append_sync makes of a head.
HeadDecides(h, c) ==
  IF c.single
  THEN \/ ~ MightContain(h, Id(c.recs[1]))
       \/ \E p \in DOMAIN h.records : RecentHit(h, c.recs[1], p)
  ELSE /\ Len(h.records) >= c.at
       /\ \A i \in DOMAIN c.recs :
            IF i <= Overlap(c, h.records) THEN RecentHit(h, c.recs[i], c.at + i)
                                          ELSE ~ MightContain(h, Id(c.recs[i]))

\* _reconcile_append: the first record with the id of the request is the request.
Reconciled(c, known) ==
  \E p \in Places(known, c.recs[1]) :
    known[p] = c.recs[1] /\ \A q \in Places(known, c.recs[1]) : p <= q

\* _prepare_batch_from_records: the loop stops at the first record the journal does not reach.
BatchAgrees(c, known) ==
  /\ Len(known) >= c.at
  /\ \A i \in 1..Smaller(Len(c.recs), Overlap(c, known) + 1) :
       /\ Places(known, c.recs[i]) \subseteq {c.at + i}
       /\ c.at + i \in DOMAIN known => known[c.at + i] = c.recs[i]

Accepts(c, known) ==
  IF c.single
  THEN \/ Reconciled(c, known)
       \/ Places(known, c.recs[1]) = {} /\ Len(known) = c.at
  ELSE BatchAgrees(c, known)

(***************************************************************************)
(* append and append_batch.                                                *)
(***************************************************************************)
Enters(w) == pc[w] = Idle /\ lock = None
Leaves(w) == pc' = [pc EXCEPT ![w] = Idle] /\ lock' = None

\* Either everything was there already, or what is missing is going to be written.
Answers(w, c, known, h) ==
  IF Rest(c, known) = <<>>
  THEN /\ acked' = acked \cup Receipts(c, known, "journal")
       /\ UNCHANGED <<lock, pc>>
  ELSE /\ lock' = w
       /\ pc' = [pc EXCEPT ![w] = [at |-> "writing", call |-> c, head |-> h,
                                   todo |-> Rest(c, known), told |-> Receipts(c, known, "write")]]
       /\ UNCHANGED acked

AppendByHead(w, c) ==
  /\ Enters(w) /\ file # None /\ HeadForAppend(w) # None
  /\ HeadDecides(HeadForAppend(w), c) /\ Accepts(c, HeadForAppend(w).records)
  /\ Answers(w, c, HeadForAppend(w).records, HeadForAppend(w))
  /\ UNCHANGED <<mode, disk, cache, queued, deleted, lost, faults>>

\* A false positive of the filter also marks the record it appends as not unique.
Replays(w, c) ==
  HeadForAppend(w) # None =>
    \/ ~ HeadDecides(HeadForAppend(w), c)
    \/ \E i \in DOMAIN c.recs : Id(c.recs[i]) \in Collisions

\* Mutant of Mends: the complete lines are read and the tail is left there.
MendsNothing == Decodes(file) /\ UNCHANGED <<file, synced, made>>

\* _load_unlocked under the lock: the repair is on disk whatever becomes of the call.
Mends ==
  /\ Decodes(file)
  /\ file' = Repaired(file)
  /\ synced' = IF file.torn THEN Repaired(file) ELSE synced
  /\ made' = IF file.torn THEN made + 1 ELSE made

AppendByReplay(w, c) ==
  /\ Enters(w) /\ file # None /\ Replays(w, c)
  /\ Mends
  /\ Accepts(c, file.lines)
  /\ Answers(w, c, file.lines, IF file.torn THEN None ELSE HeadOf(file))
  /\ IF Rest(c, file.lines) = <<>> /\ ~ file.torn
     THEN PutsSide(WithHead(HeadOf(file)))
     ELSE UNCHANGED <<side, sideSynced>>
  /\ UNCHANGED <<mode, tomb, tombSynced, cache, queued, deleted, lost, faults>>

\* The call is refused, or it was a deletion at another revision: only the repair remains.
Repairs(w) ==
  /\ Enters(w) /\ file # None /\ file.torn
  /\ Mends
  /\ UNCHANGED <<mode, tomb, tombSynced, side, sideSynced, memory, receipts, faults>>

\* The whole payload reaches the journal.
Writes(w) ==
  /\ pc[w].at = "writing"
  /\ file' = Appended(file, pc[w].todo) /\ made' = made + 1
  /\ pc' = [pc EXCEPT ![w].at = "syncing"]
  /\ UNCHANGED <<mode, synced, tomb, tombSynced, side, sideSynced, lock, cache, queued,
                 receipts, faults>>

\* Some of it does, and the write fails.
WritesPart(w) ==
  /\ pc[w].at = "writing" /\ faults < MaxFaults
  /\ \E k \in 0..(Len(pc[w].todo) - 1), torn \in BOOLEAN :
       file' = [Appended(file, SubSeq(pc[w].todo, 1, k)) EXCEPT !.torn = @ \/ torn]
  /\ made' = made + 1
  /\ Leaves(w)
  /\ faults' = faults + 1
  /\ UNCHANGED <<mode, synced, tomb, tombSynced, side, sideSynced, cache, queued, receipts>>

NewHead(w) == Advanced(pc[w].head, pc[w].todo, file)

\* The new head, with the identity the journal has now, goes to the cache and to the worker
\* or, in a store without one, to the sidecar.
Remembers(w) ==
  IF pc[w].head = None
  THEN UNCHANGED <<side, sideSynced, cache, queued>>
  ELSE /\ IF mode.deferred
          THEN queued' = [queued EXCEPT ![w] = NewHead(w)] /\ UNCHANGED <<side, sideSynced>>
          ELSE PutsSide(WithHead(NewHead(w))) /\ UNCHANGED queued
       /\ cache' = [cache EXCEPT ![w] = [head |-> NewHead(w), side |-> side']]

\* Mutant of Commits: the receipts are returned without fsync.
CommitsUnsynced(w) ==
  /\ pc[w].at = "syncing"
  /\ acked' = acked \cup pc[w].told
  /\ Remembers(w) /\ Leaves(w)
  /\ UNCHANGED <<mode, file, synced, tomb, tombSynced, made, deleted, lost, faults>>

\* fsync, the new head, the receipts.
Commits(w) ==
  /\ pc[w].at = "syncing"
  /\ synced' = file
  /\ acked' = acked \cup pc[w].told
  /\ Remembers(w) /\ Leaves(w)
  /\ UNCHANGED <<mode, file, tomb, tombSynced, made, deleted, lost, faults>>

\* The head is still the one of the journal, and nobody has the lock.
HeadIsCurrent(h) == lock = None /\ file # None /\ Identity(file) = h.id

\* Mutant of WriteHeadIfCurrent: the head gets the identity the journal has by then
\* (refresh_identity of _try_write_store_head), whoever wrote it since.
WriteHeadRefreshed(w) ==
  /\ queued[w] # None /\ lock # w
  /\ IF lock = None /\ file # None
     THEN /\ PutsSide(WithHead([queued[w] EXCEPT !.id = Identity(file)]))
          /\ cache' = [cache EXCEPT ![w] = [head |-> side'.head, side |-> side']]
     ELSE UNCHANGED <<side, sideSynced, cache>>
  /\ queued' = [queued EXCEPT ![w] = None]
  /\ UNCHANGED <<mode, file, synced, tomb, tombSynced, made, lock, pc, receipts, faults>>

\* The background worker publishes the newest head, unless the journal has changed or is locked.
WriteHeadIfCurrent(w) ==
  /\ queued[w] # None /\ lock # w
  /\ IF HeadIsCurrent(queued[w])
     THEN /\ PutsSide(WithHead(queued[w]))
          /\ cache' = [cache EXCEPT ![w] = [head |-> queued[w], side |-> side']]
     ELSE UNCHANGED <<side, sideSynced, cache>>
  /\ queued' = [queued EXCEPT ![w] = None]
  /\ UNCHANGED <<mode, file, synced, tomb, tombSynced, made, lock, pc, receipts, faults>>

(***************************************************************************)
(* create: the journal is published whole, then the sidecar.  A creation   *)
(* that finds the same records and its own operation id is answered again. *)
(***************************************************************************)
CreatesAgain(w, s, op) ==
  /\ Enters(w) /\ tomb = None /\ file # None
  /\ Mends
  /\ file.lines = s
  /\ op = (IF side = None \/ side.create = None THEN DefaultCreate ELSE side.create)
  /\ acked' = acked \cup Imported(s, "journal")
  /\ UNCHANGED <<mode, tomb, tombSynced, side, sideSynced, memory, deleted, lost, faults>>

\* Mutant of IsFree: a creation looks for the journal alone.
IsFreeOfJournal == file = None

\* The tombstone retires the identity, the journal occupies it.
IsFree == tomb = None /\ file = None

Creates(w, s, op) ==
  /\ Enters(w) /\ IsFree
  /\ file' = Journal(s, FALSE, made + 1) /\ made' = made + 1
  /\ lock' = w /\ pc' = [pc EXCEPT ![w] = [at |-> "creating", recs |-> s, op |-> op]]
  /\ UNCHANGED <<mode, synced, tomb, tombSynced, side, sideSynced, cache, queued, receipts, faults>>

CreateSettles(w) ==
  /\ pc[w].at = "creating"
  /\ synced' = file
  /\ PutsSide([create |-> pc[w].op, head |-> HeadOf(file)])
  /\ acked' = acked \cup Imported(pc[w].recs, "write")
  /\ Leaves(w)
  /\ UNCHANGED <<mode, file, tomb, tombSynced, made, cache, queued, deleted, lost, faults>>

(***************************************************************************)
(* delete: the tombstone is looked for before the lock is taken.  It is    *)
(* published before the journal is unlinked.  A deletion that finds its    *)
(* own tombstone goes on from there. Only a rooted store makes it durable. *)
(***************************************************************************)
Settled(t) == IF mode.rooted THEN t ELSE tombSynced

DeleteBegins(w, e, op) ==
  /\ pc[w] = Idle
  /\ IF tomb = None
     THEN /\ pc' = [pc EXCEPT ![w] = [at |-> "deleting", rev |-> e, op |-> op]]
          /\ UNCHANGED tombSynced
     ELSE /\ tomb = [rev |-> e, op |-> op]
          /\ pc' = [pc EXCEPT ![w] = [at |-> "resuming"]]
          /\ tombSynced' = Settled(tomb)
  /\ UNCHANGED <<mode, file, synced, tomb, side, sideSynced, made, lock, cache, queued,
                 receipts, faults>>

DeleteLocks(w) ==
  /\ pc[w].at = "deleting" /\ lock = None
  /\ file # None /\ Mends /\ Len(file.lines) = pc[w].rev
  /\ tomb' = [rev |-> pc[w].rev, op |-> pc[w].op]
  /\ lock' = w /\ pc' = [pc EXCEPT ![w] = [at |-> "unlinking"]]
  /\ UNCHANGED <<mode, tombSynced, side, sideSynced, cache, queued, receipts, faults>>

\* Not found, another revision, the lock is held, or the process lets it go.
DeleteRefused(w) ==
  /\ pc[w].at = "deleting"
  /\ file # None /\ lock = None => Len(file.lines) # pc[w].rev \/ ~ Decodes(file)
  /\ pc' = [pc EXCEPT ![w] = Idle]
  /\ UNCHANGED <<mode, disk, lock, cache, queued, receipts, faults>>

DeleteUnlinks(w) ==
  /\ pc[w].at = "unlinking"
  /\ tombSynced' = Settled(tomb)
  /\ file' = None
  /\ pc' = [pc EXCEPT ![w] = [at |-> "unlinked"]]
  /\ UNCHANGED <<mode, synced, tomb, side, sideSynced, made, lock, cache, queued, receipts, faults>>

DeleteSettles(w) ==
  /\ pc[w].at = "unlinked"
  /\ synced' = (IF mode.rooted THEN None ELSE synced) /\ deleted' = TRUE
  /\ Leaves(w)
  /\ UNCHANGED <<mode, file, tomb, tombSynced, side, sideSynced, made, cache, queued, acked, lost,
                 faults>>

\* The journal may be gone already; then nothing is left to sync.
DeleteResumes(w) ==
  /\ pc[w].at = "resuming"
  /\ IF file = None
     THEN deleted' = TRUE /\ pc' = [pc EXCEPT ![w] = Idle] /\ UNCHANGED <<file, lock>>
     ELSE /\ lock = None /\ lock' = w /\ file' = None
          /\ pc' = [pc EXCEPT ![w] = [at |-> "unlinked"]]
          /\ UNCHANGED deleted
  /\ UNCHANGED <<mode, synced, tomb, tombSynced, side, sideSynced, made, cache, queued, acked, lost,
                 faults>>

(***************************************************************************)
(* Faults.                                                                 *)
(***************************************************************************)
\* An operation of the file system fails: the outcome of the call is unknown.
Fails(w) ==
  /\ pc[w] # Idle /\ faults < MaxFaults
  /\ pc' = [pc EXCEPT ![w] = Idle]
  /\ lock' = IF lock = w THEN None ELSE lock
  /\ faults' = faults + 1
  /\ UNCHANGED <<mode, disk, cache, queued, receipts>>

\* The process is killed: its lock goes, what it wrote stays.
Killed(w) ==
  /\ faults < MaxFaults
  /\ pc' = [pc EXCEPT ![w] = Idle]
  /\ lock' = IF lock = w THEN None ELSE lock
  /\ cache' = [cache EXCEPT ![w] = None] /\ queued' = [queued EXCEPT ![w] = None]
  /\ faults' = faults + 1
  /\ UNCHANGED <<mode, disk, receipts>>

\* What a power loss may leave of a journal: at least the lines that were synced, unless the
\* journal is gone.
Survivors(f, s) ==
  {s} \cup IF f = None THEN {None}
          ELSE {Journal(SubSeq(f.lines, 1, k), torn, f.stamp) :
                  k \in (IF s = None THEN 0 ELSE Len(s.lines))..Len(f.lines), torn \in BOOLEAN}
               \ (IF f.torn THEN {} ELSE {Journal(f.lines, TRUE, f.stamp)})

\* Of a file that is replaced whole; without fsync the new name may have nothing behind it.
Leftovers(new, old, empty) ==
  {new, old} \cup IF mode.rooted \/ new = old THEN {} ELSE {empty}

PowerLoss ==
  /\ faults < MaxFaults
  /\ \E f \in Survivors(file, synced), t \in Leftovers(tomb, tombSynced, Garbage),
        m \in Leftovers(side, sideSynced, Unreadable) :
       /\ file' = f /\ synced' = f
       /\ tomb' = t /\ tombSynced' = t
       /\ side' = m /\ sideSynced' = m
       /\ lost' = (lost \/ (tomb # None /\ t = None /\ (deleted \/ file = None)))
  /\ lock' = None
  /\ pc' = [w \in Writers |-> Idle]
  /\ cache' = [w \in Writers |-> None] /\ queued' = [w \in Writers |-> None]
  /\ faults' = faults + 1
  /\ UNCHANGED <<mode, made, acked, deleted>>

Init ==
  /\ mode \in Modes
  /\ file = None /\ synced = None
  /\ tomb = None /\ tombSynced = None
  /\ side = None /\ sideSynced = None
  /\ lock = None
  /\ pc = [w \in Writers |-> Idle]
  /\ cache = [w \in Writers |-> None] /\ queued = [w \in Writers |-> None]
  /\ made = 0 /\ faults = 0
  /\ acked = {} /\ deleted = FALSE /\ lost = FALSE

Operates(w) ==
  \/ \E c \in Calls : AppendByHead(w, c) \/ AppendByReplay(w, c)
  \/ Repairs(w) \/ Writes(w) \/ WritesPart(w) \/ Commits(w) \/ WriteHeadIfCurrent(w)
  \/ \E s \in Imports, op \in CreateOps : CreatesAgain(w, s, op) \/ Creates(w, s, op)
  \/ CreateSettles(w)
  \/ \E e \in 0..MaxRevision, op \in DeleteOps : DeleteBegins(w, e, op)
  \/ DeleteLocks(w) \/ DeleteRefused(w) \/ DeleteUnlinks(w) \/ DeleteSettles(w)
  \/ DeleteResumes(w)

Next == PowerLoss \/ \E w \in Writers : Operates(w) \/ Fails(w) \/ Killed(w)

Spec == Init /\ [][Next]_vars

(***************************************************************************)
(* Properties.                                                             *)
(***************************************************************************)
Holds(f, a) == f # None /\ a.rev \in DOMAIN f.lines /\ f.lines[a.rev] = a.rec

\* The tombstone that is there to stay: for a rooted store whatever happens, by pathname
\* until a power loss takes it.
Grave == IF mode.rooted THEN tombSynced ELSE tomb
Forgotten == ~mode.rooted /\ lost

\* What a receipt says stays true (CommitReceipt, store.py; fsync under the lock): the record
\* of an append that synced is at its revision, in the journal and in what a power loss would
\* leave of it, through retries, repairs, kills and other writers, until the journal goes.
\* It goes only behind a tombstone, which a rooted store has synced by then; a store by
\* pathname has not, and a power loss that takes both frees the conversation.
ReceiptsHold ==
  \/ Forgotten
  \/ \A a \in {b \in acked : b.by = "write"} : \A f \in {file, synced} :
       Holds(f, a) \/ (f = None /\ Grave # None)

\* A head that is accepted for the journal (_journal_identity) describes it: advisory heads
\* of several writers, cached, queued or in the sidecar, never hide a record or make one up.
HeadIsJournal ==
  file # None =>
    \A h \in {cache[w].head : w \in {v \in Writers : cache[v] # None}}
               \cup {queued[w] : w \in Writers}
               \cup {m.head : m \in {side, sideSynced} \ {None}} :
      h # None /\ h.id = Identity(file) => h.records = file.lines

\* When an append writes (_append_sync after its checks), the journal has no torn tail, is at
\* the expected revision and has no record with the id, although the decision may rest on a
\* head that another process wrote, and a former attempt may have reached the disk.
AppendsAreNew ==
  \A w \in Writers :
    pc[w].at = "writing" =>
      /\ file # None /\ ~ file.torn
      /\ Len(file.lines) + Len(pc[w].todo) = pc[w].call.at + Len(pc[w].call.recs)
      /\ Places(file.lines, pc[w].todo[1]) = {}

\* A conversation whose deletion was acknowledged is retired (_create_sync reads the tombstone
\* under the lock) and nothing is created: for good by a rooted store, whose tombstone survives
\* a power loss; by pathname until a power loss takes a tombstone that was not synced.
DeletedIsRetired ==
  deleted => Forgotten \/ (Grave # None /\ \A w \in Writers : pc[w].at # "creating")

\* No operation id is committed twice, whatever is retried.
OnceOnly ==
  file # None =>
    \A p, q \in DOMAIN file.lines : Id(file.lines[p]) = Id(file.lines[q]) => p = q

=============================================================================
