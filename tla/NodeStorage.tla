----------------------------- MODULE NodeStorage -----------------------------
(* The durable storage of one node: a single write-ahead log shared by the
   local database and by every Raft replica the node hosts, the snapshot files
   beside it, checkpoints, retention, and the recovery that reads it all back
   (crates/ragnordb-multiraft/src/storage, crates/ragnordb-storage/src/wal.rs,
   checkpoint.rs and recovery.rs, crates/ragnordb-server/src/database.rs).

   The log itself, A-WAL, is outside the repository: an append of a batch is
   made durable whole, or is refused before anything is staged, or ends with an
   unknown outcome that leaves any prefix of the batch; it removes whole
   segments only.  The Raft core is outside too: it hands out any Ready that a
   correct core may produce.  Payloads, keys and rows are left out; an entry is
   its index and its term, a local transaction is its identity and timestamp.
   An LSN is the position of a record in the whole history of the log. *)
EXTENDS Integers, Sequences, SequencesExt, FiniteSets, FiniteSetsExt

CONSTANTS
    Groups,          \* the replicas the node may host
    SegmentRecords,  \* records per log segment
    Scenarios        \* records [groups, database, checkpoints, snapshots, retire,
                     \*   records, indexes, terms, crashes]: the replicas hosted; whether SQL
                     \*   writes locally, checkpoints and Raft snapshots are taken, replicas
                     \*   are retired;
                     \*   bounds on log records, log indexes, terms and crashes

ASSUME SegmentsAssumption == SegmentRecords \in Nat \ {0}

VARIABLES
    wal,       \* every record ever made durable, in order
    first,     \* LSN of the first record still on disk
    pruned,    \* the last floor handed to the log
    fenced,    \* the durability gate: an outcome is unknown until a restart
    replica,   \* group -> the durable view its persistence owner holds
    runtime,   \* group -> "Active", "Quarantined" or "Tombstoned"
    pending,   \* group -> the prepared batch of records awaiting the log, or <<>>
    applied,   \* group -> index its state machine has applied
    floors,    \* group -> published retention floor, 0 for none
    images,    \* group -> indexes whose tablet snapshot file exists
    database,  \* the local database: [table, commits, txn, ts, snapshot]
    db_floor,  \* retention floor of the database
    files,     \* snapshot id -> the database image of the file
    checkpoint,\* the publication in progress: [stage, id, image]
    host,      \* "up", or "refused" when recovery failed
    scenario,
    crashes

vars == <<wal, first, pruned, fenced, replica, runtime, pending, applied, floors, images,
          database, db_floor, files, checkpoint, host, scenario, crashes>>

raftVars == <<replica, runtime, pending, applied, floors, images>>
databaseVars == <<database, db_floor, files, checkpoint>>

-----------------------------------------------------------------------------
(* The logical log of one replica, rebuilt by the live writer and by recovery
   with the same rules.  ok is FALSE once a record has been refused. *)

EmptyView == [entries |-> <<>>, snapshot |-> [index |-> 0, term |-> 0], commit |-> 0,
              hard |-> [term |-> 0, voted |-> FALSE, commit |-> 0],
              hard_lsn |-> 0, snapshot_lsn |-> 0, ok |-> TRUE]

Refused(v) == [v EXCEPT !.ok = FALSE]

LastIndex(v) == v.snapshot.index + Len(v.entries)

TermAt(v, i) == IF i = v.snapshot.index THEN v.snapshot.term
                ELSE v.entries[i - v.snapshot.index].term

Retains(v, i) == i > v.snapshot.index /\ i <= LastIndex(v)

(* One log entry: the same entry again moves to its new position, another term
   replaces the suffix unless that is committed, a new one must be contiguous. *)
Replay(v, e) ==
    LET keep == SubSeq(v.entries, 1, e.index - v.snapshot.index - 1)
        moved == [term |-> e.term, lsn |-> e.lsn]
    IN  IF e.index <= v.snapshot.index \/ e.index > LastIndex(v) + 1 THEN Refused(v)
        ELSE IF Retains(v, e.index) /\ TermAt(v, e.index) = e.term
        THEN [v EXCEPT !.entries[e.index - v.snapshot.index] = moved]
        ELSE IF e.index <= v.commit \/ e.term < TermAt(v, e.index - 1) THEN Refused(v)
        ELSE [v EXCEPT !.entries = Append(keep, moved)]

(* A snapshot boundary replaces the log up to its index. *)
InstallSnapshot(v, p) ==
    IF \/ p.index < v.snapshot.index
       \/ p.index = v.snapshot.index /\ p.term # v.snapshot.term
       \/ p.term < v.snapshot.term
       \/ Retains(v, p.index) /\ TermAt(v, p.index) # p.term
    THEN Refused(v)
    ELSE [v EXCEPT !.entries = SubSeq(@, p.index - v.snapshot.index + 1, Len(@)),
                   !.snapshot = [index |-> p.index, term |-> p.term],
                   !.commit = Max({@, p.index})]

(* The stable state never goes back in term or commit, and a vote is neither
   changed nor cleared within its term. *)
HardStateSuccessor(old, new) ==
    /\ new.term > 0
    /\ new.term >= old.term
    /\ new.commit >= old.commit
    /\ new.term = old.term /\ old.voted => new.voted

(* A boundary beyond the known term replaces the stable state. *)
MergeSnapshot(hard, p) ==
    IF hard.term >= p.term THEN [hard EXCEPT !.commit = Max({@, p.index})]
    ELSE [term |-> p.term, voted |-> FALSE, commit |-> p.index]

ObserveHardState(v, r) ==
    IF HardStateSuccessor(v.hard, r.hard) /\ r.hard.commit <= LastIndex(v)
    THEN [v EXCEPT !.commit = r.hard.commit, !.hard = r.hard, !.hard_lsn = r.lsn]
    ELSE Refused(v)

ObservePointer(v, r) ==
    LET installed == InstallSnapshot(v, r)
    IN  [installed EXCEPT !.hard = MergeSnapshot(@, r), !.snapshot_lsn = r.lsn]

ObserveRecord(v, r) ==
    CASE ~ v.ok             -> v
      [] r.kind = "entry"   -> Replay(v, r)
      [] r.kind = "hard"    -> ObserveHardState(v, r)
      [] r.kind = "pointer" -> ObservePointer(v, r)

(* The oldest record needed to rebuild the replica. *)
MinimumRecoveryLsn(v) ==
    LET lsns == {v.snapshot_lsn, v.hard_lsn} \cup
                {v.entries[i].lsn : i \in 1 .. Min({1, Len(v.entries)})}
    IN  IF lsns = {0} THEN 0 ELSE Min(lsns \ {0})

-----------------------------------------------------------------------------
(* Recovery: one scan of the retained records. *)

Retained == SubSeq(wal, first, Len(wal))

(* A crash can keep an entry of a later term and lose the stable state behind
   it: the term is raised and the vote of the older term dropped. *)
NormalizeNothing(v) == v
NormalizeHardStateTerm(v) ==
    LET highest == Max({v.snapshot.term} \cup {v.entries[i].term : i \in 1 .. Len(v.entries)})
    IN  IF v.hard.term >= highest THEN v
        ELSE [v EXCEPT !.hard = [term |-> highest, voted |-> FALSE, commit |-> v.commit]]

RecoverReplica(g) ==
    NormalizeHardStateTerm(FoldLeft(ObserveRecord, EmptyView,
                                    SelectSeq(Retained, LAMBDA r : r.group = g)))

EmptyDatabase == [table |-> FALSE, commits |-> {}, txn |-> 0, ts |-> 0, snapshot |-> 0, ok |-> TRUE]

(* The newest checkpoint whose pointer is followed by its marker.  A marker
   without its pointer is corruption. *)
ObserveCheckpoint(s, r) ==
    CASE ~ s.ok                -> s
      [] r.kind = "snapshot"   ->
           IF r.id \in DOMAIN s.waiting /\ s.waiting[r.id] # r.from
           THEN [s EXCEPT !.ok = FALSE]
           ELSE [s EXCEPT !.waiting = [i \in DOMAIN @ \cup {r.id} |->
                                         IF i = r.id THEN r.from ELSE @[i]]]
      [] r.kind = "marker"     ->
           IF r.id \notin DOMAIN s.waiting \/ s.waiting[r.id] # r.from
           THEN [s EXCEPT !.ok = FALSE]
           ELSE [s EXCEPT !.waiting = [i \in DOMAIN @ \ {r.id} |-> @[i]],
                          !.selected = [id |-> r.id, from |-> r.from]]
      [] OTHER                 -> s

SelectRecoveryCheckpoint ==
    FoldLeft(ObserveCheckpoint,
             [waiting |-> [i \in {} |-> 0], selected |-> [id |-> 0, from |-> 1], ok |-> TRUE],
             Retained)

(* One database record.  Every record raises the allocator floors, an orphan
   snapshot pointer included. *)
ObserveSnapshotIds(d, r) == [d EXCEPT !.snapshot = Max({@, r.id}), !.ts = Max({@, r.ts})]
ObserveSnapshotMetadata(d, r) == ObserveSnapshotIds(d, r)

(* Rows are checked against the table the log created before them. *)
CommitMatchesSchema(d, r) == d.table /\ r.txn > 0 /\ r.ts > 0

ApplyDatabaseRecord(d, r) ==
    CASE ~ d.ok                           -> d
      [] r.kind = "catalog"               -> [d EXCEPT !.table = TRUE, !.ts = Max({@, r.ts})]
      [] r.kind = "commit"                ->
           IF CommitMatchesSchema(d, r) /\ \A c \in d.commits : c.txn # r.txn /\ c.ts # r.ts
           THEN [d EXCEPT !.commits = @ \cup {[txn |-> r.txn, ts |-> r.ts]},
                          !.txn = Max({@, r.txn}), !.ts = Max({@, r.ts})]
           ELSE [d EXCEPT !.ok = FALSE]
      [] r.kind \in {"snapshot", "marker"} -> ObserveSnapshotMetadata(d, r)
      [] OTHER                            -> d

(* An image carries allocator marks beyond everything in it: a file that does
   not is neither written nor loaded. *)
ValidateSnapshot(id, d) ==
    /\ id > 0 /\ d.ts > 0 /\ d.snapshot >= id
    /\ \A c \in d.commits : c.txn <= d.txn /\ c.ts <= d.ts

LoadSnapshotFile(id) == id \in DOMAIN files /\ ValidateSnapshot(id, files[id].image)

FromSnapshot(id) == files[id].image

(* Without a checkpoint the log must still reach back to its first record. *)
LoadRecoveryCheckpoint(chosen) ==
    CASE ~ chosen.ok          -> [EmptyDatabase EXCEPT !.ok = FALSE]
      [] chosen.selected.id = 0 -> [EmptyDatabase EXCEPT !.ok = (first = 1)]
      [] OTHER                ->
           IF LoadSnapshotFile(chosen.selected.id) THEN FromSnapshot(chosen.selected.id)
           ELSE [EmptyDatabase EXCEPT !.ok = FALSE]

(* The database: the selected image, then the records from its boundary on. *)
RecoverDatabase ==
    LET chosen == SelectRecoveryCheckpoint
    IN  FoldLeft(ApplyDatabaseRecord, LoadRecoveryCheckpoint(chosen),
                 SelectSeq(Retained, LAMBDA r : r.lsn >= chosen.selected.from))

(* A tombstoned replica is not rebuilt. *)
Hosted == {g \in scenario.groups : runtime[g] # "Tombstoned"}

RecoveryAccepts ==
    /\ RecoverDatabase.ok
    /\ \A g \in Hosted :
          LET v == RecoverReplica(g)
          IN  v.ok /\ (v.snapshot.index # 0 => v.snapshot.index \in images[g])

-----------------------------------------------------------------------------
(* The write-ahead log (external) and the fence in front of it. *)

Stamp(records) == [i \in 1 .. Len(records) |->
                      [f \in DOMAIN records[i] \cup {"lsn"} |->
                          IF f = "lsn" THEN Len(wal) + i ELSE records[i][f]]]

(* An append is tried only behind an open gate.  kept is what is durable. *)
Append_(records, kept) ==
    /\ host = "up" /\ ~ fenced
    /\ Len(wal) + Len(records) <= scenario.records
    /\ kept \in 0 .. Len(records)
    /\ wal' = wal \o SubSeq(Stamp(records), 1, kept)

Durable(records) == Append_(records, Len(records)) /\ UNCHANGED fenced

(* The outcome is unknown: any prefix may have reached the disk, and the gate
   closes for every user of the log. *)
OutcomeUnknown(records) ==
    /\ crashes < scenario.crashes
    /\ \E kept \in 0 .. Len(records) : Append_(records, kept)
    /\ fenced' = TRUE

(* The retention pin a checkpoint publication holds keeps every segment. *)
Pinned == checkpoint.stage \in {"captured", "file", "pointer"}

SegmentStart(lsn) == ((lsn - 1) \div SegmentRecords) * SegmentRecords + 1

(* Whole segments below the slowest floor are removed; a replica that has never
   published a floor keeps everything. *)
PruneToSlowestFloor(fs, dbf) ==
    LET all == {fs[g] : g \in {x \in scenario.groups : runtime'[x] # "Tombstoned"}} \cup {dbf}
        floor == Min(all)
    IN  IF floor <= pruned THEN UNCHANGED <<first, pruned>>
        ELSE /\ pruned' = floor
             /\ first' = IF Pinned' THEN first ELSE Max({first, SegmentStart(floor)})

-----------------------------------------------------------------------------
(* The ready loop of one replica. *)

Active(g) == host = "up" /\ ~ fenced /\ g \in scenario.groups /\ runtime[g] = "Active"

EntryRecords(g, from, terms) ==
    [i \in 1 .. Len(terms) |->
        [kind |-> "entry", group |-> g, index |-> from + i - 1, term |-> terms[i]]]

HardRecord(g, h) == [kind |-> "hard", group |-> g, hard |-> h]

PointerRecord(g, index, term) ==
    [kind |-> "pointer", group |-> g, index |-> index, term |-> term]

(* The stable state is written last: a torn batch never commits what it lost. *)
BatchOrder(front, hard) == front \o hard
HardStateFirst(front, hard) == hard \o front
BatchRecords(front, hard) == BatchOrder(front, hard)

(* The validation a batch passes before it may reach the log. *)
PrepareBatch(v, front, hard) ==
    LET zeroed == [i \in 1 .. Len(front) |->
                     [f \in DOMAIN front[i] \cup {"lsn"} |-> IF f = "lsn" THEN 0 ELSE front[i][f]]]
        preview == FoldLeft(ObserveRecord, v, zeroed)
        pointers == SelectSeq(front, LAMBDA r : r.kind = "pointer")
        terms == {preview.snapshot.term} \cup
                 {preview.entries[i].term : i \in 1 .. Len(preview.entries)}
        effective == IF hard # <<>> THEN hard[1].hard.term
                     ELSE Max({v.hard.term, preview.snapshot.term})
    IN  /\ pointers # <<>> => hard # <<>>
        /\ preview.ok
        /\ hard # <<>> =>
              /\ HardStateSuccessor(v.hard, hard[1].hard)
              /\ pointers # <<>> =>
                    /\ hard[1].hard.term >= pointers[1].term
                    /\ hard[1].hard.commit >= pointers[1].index
              /\ hard[1].hard.commit <= LastIndex(preview)
        /\ effective >= Max(terms)

(* A batch is prepared once and kept until the log has answered; one the
   validation refuses quarantines the group. *)
Prepare(g, front, hard) ==
    IF PrepareBatch(replica[g], front, hard)
    THEN /\ pending' = [pending EXCEPT ![g] = BatchRecords(front, hard)]
         /\ UNCHANGED runtime
    ELSE /\ runtime' = [runtime EXCEPT ![g] = "Quarantined"]
         /\ UNCHANGED pending

(* What the Raft core may hand out next (external): entries that extend the log
   or replace an uncommitted suffix, a vote, a new term, a later commit. *)
CoreHardStates(v, last) ==
    {h \in [term : v.hard.term .. scenario.terms, voted : BOOLEAN, commit : {v.hard.commit, last}] :
        HardStateSuccessor(v.hard, h)}

CoreEntries(v, h) ==
    {<<from, terms>> \in (v.commit + 1 .. LastIndex(v) + 1) \X
                         {<<>>, <<h.term>>, <<h.term, h.term>>} :
        /\ from + Len(terms) - 1 <= scenario.indexes
        /\ terms = <<>> => from = LastIndex(v) + 1
        /\ terms # <<>> /\ from <= LastIndex(v) => TermAt(v, from) # h.term}

Ready(g) ==
    /\ Active(g) /\ pending[g] = <<>>
    /\ LET v == replica[g] IN
       \E last \in v.commit .. scenario.indexes : \E h \in CoreHardStates(v, last) :
       \E e \in CoreEntries(v, h) :
          /\ h # v.hard \/ e[2] # <<>>
          /\ last \in {v.commit, e[1] + Len(e[2]) - 1}
          /\ Prepare(g, EntryRecords(g, e[1], e[2]),
                     IF h = v.hard THEN <<>> ELSE <<HardRecord(g, h)>>)
    /\ UNCHANGED <<wal, first, pruned, fenced, replica, applied, floors, images, host, scenario, crashes>>
    /\ UNCHANGED databaseVars

(* The boundary of a snapshot: its file is on disk before the pointer is
   prepared, and the stable state is sampled with it. *)
SnapshotBoundary(g, index, term, hard) ==
    /\ images' = [images EXCEPT ![g] = @ \cup {index}]
    /\ Prepare(g, <<PointerRecord(g, index, term)>>,
               <<HardRecord(g, [hard EXCEPT !.commit = Max({@, index})])>>)
    /\ UNCHANGED <<wal, first, pruned, fenced, replica, applied, floors, host, scenario, crashes>>
    /\ UNCHANGED databaseVars

(* A leader's snapshot beyond the local commit. *)
IncomingSnapshot(g) ==
    /\ Active(g) /\ pending[g] = <<>> /\ scenario.snapshots
    /\ \E index \in replica[g].commit + 1 .. scenario.indexes : \E term \in 1 .. scenario.terms :
          /\ term >= TermAt(replica[g], replica[g].commit)
          /\ SnapshotBoundary(g, index, term,
                IF replica[g].hard.term >= term THEN replica[g].hard
                ELSE [replica[g].hard EXCEPT !.term = term, !.voted = FALSE])

(* A local snapshot at the applied frontier. *)
LocalSnapshot(g) ==
    /\ Active(g) /\ pending[g] = <<>> /\ scenario.snapshots
    /\ applied[g] > replica[g].snapshot.index
    /\ SnapshotBoundary(g, applied[g], TermAt(replica[g], applied[g]), replica[g].hard)

(* A durable boundary lifts the applied frontier over what it covers. *)
RestorePersistedSnapshot(frontier, v) == Max({frontier, v.snapshot.index})

(* The log has the batch: the view follows it, with the real positions. *)
CommitPrepared(g) ==
    LET v == FoldLeft(ObserveRecord, replica[g], Stamp(pending[g]))
    IN  /\ replica' = [replica EXCEPT ![g] = v]
        /\ applied' = [applied EXCEPT ![g] = RestorePersistedSnapshot(@, v)]

Persist(g) ==
    /\ Active(g) /\ pending[g] # <<>>
    /\ Durable(pending[g])
    /\ CommitPrepared(g)
    /\ pending' = [pending EXCEPT ![g] = <<>>]
    /\ UNCHANGED <<first, pruned, runtime, floors, images, host, scenario, crashes>>
    /\ UNCHANGED databaseVars

PersistUnknown(g) ==
    /\ Active(g) /\ pending[g] # <<>>
    /\ OutcomeUnknown(pending[g])
    /\ UNCHANGED <<first, pruned, raftVars, databaseVars, host, scenario, crashes>>

(* Committed entries are applied in order. *)
Apply(g) ==
    /\ Active(g) /\ applied[g] < replica[g].commit
    /\ applied' = [applied EXCEPT ![g] = @ + 1]
    /\ UNCHANGED <<wal, first, pruned, fenced, replica, runtime, pending, floors, images, host,
                   scenario, crashes>>
    /\ UNCHANGED databaseVars

(* After a boundary: publish the retention floor, then remove older files. *)
PruneOlderImages(g) == {i \in images[g] : i >= replica[g].snapshot.index}
RemainingImages(g) == PruneOlderImages(g)

ReleaseRetention(g) ==
    /\ Active(g) /\ replica[g].snapshot.index # 0
    /\ RemainingImages(g) # images[g] \/ floors[g] < MinimumRecoveryLsn(replica[g])
    /\ images' = [images EXCEPT ![g] = RemainingImages(g)]
    /\ floors' = [floors EXCEPT ![g] = MinimumRecoveryLsn(replica[g])]
    /\ UNCHANGED <<wal, fenced, replica, runtime, pending, applied, host, scenario, crashes>>
    /\ UNCHANGED databaseVars
    /\ PruneToSlowestFloor(floors', db_floor)

(* A replica whose tombstone is durable: its floor no longer holds the log and
   its files are removed. *)
CleanupRetiredReplica(g) ==
    /\ Active(g) /\ scenario.retire
    /\ runtime' = [runtime EXCEPT ![g] = "Tombstoned"]
    /\ pending' = [pending EXCEPT ![g] = <<>>]
    /\ images' = [images EXCEPT ![g] = {}]
    /\ replica' = [replica EXCEPT ![g] = EmptyView]
    /\ applied' = [applied EXCEPT ![g] = 0]
    /\ floors' = [floors EXCEPT ![g] = 0]
    /\ UNCHANGED <<wal, fenced, host, scenario, crashes>>
    /\ UNCHANGED databaseVars
    /\ PruneToSlowestFloor(floors, db_floor)

-----------------------------------------------------------------------------
(* The local database and its checkpoints. *)

DatabaseUp == host = "up" /\ ~ fenced

CatalogRecord(ts) == [kind |-> "catalog", group |-> "database", ts |-> ts]

CommitRecord(txn, ts) == [kind |-> "commit", group |-> "database", txn |-> txn, ts |-> ts]

SnapshotPointer(c) == [kind |-> "snapshot", group |-> "database", id |-> c.id,
                       ts |-> c.image.ts, from |-> c.from]

CheckpointMarker(c) == [kind |-> "marker", group |-> "database", id |-> c.id,
                        ts |-> c.image.ts, from |-> c.from]

NextWrite == IF database.table THEN CommitRecord(database.txn + 1, database.ts + 1)
             ELSE CatalogRecord(database.ts + 1)

(* A local CREATE TABLE or COMMIT: durable first, then visible. *)
Write ==
    /\ DatabaseUp /\ scenario.database
    /\ LET r == Stamp(<<NextWrite>>)[1] IN
          /\ Durable(<<NextWrite>>)
          /\ database' = ApplyDatabaseRecord(database, r)
    /\ UNCHANGED <<first, pruned, raftVars, db_floor, files, checkpoint, host, scenario, crashes>>

WriteUnknown ==
    /\ DatabaseUp /\ scenario.database
    /\ OutcomeUnknown(<<NextWrite>>)
    /\ UNCHANGED <<first, pruned, raftVars, databaseVars, host, scenario, crashes>>

NoCheckpoint == [stage |-> "none", id |-> 0, from |-> 0, image |-> EmptyDatabase]

(* One cut under the database lock: identity, image and replay boundary. *)
CaptureCheckpointImage ==
    /\ DatabaseUp /\ scenario.checkpoints
    /\ checkpoint.stage = "none"
    /\ LET id == database.snapshot + 1
           image == [database EXCEPT !.ts = @ + 1, !.snapshot = id]
       IN  /\ checkpoint' = [stage |-> "captured", id |-> id, from |-> Len(wal) + 1, image |-> image]
           /\ database' = image
    /\ UNCHANGED <<wal, first, pruned, fenced, raftVars, db_floor, files, host, scenario, crashes>>

(* The image is written, synchronized and renamed with no lock held. *)
WithFile(c) == [c EXCEPT !.stage = "file"]
WithLateBoundary(c) == [c EXCEPT !.stage = "file", !.from = Len(wal) + 1]
FilePublished(c) == WithFile(c)

PublishSnapshotFile ==
    /\ DatabaseUp /\ checkpoint.stage = "captured"
    /\ ValidateSnapshot(checkpoint.id, checkpoint.image)
    /\ checkpoint' = FilePublished(checkpoint)
    /\ files' = [i \in DOMAIN files \cup {checkpoint.id} |->
                    IF i = checkpoint.id THEN [image |-> checkpoint.image] ELSE files[i]]
    /\ UNCHANGED <<wal, first, pruned, fenced, raftVars, database, db_floor, host, scenario, crashes>>

(* The pointer, then the marker that makes the file a recovery source. *)
AppendCheckpointRecord(stage, record, next) ==
    /\ DatabaseUp /\ checkpoint.stage = stage
    /\ Durable(<<record>>)
    /\ checkpoint' = [checkpoint EXCEPT !.stage = next]
    /\ UNCHANGED <<first, pruned, raftVars, database, db_floor, files, host, scenario, crashes>>

AppendPointer == AppendCheckpointRecord("file", SnapshotPointer(checkpoint), "pointer")
AppendMarker  == AppendCheckpointRecord("pointer", CheckpointMarker(checkpoint), "published")

CheckpointUnknown ==
    /\ DatabaseUp /\ checkpoint.stage \in {"file", "pointer"}
    /\ OutcomeUnknown(<<IF checkpoint.stage = "file" THEN SnapshotPointer(checkpoint)
                        ELSE CheckpointMarker(checkpoint)>>)
    /\ UNCHANGED <<first, pruned, raftVars, databaseVars, host, scenario, crashes>>

(* Only a published checkpoint moves the database floor. *)
AdvanceDatabaseRetention ==
    /\ DatabaseUp /\ checkpoint.stage = "published"
    /\ db_floor' = checkpoint.from
    /\ checkpoint' = NoCheckpoint
    /\ UNCHANGED <<wal, fenced, raftVars, database, files, host, scenario, crashes>>
    /\ PruneToSlowestFloor(floors, db_floor')

-----------------------------------------------------------------------------
(* Files of unfinished publications go once a recovery has succeeded. *)
CleanupOrphanSnapshotFiles(id) == [i \in DOMAIN files \cap {id} |-> files[i]]

(* The process stops at any point.  The next one reads the log, keeps the one
   snapshot file it selected, and starts with no published floors. *)
Restart ==
    /\ crashes < scenario.crashes /\ host = "up"
    /\ crashes' = crashes + 1
    /\ fenced' = FALSE
    /\ host' = IF RecoveryAccepts THEN "up" ELSE "refused"
    /\ replica' = [g \in Groups |-> RecoverReplica(g)]
    /\ runtime' = [g \in Groups |-> IF runtime[g] = "Tombstoned" THEN runtime[g] ELSE "Active"]
    /\ pending' = [g \in Groups |-> <<>>]
    /\ applied' = [g \in Groups |-> RecoverReplica(g).snapshot.index]
    /\ floors' = [g \in Groups |-> 0]
    /\ database' = RecoverDatabase
    /\ LET chosen == SelectRecoveryCheckpoint.selected
       IN  /\ db_floor' = IF chosen.id = 0 THEN 0 ELSE chosen.from
           /\ files' = CleanupOrphanSnapshotFiles(chosen.id)
    /\ checkpoint' = NoCheckpoint /\ pruned' = 0
    /\ UNCHANGED <<wal, first, images, scenario>>

Init ==
    /\ scenario \in Scenarios
    /\ wal = <<>> /\ first = 1 /\ pruned = 0 /\ fenced = FALSE
    /\ replica = [g \in Groups |-> EmptyView]
    /\ runtime = [g \in Groups |-> "Active"]
    /\ pending = [g \in Groups |-> <<>>]
    /\ applied = [g \in Groups |-> 0]
    /\ floors = [g \in Groups |-> 0]
    /\ images = [g \in Groups |-> {}]
    /\ database = EmptyDatabase /\ db_floor = 0
    /\ files = [i \in {} |-> [image |-> EmptyDatabase]]
    /\ checkpoint = NoCheckpoint
    /\ host = "up" /\ crashes = 0

Next ==
    \/ \E g \in Groups : Ready(g)
    \/ \E g \in Groups : IncomingSnapshot(g)
    \/ \E g \in Groups : LocalSnapshot(g)
    \/ \E g \in Groups : Persist(g)
    \/ \E g \in Groups : PersistUnknown(g)
    \/ \E g \in Groups : Apply(g)
    \/ \E g \in Groups : ReleaseRetention(g)
    \/ \E g \in Groups : CleanupRetiredReplica(g)
    \/ Write \/ WriteUnknown
    \/ CaptureCheckpointImage \/ PublishSnapshotFile
    \/ AppendPointer \/ AppendMarker \/ CheckpointUnknown
    \/ AdvanceDatabaseRetention
    \/ Restart

Spec == Init /\ [][Next]_vars

-----------------------------------------------------------------------------
(* Properties. *)

(* Whatever point the process stops at, a replica whose records recovery
   accepts comes back with what its writer had acknowledged: exactly the same
   view while no outcome is unknown, and otherwise at least its term, its vote
   in that term and its committed entries, with no entry from a later term than
   the one it restarts in. *)
AcknowledgedRaftStateSurvives ==
    \A g \in Hosted :
       LET live == replica[g]
           r == RecoverReplica(g)
       IN  host = "up" /\ RecoveryAccepts =>
             /\ ~ fenced => r = live
             /\ r.hard.term >= live.hard.term
             /\ r.hard.term = live.hard.term /\ live.hard.voted => r.hard.voted
             /\ r.commit >= live.commit
             /\ \A i \in r.snapshot.index + 1 .. live.commit :
                   i > live.snapshot.index => TermAt(r, i) = TermAt(live, i)
             /\ \A i \in 1 .. Len(r.entries) : r.entries[i].term <= r.hard.term

(* The database a restart rebuilds from the selected image and the records
   behind its boundary has every commit that was reported, and no other except
   one whose outcome was reported unknown; its allocators are beyond every
   transaction identity, timestamp and snapshot file name in the log. *)
ReportedCommitsSurvive ==
    host = "up" /\ RecoveryAccepts =>
       LET r == RecoverDatabase IN
          /\ database.commits \subseteq r.commits
          /\ ~ fenced => r.commits = database.commits /\ r.table = database.table
          /\ \A i \in 1 .. Len(wal) :
               /\ wal[i].kind = "commit" => wal[i].txn <= r.txn /\ wal[i].ts <= r.ts
               /\ wal[i].kind = "catalog" => wal[i].ts <= r.ts
               /\ wal[i].kind \in {"snapshot", "marker"} => wal[i].id <= r.snapshot

(* While no segment has been removed, recovery accepts every log the live
   writers can leave, torn batches included. *)
RestartAcceptsWhatWasWritten == first = 1 => RecoveryAccepts

(* The floor a replica publishes is the oldest record required to reconstruct
   it: after the segments below every floor are gone, its records still replay. *)
PrunedReplicaRecovers == \A g \in Hosted : RecoverReplica(g).ok
=============================================================================
