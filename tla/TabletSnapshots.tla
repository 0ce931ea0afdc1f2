-------------------------- MODULE TabletSnapshots --------------------------
(***************************************************************************)
(* Snapshots of one replicated tablet: a leader generates an image of its  *)
(* state machine, publishes it as a file and makes its boundary durable;   *)
(* a follower behind the leader's retained log is sent the metadata by     *)
(* Raft and the bytes by the snapshot transport; its reactor matches the   *)
(* two and drives the install Received -> BoundaryPending -> ReadyPending  *)
(* -> live.                                                                *)
(*                                                                         *)
(* An image is its snapshot id and the index it includes: the payload, the *)
(* checksum, the term and the configuration follow from the index.  A      *)
(* stream delivers all its chunks in order or breaks.  The Raft core is    *)
(* external: the chosen log is a length, the replicas that complete its    *)
(* quorums are outside the model.                                          *)
(***************************************************************************)
EXTENDS Integers, Sequences, FiniteSets, FiniteSetsExt

CONSTANTS
    Replicas,       \* the replicas that are followed
    MaxIndex,       \* bound on the log
    MaxRetries,     \* bound on the times the log refuses a batch retryably
    MaxRestarts,    \* bound on the restarts of replicas
    MaxReceives,    \* SnapshotWorkLimits.max_receives
    MaxStreams,     \* bound on the streams under way
    Interval        \* SnapshotPolicy.interval_entries

ASSUME SnapshotConstants ==
    /\ Replicas # {}
    /\ {MaxIndex, MaxReceives, MaxStreams, Interval} \subseteq Nat \ {0}
    /\ {MaxRetries, MaxRestarts} \subseteq Nat

VARIABLES
    chosen,     \* external: length of the log a quorum holds
    leader,     \* external: the replica that serves, Outside when it is not followed
    node,       \* what each replica's reactor and Raft core hold
    store,      \* each replica's snapshot directory
    offers,     \* InstallSnapshot messages under way; they may be lost, repeated, reordered
    streams,    \* transfers under way, a sequence of records
    inbound,    \* images each reactor has been handed and has not looked at
    busy,       \* the Install permit of a node is held by another group
    acked,      \* highest index a replica has answered InstallSnapshot with
    retries, restarts

vars == <<chosen, leader, node, store, offers, streams, inbound, busy, acked, retries, restarts>>

Outside == "outside"
NoImage == [id |-> 0, index |-> 0]
NoInstall == [phase |-> "none", image |-> NoImage]

(***************************************************************************)
(* Images.  The durable Raft pointer and the metadata Raft offers are made *)
(* of the same fields.                                                     *)
(***************************************************************************)
generate_local_snapshot(id, frontier) == [id |-> id, index |-> frontier]
ValidMetadata(image) == image.id # 0 /\ image.index # 0
raft_metadata_for_tablet(image) == [id |-> image.id, index |-> image.index]
raft_pointer_for_tablet(image) == [id |-> image.id, index |-> image.index]
restore_verified_snapshot(image) == image.index

(***************************************************************************)
(* The directory of published images, by snapshot id (the rest of the file *)
(* name is the replica's own identity), and the durable id allocator; 0    *)
(* where its file does not exist.                                          *)
(***************************************************************************)
EmptyStore == [files |-> <<>>, next |-> 0]

next_id_after_published_snapshots(s) == Max({0} \cup DOMAIN s.files) + 1

allocate_snapshot_id(s) ==
    LET id == IF s.next = 0 THEN next_id_after_published_snapshots(s) ELSE s.next
    IN  [id |-> id, store |-> [s EXCEPT !.next = id + 1]]

\* An identity is published once: the same image again is accepted, another refused.
CanPublish(s, image) ==
    /\ ValidMetadata(image)
    /\ image.id \in DOMAIN s.files => s.files[image.id] = image

publish(s, image) ==
    [s EXCEPT !.files = [i \in DOMAIN @ \cup {image.id} |-> IF i = image.id THEN image ELSE @[i]]]

PruneAllButNewest(s, image) == [s EXCEPT !.files = Restrict(@, {Max(DOMAIN @)})]
PruneOlder(s, image) == [s EXCEPT !.files = Restrict(@, {i \in DOMAIN @ : i >= image.id})]
prune_older_snapshots(s, image) == PruneOlder(s, image)

load_verified(s, image) == image.id \in DOMAIN s.files /\ s.files[image.id] = image
load_verified_by_name(s, pointer) == s.files[pointer.id]

(***************************************************************************)
(* A turn is a chain of steps on T = [node, store, inbound, ...], with out *)
(* the acknowledgement it sends, 0 for none.  A step that returns early    *)
(* leaves done = TRUE; a fatal error stops the owner.                      *)
(***************************************************************************)
Done(T) == [T EXCEPT !.done = TRUE]
Fail(T) == [T EXCEPT !.done = TRUE, !.node.status = "failed"]
Refused(T) == [T EXCEPT !.done = TRUE, !.refusals = 1]
Then(T, U) == IF T.done THEN T ELSE U

\* The pointer and the stable state reach the log in one batch; an index below the
\* durable one is refused.
BoundaryAccepted(n, image) ==
    \/ image.index > n.boundary.index
    \/ image = n.boundary

persist_external_snapshot_boundary(T, pointer) == [T EXCEPT !.node.boundary = pointer]
persist_snapshot_boundary(T, image) ==
    persist_external_snapshot_boundary(T, raft_pointer_for_tablet(image))

\* External: the core takes the image it waits for and produces a Ready with it.
CoreWaitsFor(n, image) == n.waiting = image
CompleteUnchecked(n, image) == TRUE
complete_snapshot_install(n, image) == CoreWaitsFor(n, image)

(***************************************************************************)
(* Local snapshots.  A candidate whose boundary the log refuses is kept    *)
(* and offered again; until then the turn does nothing else.               *)
(***************************************************************************)
is_due(n) == n.applied - n.latest.index >= Interval

generate_from_ready_loop(n, id) == generate_local_snapshot(id, n.applied)

prepare_local_snapshot(T) ==
    LET id == allocate_snapshot_id(T.store)
        image == generate_from_ready_loop(T.node, id.id)
    IN  IF CanPublish(id.store, image)
        THEN [T EXCEPT !.store = publish(id.store, image), !.node.candidate = image]
        ELSE Fail([T EXCEPT !.store = id.store])

\* The durable boundary compacts the core's log; then older files are removed.
restore_persisted_snapshot(T, image) ==
    [T EXCEPT !.node.latest = image, !.node.candidate = NoImage,
              !.store = prune_older_snapshots(@, image)]

publish_candidate(T, refused) ==
    IF T.done THEN T
    ELSE IF refused = "boundary" THEN Refused(T)
    ELSE restore_persisted_snapshot(persist_snapshot_boundary(T, T.node.candidate),
                                    T.node.candidate)

maybe_publish_snapshot(T, refused) ==
    IF T.node.candidate # NoImage THEN publish_candidate(T, refused)
    ELSE IF is_due(T.node) THEN publish_candidate(prepare_local_snapshot(T), refused)
    ELSE T

(***************************************************************************)
(* Raft messages.  An accepted InstallSnapshot replaces what the reactor   *)
(* expects and drops the install under way.                                *)
(***************************************************************************)
KeepInstall(n, image) == [n EXCEPT !.expected = image]
ExpectInstall(n, image) == [n EXCEPT !.expected = image, !.pending = NoInstall]
expect_snapshot_install(n, image) == ExpectInstall(n, image)

\* External: the core takes an offer beyond what it has applied, and gives it up
\* when entries carry it past the offered index.
StepInstall(n, image) ==
    IF image.index > n.applied THEN expect_snapshot_install([n EXCEPT !.waiting = image], image)
    ELSE n

StepAppend(n) ==
    [n EXCEPT !.applied = @ + 1, !.tablet = @ + 1,
              !.waiting = IF @.index <= n.applied + 1 THEN NoImage ELSE @]

snapshot_phase_blocks_host_control(phase) == phase = "ReadyPending"

Control(T, control) ==
    IF snapshot_phase_blocks_host_control(T.node.pending.phase) THEN T
    ELSE CASE control.kind = "install" -> [T EXCEPT !.node = StepInstall(@, control.image)]
           [] control.kind = "append"  -> [T EXCEPT !.node = StepAppend(@)]
           [] OTHER -> T

(***************************************************************************)
(* The install of received bytes.                                          *)
(***************************************************************************)
\* Bytes count only with the exact metadata Raft has accepted, one install at a time.
correlate_inbound(T) ==
    LET matching == {k \in DOMAIN T.inbound :
                        raft_metadata_for_tablet(T.inbound[k]) = T.node.expected}
    IN  [T EXCEPT !.inbound = <<>>,
                  !.node.pending = IF matching = {} \/ @ # NoInstall THEN @
                                   ELSE [phase |-> "Received", image |-> T.inbound[Min(matching)]]]

\* The file is published before Raft may refer to it.
prepare_incoming_snapshot(T, image) ==
    IF ~ CanPublish(T.store, image) THEN Fail(T)
    ELSE [T EXCEPT !.store = publish(@, image), !.node.pending.phase = "BoundaryPending"]

\* The stage takes whatever install is pending, and puts back only a received one.
install_received(T, no_permit) ==
    IF T.node.pending.phase # "Received" THEN [T EXCEPT !.node.pending = NoInstall]
    ELSE IF no_permit THEN Done(T)
    ELSE prepare_incoming_snapshot(T, T.node.pending.image)

install_boundary(T, refused) ==
    LET image == T.node.pending.image
    IN  IF T.done \/ T.node.pending.phase # "BoundaryPending" THEN T
        ELSE IF ~ BoundaryAccepted(T.node, image) THEN Fail(T)
        ELSE IF refused = "boundary" THEN Refused(T)
        ELSE LET U == persist_snapshot_boundary(T, image)
             IN  IF complete_snapshot_install(U.node, image)
                 THEN [U EXCEPT !.node.waiting = NoImage, !.node.ready = image,
                                !.node.pending.phase = "ReadyPending"]
                 ELSE Fail(U)

\* The restored state machine becomes the live tablet, and only then is the leader
\* answered and are older files removed.
publish_install(T, image) ==
    [T EXCEPT !.node.tablet = restore_verified_snapshot(image), !.node.applied = image.index,
              !.node.ready = NoImage, !.node.latest = image, !.node.expected = NoImage,
              !.node.pending = NoInstall,
              !.store = prune_older_snapshots(@, image), !.out = image.index]

install_ready(T, refused) ==
    IF T.done \/ T.node.pending.phase # "ReadyPending" THEN T
    ELSE IF refused = "ready" THEN Refused(T)
    ELSE publish_install(T, T.node.pending.image)

\* The generic drain has no pointer for a Ready that carries a snapshot.
drain_ready(T) == IF T.node.ready # NoImage THEN Fail(T) ELSE T

run_turn(r, control, refused) ==
    LET T0 == [node |-> node[r], store |-> store[r], inbound |-> inbound[r], out |-> 0,
               done |-> FALSE, refusals |-> 0]
        T1 == IF T0.node.candidate # NoImage THEN maybe_publish_snapshot(T0, refused) ELSE T0
        T2 == Then(T1, Control(T1, control))
        T3 == Then(T2, correlate_inbound(T2))
        T4 == Then(T3, install_received(T3, busy[r]))
        T5 == install_ready(install_boundary(T4, refused), refused)
        T6 == Then(T5, drain_ready(T5))
    IN  Then(T6, IF leader = r THEN maybe_publish_snapshot(T6, refused) ELSE T6)

(***************************************************************************)
(* Actions.                                                                *)
(***************************************************************************)
Up(r) == node[r].status = "up"

\* External: a leader sends the entries its log still reaches back to; one outside
\* the model has compacted nothing.
Appends(r) ==
    /\ leader # r /\ node[r].applied < chosen
    /\ leader # Outside => node[r].applied >= node[leader].boundary.index

Controls(r) ==
    {[kind |-> "none", image |-> NoImage]}
    \cup {[kind |-> "install", image |-> o.image] : o \in {o \in offers : o.to = r}}
    \cup (IF Appends(r) THEN {[kind |-> "append", image |-> NoImage]} ELSE {})

Turn(r) ==
    /\ Up(r)
    /\ \E control \in Controls(r) : \E refused \in {"none", "boundary", "ready"} :
          LET T == run_turn(r, control, refused)
          IN  /\ refused # "none" <=> T.refusals = 1
              /\ retries + T.refusals <= MaxRetries
              /\ node' = [node EXCEPT ![r] = T.node]
              /\ store' = [store EXCEPT ![r] = T.store]
              /\ acked' = [acked EXCEPT ![r] = Max({@, T.out})]
              /\ inbound' = [inbound EXCEPT ![r] = T.inbound]
              /\ retries' = retries + T.refusals
    /\ UNCHANGED <<chosen, leader, offers, streams, busy, restarts>>

\* External: the rest of the group completes a quorum, with or without a followed
\* leader.
Commit ==
    /\ chosen < MaxIndex
    /\ \/ leader = Outside /\ UNCHANGED node
       \/ /\ leader # Outside
          /\ Up(leader) /\ node[leader].candidate = NoImage
          /\ node' = [node EXCEPT ![leader] = StepAppend(@)]
    /\ chosen' = chosen + 1
    /\ UNCHANGED <<leader, store, offers, streams, inbound, busy, acked, retries, restarts>>

\* External: a replica with the whole log may win; leadership may leave the model.
Elect ==
    /\ \E r \in (Replicas \cup {Outside}) \ {leader} :
          /\ r # Outside =>
                /\ Up(r) /\ node[r].applied = chosen
                /\ ~ snapshot_phase_blocks_host_control(node[r].pending.phase)
          /\ leader' = r
    /\ UNCHANGED <<chosen, node, store, offers, streams, inbound, busy, acked, retries, restarts>>

\* A leader whose log no longer reaches back to a follower sends it the metadata,
\* and the bytes when its Send permit is free.
ReceivePermits(r) ==
    Cardinality({s \in streams : s.to = r /\ s.open}) + Len(inbound[r])
        + (IF node[r].pending = NoInstall THEN 0 ELSE 1)

SendPermitFree(l) == \A s \in streams : s.from = l => s.sent

Stream(l, f) == [from |-> l, to |-> f, image |-> node[l].latest, sent |-> FALSE, open |-> FALSE]

send_install(l, f) ==
    /\ leader = l /\ l # f /\ Up(l) /\ node[l].candidate = NoImage
    /\ node[f].applied < node[l].boundary.index
    /\ offers' = offers \cup {[to |-> f, image |-> node[l].boundary]}
    /\ streams' = IF SendPermitFree(l) /\ Cardinality(streams) < MaxStreams
                  THEN streams \cup {Stream(l, f)}
                  ELSE streams
    /\ UNCHANGED <<chosen, leader, node, store, inbound, busy, acked, retries, restarts>>

\* The last frame is written: the Send permit is free again.
send_snapshot(s) ==
    /\ ~ s.sent
    /\ streams' = (streams \ {s}) \cup {[s EXCEPT !.sent = TRUE]}
    /\ UNCHANGED <<chosen, leader, node, store, offers, inbound, busy, acked, retries, restarts>>

\* The metadata frame is read: a session and its Receive permit, held until the
\* install is over.
BeginSession(s) == [s EXCEPT !.open = TRUE]
FinishSession(s) == s.open /\ s.sent

begin_receive(s) ==
    /\ ~ s.open /\ ValidMetadata(s.image) /\ ReceivePermits(s.to) < MaxReceives
    /\ streams' = (streams \ {s}) \cup {BeginSession(s)}
    /\ UNCHANGED <<chosen, leader, node, store, offers, inbound, busy, acked, retries, restarts>>

\* The end frame is read: the session goes to the reactor of the group.
receive_snapshot(s) ==
    /\ FinishSession(s)
    /\ streams' = streams \ {s}
    /\ inbound' = IF Up(s.to) THEN [inbound EXCEPT ![s.to] = Append(@, s.image)] ELSE inbound
    /\ UNCHANGED <<chosen, leader, node, store, offers, busy, acked, retries, restarts>>

\* A connection fails, times out, or is refused for want of a permit.
Break(s) ==
    /\ streams' = streams \ {s}
    /\ UNCHANGED <<chosen, leader, node, store, offers, inbound, busy, acked, retries, restarts>>

\* Another group of the node takes or gives back the Install permit.
OtherInstall(r) ==
    /\ node[r].pending.phase \in {"none", "Received"}
    /\ busy' = [busy EXCEPT ![r] = ~ @]
    /\ UNCHANGED <<chosen, leader, node, store, offers, streams, inbound, acked, retries, restarts>>

\* Startup: the image the durable pointer names is loaded, then the log is replayed.
Recovered(r) ==
    LET n == node[r]
        applied == Max({n.applied, n.boundary.index})
        found == n.boundary = NoImage \/ load_verified(store[r], n.boundary)
        image == IF n.boundary = NoImage \/ ~ found THEN NoImage
                 ELSE load_verified_by_name(store[r], n.boundary)
    IN  [status |-> IF found THEN "up" ELSE "failed", applied |-> applied,
         tablet |-> restore_verified_snapshot(image) + (applied - n.boundary.index),
         boundary |-> n.boundary, latest |-> image, expected |-> NoImage,
         pending |-> NoInstall, candidate |-> NoImage, waiting |-> NoImage, ready |-> NoImage]

Restart(r) ==
    /\ restarts < MaxRestarts
    /\ restarts' = restarts + 1
    /\ node' = [node EXCEPT ![r] = Recovered(r)]
    /\ leader' = IF leader = r THEN Outside ELSE leader
    /\ streams' = {s \in streams : r \notin {s.from, s.to}}
    /\ inbound' = [inbound EXCEPT ![r] = <<>>]
    /\ UNCHANGED <<chosen, store, offers, busy, acked, retries>>

FreshNode == [status |-> "up", applied |-> 0, tablet |-> 0, boundary |-> NoImage,
              latest |-> NoImage, expected |-> NoImage, pending |-> NoInstall,
              candidate |-> NoImage, waiting |-> NoImage, ready |-> NoImage]

Init ==
    /\ chosen = 0 /\ leader = Outside
    /\ node = [r \in Replicas |-> FreshNode]
    /\ store = [r \in Replicas |-> EmptyStore]
    /\ offers = {} /\ streams = {}
    /\ inbound = [r \in Replicas |-> <<>>]
    /\ busy = [r \in Replicas |-> FALSE]
    /\ acked = [r \in Replicas |-> 0]
    /\ retries = 0 /\ restarts = 0

Next ==
    \/ Commit \/ Elect
    \/ \E r \in Replicas : Turn(r) \/ OtherInstall(r) \/ Restart(r)
    \/ \E l, f \in Replicas : send_install(l, f)
    \/ \E s \in streams : send_snapshot(s) \/ begin_receive(s) \/ receive_snapshot(s) \/ Break(s)

Spec == Init /\ [][Next]_vars

(***************************************************************************)
(* Properties.                                                             *)
(***************************************************************************)
\* The snapshot a replica has answered its leader for is what a restart would
\* recover: its boundary is durable and the file the pointer names is there.  The
\* leader counts the replica as holding the log up to it.
AcknowledgedSnapshotsSurvive ==
    \A r \in Replicas :
        /\ acked[r] <= node[r].boundary.index
        /\ node[r].boundary # NoImage => load_verified(store[r], node[r].boundary)

\* The install under way is the one Raft has accepted last, at every stage: bytes
\* that waited for a permit are not installed for a later offer.
PendingInstallIsTheAcceptedOne ==
    \A r \in Replicas : LET n == node[r] IN
        n.status = "up" /\ n.pending # NoInstall => n.pending.image = n.expected

\* The live tablet of a running replica never goes back to an older state.
TabletNeverRegresses ==
    [][\A r \in Replicas : node'[r].tablet >= node[r].tablet
                          /\ node'[r].applied >= node[r].applied]_vars

\* A Ready that carries an installed snapshot is retried with its durable pointer
\* until the log has it: a retryable refusal does not stop the replica.
PostSnapshotReadyIsRetried ==
    \A r \in Replicas : node[r].ready # NoImage =>
        node[r].status = "up" /\ node[r].pending.phase = "ReadyPending"

=============================================================================
