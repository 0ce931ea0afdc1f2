-------------------------- MODULE MetadataCatalog --------------------------
(* The replicated metadata state machine: the node directory, the table and
   tablet catalog, desired placements, retired replica lifetimes, identity
   high-water marks, client sessions and the request-result cache, with the
   commands metadata Raft applies to them and the snapshot a lagging replica
   restores (crates/ragnordb-catalog/src/metadata.rs, the validation rules of
   crates/ragnordb-common/src/metadata_codec.rs and the Raft wrapper in
   crates/ragnordb-multiraft/src/meta.rs).

   This module is the pure part: a catalog is a record and a command maps one
   catalog to the next and an outcome.  MetadataService runs it.  The three
   name, group and partition indexes of the code are derived here from the
   tables and tablets they index.  Timestamps and history protections are
   modelled in TimestampOracle and GcProtection. *)
EXTENDS Naturals, FiniteSets, Sequences, FiniteSetsExt, Functions

CONSTANTS
    Domains,                  \* the locality label kinds (region, zone, rack)
    InitialReplicationFactor, \* INITIAL_REPLICATION_FACTOR
    None

ASSUME FactorAssumption == InitialReplicationFactor \in Nat \ {0}

ASSUME DomainAssumption == IsFiniteSet(Domains)

Lifecycles == <<"active", "draining", "decommissioning", "decommissioned", "tombstoned">>

RankOf(life) == CHOOSE i \in DOMAIN Lifecycles : Lifecycles[i] = life

(* Identities 1 of tables and tablets and groups 1 and 2 are taken. *)
InitialAllocator == [table |-> 1, tablet |-> 1, group |-> 2, replica |-> 0]

NoEntries == [x \in {} |-> x]

EmptyCatalog ==
    [cluster    |-> None,
     nodes      |-> NoEntries,
     tables     |-> NoEntries,
     tablets    |-> NoEntries,
     placements |-> NoEntries,
     retired    |-> NoEntries,
     alloc      |-> InitialAllocator,
     requests   |-> NoEntries,
     sessions   |-> NoEntries]

Put(f, k, v) == [x \in DOMAIN f \cup {k} |-> IF x = k THEN v ELSE f[x]]

Applied(s)        == [state |-> s, outcome |-> [kind |-> "applied"]]
AlreadyApplied(s) == [state |-> s, outcome |-> [kind |-> "already"]]
Answer(s, o)      == [state |-> s, outcome |-> o]
Rejected(s, why)  == [state |-> s, outcome |-> [kind |-> "rejected", why |-> why]]

-----------------------------------------------------------------------------
(* Reading a catalog. *)

TableNamed(s, name) == {t \in DOMAIN s.tables : s.tables[t].name = name}
TabletOfGroup(s, g) == {b \in DOMAIN s.tablets : s.tablets[b].group = g}
TabletsOf(s, t)     == {b \in DOMAIN s.tablets : s.tablets[b].table = t}

IsReplicaRetired(s, g, r) == <<g, r>> \in DOMAIN s.retired

ReplicaIds(replicas) == {r.id : r \in replicas}

MaxReplica(replicas, floor) == Max({floor} \cup ReplicaIds(replicas))

NextReplicaId(s) == s.alloc.replica + 1

ActiveNodes(s) == {n \in DOMAIN s.nodes : s.nodes[n].life = "active"}

DesiredOn(s, n) == {b \in DOMAIN s.placements : \E r \in s.placements[b].replicas : r.node = n}

LabelsOf(s, nodes, d) == {s.nodes[n].labels[d] : n \in nodes} \ {None}

-----------------------------------------------------------------------------
(* What a command must satisfy before it is looked at. *)

CommandKinds == {"init", "register_client", "renew_client", "register_node", "lifecycle",
                 "create_table", "tablet", "topology", "placement", "retire", "schema"}

ValidPolicy(p) ==
    /\ p.factor > 0
    /\ \A d \in Domains : p.spread[d] <= p.factor
    /\ p.class # ""

ValidPlacement(p) ==
    /\ ValidPolicy(p)
    /\ p.epoch > 0
    /\ p.replicas # {}
    /\ \A a, b \in p.replicas : a # b => a.id # b.id /\ a.node # b.node
    /\ \E r \in p.replicas : r.role = "voter"
    /\ Cardinality({r \in p.replicas : r.role = "voter"}) = p.factor

ValidColumns(columns, key) ==
    /\ columns # << >>
    /\ IsInjective([i \in DOMAIN columns |-> columns[i].id])
    /\ key # {}
    /\ \A k \in key : \E i \in DOMAIN columns : columns[i].id = k /\ ~columns[i].nullable

ValidSchema(t) == t.id > 0 /\ t.version > 0 /\ t.count > 0 /\ ValidColumns(t.columns, t.key)

ValidTable(t) == t.id > 0 /\ t.version > 0 /\ t.count > 0

ValidNode(c) == c.id > 0 /\ c.node.ends # {} /\ c.node.class # ""

ValidPartition(p) ==
    \/ p.kind = "hash" /\ p.count > 0 /\ p.bucket < p.count
    \/ p.kind = "range" /\ (p.end = 0 \/ p.start < p.end)

(* Group 2 is the metadata group. *)
ValidTablet(b) ==
    b.id > 0 /\ b.table > 0 /\ b.group \notin {0, 2} /\ b.epoch > 0 /\ ValidPartition(b.part)

ValidRetirement(c) == c.group > 0 /\ c.id > 0 /\ c.epoch > 0 /\ c.version > 0

ValidCommand(c) ==
    CASE c.kind = "topology"     -> ValidColumns(c.columns, c.key)
      [] c.kind = "register_node" -> ValidNode(c)
      [] c.kind = "renew_client" -> c.epoch > 0
      [] c.kind = "create_table" -> ValidTable(c.table)
      [] c.kind = "schema"       -> c.expected > 0 /\ ValidTable(c.table)
      [] c.kind = "tablet"       -> ValidTablet(c.tablet)
      [] c.kind = "placement"    -> ValidPlacement(c.placement)
      [] c.kind = "retire"       -> ValidRetirement(c)
      [] OTHER                   -> TRUE

-----------------------------------------------------------------------------
(* The commands. *)

ApplyClusterInitialized(s, c) ==
    IF s.cluster = None THEN Applied([s EXCEPT !.cluster = c.cluster])
    ELSE IF s.cluster = c.cluster THEN AlreadyApplied(s)
    ELSE Rejected(s, "cluster")

ApplyRegisterClient(s, c) ==
    LET known    == c.client \in DOMAIN s.sessions
        existing == s.sessions[c.client].epoch
        opened(e) == Answer([s EXCEPT !.sessions = Put(@, c.client, [epoch |-> e, acked |-> 0, retained |-> 1])],
                            [kind |-> "registered", epoch |-> e])
    IN  IF ~known THEN opened(Max({c.epoch, 1}))
        ELSE IF c.epoch = existing THEN AlreadyApplied(s)
        ELSE IF c.epoch \in {0, existing + 1} THEN opened(existing + 1)
        ELSE Rejected(s, "session epoch")

ApplyRenewClient(s, c) ==
    IF c.client \notin DOMAIN s.sessions THEN Rejected(s, "unknown client")
    ELSE LET session == s.sessions[c.client] IN
         IF session.epoch # c.epoch THEN Rejected(s, "session epoch")
         ELSE IF c.acked < session.acked THEN Rejected(s, "acknowledgement regression")
         ELSE IF c.acked = session.acked THEN AlreadyApplied(s)
         ELSE Answer([s EXCEPT !.sessions[c.client].acked = c.acked,
                               !.sessions[c.client].retained = c.acked + 1],
                     [kind |-> "renewed"])

LifecycleCanAdvance(from, to) == RankOf(to) = RankOf(from) + 1

SetNodeLifecycleUnchecked(s, n, life) ==
    IF n \notin DOMAIN s.nodes THEN Rejected(s, "unknown node")
    ELSE IF ~LifecycleCanAdvance(s.nodes[n].life, life) THEN Rejected(s, "lifecycle")
    ELSE Applied([s EXCEPT !.nodes[n].life = life])

ApplySetNodeLifecycle(s, n, life) ==
    IF n \notin DOMAIN s.nodes THEN Rejected(s, "unknown node")
    ELSE IF s.nodes[n].life = life THEN AlreadyApplied(s)
    ELSE IF ~LifecycleCanAdvance(s.nodes[n].life, life) THEN Rejected(s, "lifecycle")
    ELSE IF life \in {"decommissioned", "tombstoned"} /\ DesiredOn(s, n) # {}
         THEN Rejected(s, "still expected")
    ELSE Applied([s EXCEPT !.nodes[n].life = life])

SameNodeDirectory(a, b) == [a EXCEPT !.life = "active"] = [b EXCEPT !.life = "active"]

ApplyRegisterNode(s, c) ==
    IF c.id \in DOMAIN s.nodes
    THEN LET existing == s.nodes[c.id] IN
         IF existing = c.node THEN AlreadyApplied(s)
         ELSE IF SameNodeDirectory(existing, c.node) THEN ApplySetNodeLifecycle(s, c.id, c.node.life)
         ELSE Rejected(s, "node id")
    ELSE IF \E n \in DOMAIN s.nodes : s.nodes[n].ends \cap c.node.ends # {}
         THEN Rejected(s, "endpoint")
    ELSE IF c.node.life # "active" THEN Rejected(s, "lifecycle")
    ELSE Applied([s EXCEPT !.nodes = Put(@, c.id, c.node)])

-----------------------------------------------------------------------------
(* Placement of a new tablet: the voters are spread over the labels known. *)

LocalityGain(s, n, selected) ==
    Cardinality({d \in Domains : /\ s.nodes[n].labels[d] # None
                                 /\ s.nodes[n].labels[d] \notin LabelsOf(s, selected, d)})

BestCandidate(s, candidates, selected) ==
    LET gain == Max({LocalityGain(s, n, selected) : n \in candidates})
    IN  Min({n \in candidates : LocalityGain(s, n, selected) = gain})

(* The nodes in the order the loop selects them. *)
SelectVoters(s, count) ==
    CHOOSE voters \in [1..count -> ActiveNodes(s)] :
        \A k \in 1..count :
            LET taken == {voters[j] : j \in 1..(k - 1)}
            IN  voters[k] = BestCandidate(s, ActiveNodes(s) \ taken, taken)

SelectInitialPlacement(s, epoch) ==
    LET count  == Min({Cardinality(ActiveNodes(s)), InitialReplicationFactor})
        voters == SelectVoters(s, count)
    IN  [epoch    |-> epoch,
         factor   |-> count,
         class    |-> None,
         leaders  |-> {},
         spread   |-> [d \in Domains |-> Cardinality(LabelsOf(s, {voters[i] : i \in DOMAIN voters}, d))],
         replicas |-> {[id |-> i, node |-> voters[i], role |-> "voter"] : i \in DOMAIN voters}]

ApplyCreateTableTopology(s, c) ==
    IF TableNamed(s, c.name) # {} THEN Rejected(s, "table name")
    ELSE IF ActiveNodes(s) = {} THEN Rejected(s, "no nodes")
    ELSE LET t == s.alloc.table + 1
             b == s.alloc.tablet + 1
             g == s.alloc.group + 1
             placement == SelectInitialPlacement(s, 1)
             table  == [name |-> c.name, columns |-> c.columns, key |-> c.key, version |-> 1, count |-> 1]
             tablet == [table |-> t, group |-> g, epoch |-> 1,
                        part |-> [kind |-> "range", start |-> 0, end |-> 0]]
         IN  Answer([s EXCEPT !.tables     = Put(@, t, table),
                              !.tablets    = Put(@, b, tablet),
                              !.placements = Put(@, b, placement),
                              !.alloc      = [table |-> t, tablet |-> b, group |-> g,
                                              replica |-> MaxReplica(placement.replicas, 0)]],
                    [kind |-> "created", table |-> t, tablet |-> b, group |-> g])

TableOf(t) == [name |-> t.name, columns |-> t.columns, key |-> t.key, version |-> t.version, count |-> t.count]

ApplyCreateTable(s, c) ==
    IF ~ValidSchema(c.table) THEN Rejected(s, "invalid table")
    ELSE IF c.table.id \in DOMAIN s.tables
    THEN IF s.tables[c.table.id] = TableOf(c.table) THEN AlreadyApplied(s) ELSE Rejected(s, "table id")
    ELSE IF TableNamed(s, c.table.name) # {} THEN Rejected(s, "table name")
    ELSE Applied([s EXCEPT !.tables = Put(@, c.table.id, TableOf(c.table)),
                           !.alloc.table = Max({@, c.table.id})])

(* Zero is the open end of a key range on either side. *)
RangesOverlap(p, q) ==
    ~ \/ p.end # 0 /\ q.start # 0 /\ p.end <= q.start
      \/ q.end # 0 /\ p.start # 0 /\ q.end <= p.start

PartitionFits(s, b) ==
    LET siblings == {s.tablets[x] : x \in TabletsOf(s, b.table)} IN
    IF b.part.kind = "hash"
    THEN /\ b.part.count = s.tables[b.table].count
         /\ \A x \in siblings : x.part.kind = "hash" => x.part.bucket # b.part.bucket
         /\ Cardinality(TabletsOf(s, b.table)) < s.tables[b.table].count
    ELSE \A x \in siblings : x.part.kind = "range" => ~RangesOverlap(b.part, x.part)

TabletOf(b) == [table |-> b.table, group |-> b.group, epoch |-> b.epoch, part |-> b.part]

ApplyCreateTablet(s, c) ==
    LET b == c.tablet IN
    IF b.id \in DOMAIN s.tablets
    THEN IF s.tablets[b.id] = TabletOf(b) THEN AlreadyApplied(s) ELSE Rejected(s, "tablet id")
    ELSE IF TabletOfGroup(s, b.group) # {} THEN Rejected(s, "raft group")
    ELSE IF b.table \notin DOMAIN s.tables THEN Rejected(s, "unknown table")
    ELSE IF ~PartitionFits(s, b) THEN Rejected(s, "partition")
    ELSE Applied([s EXCEPT !.tablets = Put(@, b.id, TabletOf(b)),
                           !.alloc.tablet = Max({@, b.id}),
                           !.alloc.group  = Max({@, b.group})])

-----------------------------------------------------------------------------
(* Desired placements and the retirement of removed lifetimes. *)

Retained(s, b, r) ==
    /\ b \in DOMAIN s.placements
    /\ \E old \in s.placements[b].replicas : old.id = r.id /\ old.node = r.node

NodeAccepts(s, b, p, r) ==
    /\ \/ s.nodes[r.node].life = "active"
       \/ Retained(s, b, r) /\ s.nodes[r.node].life \in {"draining", "decommissioning"}
    /\ p.class \in {None, s.nodes[r.node].class}

SpreadSatisfied(s, p) ==
    \A d \in Domains : Cardinality(LabelsOf(s, {r.node : r \in p.replicas}, d)) >= p.spread[d]

NextEpoch(s, b) == IF b \in DOMAIN s.placements THEN s.placements[b].epoch + 1 ELSE 1

KeepsHosts(s, b, p) ==
    b \in DOMAIN s.placements =>
        \A old \in s.placements[b].replicas, new \in p.replicas :
            old.id = new.id => /\ old.node = new.node
                               /\ ~(old.role = "voter" /\ new.role = "learner")

PlacementAccepted(s, b, p) ==
    /\ p.epoch = NextEpoch(s, b)
    /\ SpreadSatisfied(s, p)
    /\ KeepsHosts(s, b, p)

ApplyDesiredPlacement(s, c) ==
    LET b == c.tablet
        p == c.placement
    IN  IF b \notin DOMAIN s.tablets THEN Rejected(s, "unknown tablet")
        ELSE IF b \in DOMAIN s.placements /\ s.placements[b] = p THEN AlreadyApplied(s)
        ELSE IF \E r \in p.replicas : r.node \notin DOMAIN s.nodes THEN Rejected(s, "unknown node")
        ELSE IF \E r \in p.replicas : ~NodeAccepts(s, b, p, r) THEN Rejected(s, "node lifecycle")
        ELSE IF \E r \in p.replicas : IsReplicaRetired(s, s.tablets[b].group, r.id)
             THEN Rejected(s, "retired replica")
        ELSE IF ~(p.leaders \subseteq ActiveNodes(s)) THEN Rejected(s, "preferred leader")
        ELSE IF ~PlacementAccepted(s, b, p) THEN Rejected(s, "placement")
        ELSE Applied([s EXCEPT !.placements = Put(@, b, p),
                               !.alloc.replica = MaxReplica(p.replicas, @)])

ApplyReplicaRetirement(s, c) ==
    LET key   == <<c.group, c.id>>
        proof == [epoch |-> c.epoch, version |-> c.version]
    IN  IF TabletOfGroup(s, c.group) = {} THEN Rejected(s, "unknown group")
        ELSE LET b == CHOOSE x \in TabletOfGroup(s, c.group) : TRUE IN
             IF b \in DOMAIN s.placements /\ c.id \in ReplicaIds(s.placements[b].replicas)
             THEN Rejected(s, "still desired")
             ELSE IF key \in DOMAIN s.retired
                  THEN IF s.retired[key] = proof THEN AlreadyApplied(s) ELSE Rejected(s, "proof")
             ELSE IF b \notin DOMAIN s.placements THEN Rejected(s, "unknown tablet")
             ELSE IF s.placements[b].epoch # c.epoch THEN Rejected(s, "placement epoch")
             ELSE Applied([s EXCEPT !.retired = Put(@, key, proof)])

-----------------------------------------------------------------------------
(* Schema changes only append nullable columns under new identities. *)

AppendsColumns(old, new) ==
    /\ Len(new.columns) >= Len(old.columns)
    /\ \A i \in DOMAIN old.columns : new.columns[i] = old.columns[i]
    /\ \A i \in DOMAIN new.columns \ DOMAIN old.columns :
           /\ \A j \in DOMAIN old.columns : new.columns[i].id > old.columns[j].id
           /\ new.columns[i].nullable

ApplySchemaUpdate(s, c) ==
    LET t   == c.table.id
        new == TableOf(c.table)
    IN  IF ~ValidSchema(c.table) THEN Rejected(s, "invalid table")
        ELSE IF t \notin DOMAIN s.tables THEN Rejected(s, "unknown table")
        ELSE LET old == s.tables[t] IN
             IF old = new THEN AlreadyApplied(s)
             ELSE IF c.expected # old.version THEN Rejected(s, "schema precondition")
             ELSE IF new.version # old.version + 1 THEN Rejected(s, "schema version")
             ELSE IF \/ new.name # old.name \/ new.count # old.count \/ new.key # old.key
                  THEN Rejected(s, "unsupported change")
             ELSE IF ~AppendsColumns(old, new) THEN Rejected(s, "columns")
             ELSE Applied([s EXCEPT !.tables[t] = new])

-----------------------------------------------------------------------------
(* One committed command. *)

ApplyCommand(s, c) ==
    IF ~ValidCommand(c) THEN Rejected(s, "invalid")
    ELSE IF c.kind # "init" /\ s.cluster = None THEN Rejected(s, "not initialized")
    ELSE CASE c.kind = "init"            -> ApplyClusterInitialized(s, c)
           [] c.kind = "register_client" -> ApplyRegisterClient(s, c)
           [] c.kind = "renew_client"    -> ApplyRenewClient(s, c)
           [] c.kind = "register_node"   -> ApplyRegisterNode(s, c)
           [] c.kind = "lifecycle"       -> ApplySetNodeLifecycle(s, c.id, c.life)
           [] c.kind = "create_table"    -> ApplyCreateTable(s, c)
           [] c.kind = "tablet"          -> ApplyCreateTablet(s, c)
           [] c.kind = "topology"        -> ApplyCreateTableTopology(s, c)
           [] c.kind = "placement"       -> ApplyDesiredPlacement(s, c)
           [] c.kind = "retire"          -> ApplyReplicaRetirement(s, c)
           [] c.kind = "schema"          -> ApplySchemaUpdate(s, c)

(* A cached rejection keeps its text and loses its kind. *)
ToCached(o)   == IF o.kind = "rejected" THEN [kind |-> "refused", why |-> o.why] ELSE o
FromCached(o) == IF o.kind = "refused" THEN [kind |-> "rejected", why |-> "replayed"] ELSE o

(* Every delivery of a request is applied. *)
ApplyWithoutLookup(s, id, c) ==
    LET r == ApplyCommand(s, c)
    IN  Answer([r.state EXCEPT !.requests = Put(@, id, ToCached(r.outcome))], r.outcome)

ApplyWithLogicalCommandId(s, id, c) ==
    IF id \in DOMAIN s.requests
    THEN Answer(s, FromCached(s.requests[id]))
    ELSE LET r == ApplyCommand(s, c)
         IN  Answer([r.state EXCEPT !.requests = Put(@, id, ToCached(r.outcome))], r.outcome)

-----------------------------------------------------------------------------
(* Snapshots: what a replica writes, what it accepts and what it rebuilds. *)

ToSnapshotWithoutSessions(s) == [s EXCEPT !.sessions = NoEntries]

ToSnapshot(s) == s

VisibleReplicaIds(s) ==
    UNION {ReplicaIds(s.placements[b].replicas) : b \in DOMAIN s.placements}
        \cup {k[2] : k \in DOMAIN s.retired}

ValidSnapshot(s) ==
    /\ s.cluster = None => s = [EmptyCatalog EXCEPT !.alloc = s.alloc]
    /\ \A b \in DOMAIN s.placements : ValidPlacement(s.placements[b])
    /\ \A t \in DOMAIN s.tables : t <= s.alloc.table
    /\ \A b \in DOMAIN s.tablets : b <= s.alloc.tablet /\ s.tablets[b].group <= s.alloc.group
    /\ \A r \in VisibleReplicaIds(s) : r <= s.alloc.replica

(* A zero replica mark is read as a snapshot from before the field existed. *)
FromWire(s) == [s EXCEPT !.alloc.replica = IF @ = 0 THEN Max({0} \cup VisibleReplicaIds(s)) ELSE @]

(* A rejected step makes the snapshot corrupt: None is the failed restore. *)
Restoring(s, Step(_)) ==
    IF s = None THEN None
    ELSE LET r == Step(s) IN IF r.outcome.kind = "rejected" THEN None ELSE r.state

RestoredNode(s, n, node) ==
    LET register(x) == ApplyRegisterNode(x, [id |-> n, node |-> [node EXCEPT !.life = "active"]])
        walk[i \in 1..RankOf(node.life)] ==
            IF i = 1 THEN Restoring(s, register)
            ELSE LET advance(x) == ApplySetNodeLifecycle(x, n, Lifecycles[i])
                 IN  Restoring(walk[i - 1], advance)
    IN  walk[RankOf(node.life)]

RestoredTable(s, t, table) ==
    LET create(x) == ApplyCreateTable(x, [table |-> Put(table, "id", t)])
    IN  Restoring(s, create)

RestoredTablet(s, b, tablet) ==
    LET create(x) == ApplyCreateTablet(x, [tablet |-> Put(tablet, "id", b)])
    IN  Restoring(s, create)

(* In ascending order of identity, the canonical order of a snapshot. *)
RestoreEach(s, entries, Step(_, _, _)) ==
    LET fold[ks \in SUBSET DOMAIN entries] ==
            IF ks = {} THEN s
            ELSE LET k == Max(ks) IN Step(fold[ks \ {k}], k, entries[k])
    IN  fold[DOMAIN entries]

PlacementsRestorable(s, snap) ==
    /\ \A b \in DOMAIN snap.placements :
           b \in DOMAIN s.tablets /\ \A r \in snap.placements[b].replicas : r.node \in DOMAIN s.nodes
    /\ \A k \in DOMAIN snap.retired :
           \E b \in TabletOfGroup(s, k[1]) :
              b \in DOMAIN snap.placements => k[2] \notin ReplicaIds(snap.placements[b].replicas)
    /\ \A id \in DOMAIN snap.requests :
           LET o == snap.requests[id] IN
           o.kind = "created" => /\ o.table \in DOMAIN s.tables
                                 /\ o.tablet \in DOMAIN s.tablets
                                 /\ s.tablets[o.tablet].table = o.table
                                 /\ s.tablets[o.tablet].group = o.group

FromSnapshot(snap) ==
    IF ~ValidSnapshot(snap) THEN None
    ELSE IF snap.cluster = None THEN [EmptyCatalog EXCEPT !.alloc = snap.alloc]
    ELSE LET started == [EmptyCatalog EXCEPT !.cluster = snap.cluster]
             nodes   == RestoreEach(started, snap.nodes, RestoredNode)
             tables  == RestoreEach(nodes, snap.tables, RestoredTable)
             rebuilt == RestoreEach(tables, snap.tablets, RestoredTablet)
         IN  IF rebuilt = None \/ ~PlacementsRestorable(rebuilt, snap) THEN None
             ELSE [rebuilt EXCEPT !.placements = snap.placements,
                                  !.retired    = snap.retired,
                                  !.alloc      = snap.alloc,
                                  !.requests   = snap.requests,
                                  !.sessions   = snap.sessions]

(* MetadataSnapshot::encode refuses an invalid snapshot. *)
Encodable(s) == ValidSnapshot(ToSnapshot(s))
Restored(s)  == FromSnapshot(FromWire(ToSnapshot(s)))
=============================================================================
