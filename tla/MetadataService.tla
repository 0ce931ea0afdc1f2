-------------------------- MODULE MetadataService --------------------------
(* The metadata group at work: committed commands applied in log order, some of
   them retries of a request that was already applied, on a replica that has
   been there from the start and on a replica that was restored from a snapshot
   of the first and applies the same log from there
   (crates/ragnordb-multiraft/src/meta.rs).

   Requests carry a logical identity and are deduplicated.  Node lifecycle
   changes, placements and retirements are committed by the lifecycle loops of
   the servers at any time. *)
EXTENDS MetadataCatalog

CONSTANTS
    Bootstrap,   \* the commands that founded the cluster
    Requests,    \* logical request identity -> the command it carries
    Nodes,       \* the nodes placements may name
    Leaving,     \* the nodes an operator may drain
    MaxEpoch,    \* bound on placement epochs
    MaxReplicaId \* bound on replica identities a placement may name

(* Identities are unsigned numbers and a node descriptor has a lifecycle. *)
WellFormed(c) ==
    /\ c.kind \in CommandKinds
    /\ c.kind = "register_node" => c.id \in Nat /\ "life" \in DOMAIN c.node
    /\ c.kind = "tablet" => c.tablet.id \in Nat /\ c.tablet.group \in Nat

ASSUME CommandAssumption ==
    /\ Len(Bootstrap) \in Nat
    /\ \A i \in 1..Len(Bootstrap) : WellFormed(Bootstrap[i])
    /\ \A id \in DOMAIN Requests : WellFormed(Requests[id])

VARIABLES
    live,        \* the catalog of the replica that applied the whole log
    standby,     \* the catalog of the replica restored from a snapshot, or None
    answers,     \* request -> the outcome of its first application
    founded      \* how many of the founding commands are applied

vars == <<live, standby, answers, founded>>

Init ==
    /\ live = EmptyCatalog
    /\ standby = None
    /\ answers = NoEntries
    /\ founded = 0

DesiredIn(s) ==
    UNION {{<<s.tablets[b].group, r.id>> : r \in s.placements[b].replicas} : b \in DOMAIN s.placements}

Commit(Command(_)) ==
    /\ live' = Command(live).state
    /\ standby' = IF standby = None THEN None ELSE Command(standby).state

(* A committed entry of one client request: the first delivery or a retry. *)
Submit(id) ==
    LET command(s) == ApplyWithLogicalCommandId(s, id, Requests[id]) IN
    /\ Commit(command)
    /\ answers' = IF id \in DOMAIN answers THEN answers ELSE Put(answers, id, command(live).outcome)

Execute(c) ==
    LET command(s) == ApplyCommand(s, c) IN
    /\ Commit(command)
    /\ UNCHANGED answers

(* Bootstrap: the cluster is initialized and its first nodes register. *)
Found ==
    /\ founded < Len(Bootstrap)
    /\ Execute(Bootstrap[founded + 1])
    /\ founded' = founded + 1

SetLifecycle(n, life) == Execute([kind |-> "lifecycle", id |-> n, life |-> life])

(* The desired placement one edit away: leave some replicas out, add one. *)
EditedPlacement(p, kept, added) ==
    LET replicas == kept \cup added IN
    [p EXCEPT !.epoch    = @ + 1,
              !.factor   = Cardinality({r \in replicas : r.role = "voter"}),
              !.spread   = [d \in Domains |-> 0],
              !.replicas = replicas]

SetPlacement(b, kept, added) ==
    /\ live.placements[b].epoch < MaxEpoch
    /\ Execute([kind |-> "placement", tablet |-> b,
                placement |-> EditedPlacement(live.placements[b], kept, added)])

Retire(b, id, version) ==
    Execute([kind |-> "retire", group |-> live.tablets[b].group, id |-> id,
             epoch |-> live.placements[b].epoch, version |-> version])

(* A lagging or new replica installs a snapshot of the live one. *)
InstallSnapshot ==
    /\ Encodable(live)
    /\ standby' = Restored(live)
    /\ UNCHANGED <<live, answers>>

NewReplicas == {{}} \cup {{[id |-> i, node |-> n, role |-> role]} :
                             i \in 1..MaxReplicaId, n \in Nodes, role \in {"voter", "learner"}}

Serve ==
    \/ \E id \in DOMAIN Requests : Submit(id)
    \/ \E n \in Leaving, i \in DOMAIN Lifecycles : SetLifecycle(n, Lifecycles[i])
    \/ \E b \in DOMAIN live.placements :
          \/ \E kept \in SUBSET live.placements[b].replicas, added \in NewReplicas :
                SetPlacement(b, kept, added)
          \/ \E id \in 1..MaxReplicaId, version \in 1..2 : Retire(b, id, version)
    \/ InstallSnapshot

Next ==
    \/ Found
    \/ founded = Len(Bootstrap) /\ Serve /\ UNCHANGED founded

Spec == Init /\ [][Next]_vars

-----------------------------------------------------------------------------
(* A replica restored from a snapshot and brought up to date holds the catalog
   of the replica that applied every command: MetadataState::from_snapshot
   rebuilds indexes, lifecycles, marks, sessions and cached results. *)
RestoredReplicaAgrees == standby # None => standby = live

(* A retried request changes nothing and gets the answer it got the first time,
   however the catalog moved on (a rejection comes back without its kind). *)
RetryReturnsOriginal ==
    \A id \in DOMAIN answers :
        LET again == ApplyWithLogicalCommandId(live, id, Requests[id]) IN
        /\ again.state = live
        /\ \/ again.outcome = answers[id]
           \/ again.outcome.kind = "rejected" /\ answers[id].kind = "rejected"

(* What left the cluster is owed nothing: no placement names a decommissioned
   node, whether it left before the placement or the placement was made while
   it was leaving, and none names a replica lifetime that has been retired. *)
GoneNodeOwesNothing ==
    /\ \A n \in DOMAIN live.nodes :
         live.nodes[n].life \in {"decommissioned", "tombstoned"} => DesiredOn(live, n) = {}
    /\ \A k \in DOMAIN live.retired : k \notin DesiredIn(live)

=============================================================================
