---------------------------- MODULE GcProtection ----------------------------
(***************************************************************************)
(* The protection of MVCC history against the garbage-collection safe      *)
(* point.                                                                  *)
(*                                                                         *)
(* Every SQL node keeps in its GcProtectionTracker the snapshots of its    *)
(* open transactions, and publishes the smallest of them, with a lease, as *)
(* one protection in the replicated metadata.  Every node also sweeps: it  *)
(* asks the metadata to move the global safe point up to the timestamp     *)
(* frontier, which the metadata clamps to the smallest protection whose    *)
(* lease has not run out.  A node serves a transaction only while its      *)
(* published lease is healthy and, by its own clock, still runs.           *)
(*                                                                         *)
(* A publication holds the tracker's lock until it is answered or gives up *)
(* after the metadata timeout.  A command given up may still be applied    *)
(* later: the node that proposes it to Raft allows it a deadline of its    *)
(* own.  Overtaking says whether it may even be applied after a later      *)
(* command of the same owner, which it can when the two went to different  *)
(* metadata leaders; nothing in a command orders it against the others.    *)
(*                                                                         *)
(* A transaction is identified with its snapshot timestamp.                *)
(***************************************************************************)
EXTENDS Integers, FiniteSets

CONSTANTS Nodes,          \* nodes; each sweeps
          Readers,        \* the nodes that have clients
          Lease,          \* gc_protection_lease_ms
          StatusLease,    \* status_lease_ms
          Skew,           \* max_clock_skew_ms
          ReservationSize,\* timestamps a node reserves at a time
          Overtaking,     \* may commands of one owner be applied out of order
          MaxTime,        \* bound on the clocks
          MaxTimestamp,   \* bound on the timestamp frontier
          MaxLate,        \* bound on the commands given up and still under way
          MaxRestarts,    \* bound on the restarts of one node
          None

ASSUME GcAssumption ==
    /\ Lease \in Nat /\ StatusLease \in Nat /\ Skew \in Nat \ {0}
    /\ StatusLease + Skew <= Lease
    /\ Skew < Lease \div 2
    /\ ReservationSize \in Nat \ {0}
    /\ Overtaking \in BOOLEAN
    /\ Readers \subseteq Nodes
    /\ MaxRestarts \in Nat
    /\ None \notin Nat \cup {"applied", "rejected"} \cup [floor : Nat, deadline : Nat]

VARIABLES
    clock,          \* wall clock of each node
    frontier,       \* timestamp_reserved_until of the metadata
    next_timestamp, \* cursor of each node's timestamp block
    reserved_until, \* end of that block
    gc_safe_point,  \* of the metadata
    gc_protections, \* of the metadata: owner -> floor and lease deadline, or None
    incarnation,    \* restarts of each node; a process draws a fresh owner identity
    active,         \* snapshots of the open transactions of each node
    published,      \* published_floor and published_deadline_ms, or None
    lease_healthy,  \* of each node
    idle_since,     \* is the idle grace period of the node running
    asked,          \* the publication whose answer the node awaits, or None
    reply,          \* its outcome once it is applied, or None
    late            \* commands given up by their node that may still be applied

metadataVars == <<gc_safe_point, gc_protections>>
oracleVars == <<frontier, next_timestamp, reserved_until>>
trackerVars == <<active, published, lease_healthy, idle_since>>
flightVars == <<asked, reply, late>>
vars == <<clock, incarnation, oracleVars, metadataVars, trackerVars, flightVars>>

MinOf(S) == CHOOSE x \in S : \A y \in S : x <= y
Max2(a, b) == IF a >= b THEN a ELSE b

\* The owner identity a process draws at random when it starts.
Owner(n) == <<n, incarnation[n]>>
Owners == Nodes \X (0..MaxRestarts)

Init ==
    /\ clock = [n \in Nodes |-> 0]
    /\ incarnation = [n \in Nodes |-> 0]
    /\ frontier = 0
    /\ next_timestamp = [n \in Nodes |-> 1]
    /\ reserved_until = [n \in Nodes |-> 0]
    /\ gc_safe_point = 0
    /\ gc_protections = [o \in Owners |-> None]
    /\ active = [n \in Nodes |-> {}]
    /\ published = [n \in Nodes |-> None]
    /\ lease_healthy = [n \in Nodes |-> TRUE]
    /\ idle_since = [n \in Nodes |-> FALSE]
    /\ asked = [n \in Nodes |-> None]
    /\ reply = [n \in Nodes |-> None]
    /\ late = {}

----------------------------------------------------------------------------
(***************************************************************************)
(* The metadata state machine.  A command names its owner; a rejected      *)
(* command changes nothing.                                                *)
(***************************************************************************)
\* Mutant: registration does not compare the floor with the safe point.
RegisterUnchecked(c) == gc_protections[c.owner] = None

RegisterGcProtection(c) ==
    /\ c.floor >= gc_safe_point
    /\ gc_protections[c.owner] = None

LeaseAccepts(c) ==
    /\ gc_protections[c.owner] # None
    /\ gc_protections[c.owner].deadline > c.now
    /\ c.deadline >= gc_protections[c.owner].deadline

UpdateGcProtection(c) ==
    /\ c.floor >= gc_safe_point
    /\ LeaseAccepts(c)

RenewGcProtection(c) == LeaseAccepts(c)

Accepts(c) ==
    \/ c.kind = "Register" /\ RegisterGcProtection(c)
    \/ c.kind = "Update" /\ UpdateGcProtection(c)
    \/ c.kind = "Renew" /\ RenewGcProtection(c)
    \/ c.kind = "Release"

\* What an accepted command leaves for its owner.
Protection(c) ==
    CASE c.kind \in {"Register", "Update"} -> [floor |-> c.floor, deadline |-> c.deadline]
      [] c.kind = "Renew" -> [gc_protections[c.owner] EXCEPT !.deadline = c.deadline]
      [] c.kind = "Release" -> None

ApplyCommand(c) ==
    /\ gc_protections' = IF Accepts(c)
                         THEN [gc_protections EXCEPT ![c.owner] = Protection(c)]
                         ELSE gc_protections
    /\ UNCHANGED gc_safe_point

\* The command a node awaits is applied.  Where commands of one owner cannot
\* overtake each other, the ones given up before it are applied by now or lost.
ApplyAsked(n) ==
    /\ asked[n] # None
    /\ reply[n] = None
    /\ ApplyCommand(asked[n].command)
    /\ reply' = [reply EXCEPT ![n] =
                    IF Accepts(asked[n].command) THEN "applied" ELSE "rejected"]
    /\ late' = IF Overtaking THEN late ELSE {c \in late : c.owner # Owner(n)}
    /\ UNCHANGED <<clock, incarnation, oracleVars, trackerVars, asked>>

\* A command its node has given up is applied after all.
ApplyLate(c) ==
    /\ ApplyCommand(c)
    /\ late' = late \ {c}
    /\ UNCHANGED <<clock, incarnation, oracleVars, trackerVars, asked, reply>>

\* The owners whose lease still runs at the proposer's conservative time.
Unexpired(now) ==
    {o \in Owners : gc_protections[o] # None /\ gc_protections[o].deadline > now}

\* candidate, or the smallest floor that is still protected when that is smaller.
Clamped(candidate, now) ==
    MinOf({candidate} \cup {gc_protections[o].floor : o \in Unexpired(now)})

\* The times a sweep can carry: the clock of its proposer less the permitted skew,
\* as it was when the sweep was proposed, possibly long ago.
SweepTimes == UNION {0..Max2(clock[n] - Skew, 0) : n \in Nodes}

\* A sweep of some node is applied.  Its candidate is the frontier that the node's
\* metadata replica showed then; there is none before timestamps are reserved, and
\* one below the safe point is rejected.
AdvanceGcSafePoint ==
    \E blocks \in 1..(frontier \div ReservationSize), now \in SweepTimes :
        LET candidate == blocks * ReservationSize IN
        /\ candidate >= gc_safe_point
        /\ gc_protections' = [o \in Owners |-> IF o \in Unexpired(now)
                                              THEN gc_protections[o] ELSE None]
        /\ gc_safe_point' = Clamped(candidate, now)
        /\ UNCHANGED <<clock, incarnation, oracleVars, trackerVars, flightVars>>

----------------------------------------------------------------------------
(***************************************************************************)
(* The tracker of a node.                                                  *)
(***************************************************************************)
RenewBefore(n) == clock[n] + Lease \div 2 + Skew

\* Registration carries the time too, but the metadata does not look at it.
Register(n, floor, deadline) ==
    [kind |-> "Register", owner |-> Owner(n), floor |-> floor, deadline |-> deadline, now |-> 0]

Update(n, floor, deadline) ==
    [kind |-> "Update", owner |-> Owner(n), floor |-> floor, deadline |-> deadline,
     now |-> clock[n]]

Renew(n, deadline) ==
    [kind |-> "Renew", owner |-> Owner(n), floor |-> 0, deadline |-> deadline,
     now |-> clock[n]]

Release(n) == [kind |-> "Release", owner |-> Owner(n), floor |-> 0, deadline |-> 0, now |-> 0]

\* The node takes its tracker's lock and proposes a command.  txn is the
\* transaction that waits to be admitted, or None for background maintenance.
Publish(n, command, txn) ==
    /\ Cardinality(late) < MaxLate
    /\ asked' = [asked EXCEPT ![n] = [command |-> command, txn |-> txn]]

\* The lease no longer covers a reader comfortably.
NeedsRenewal(n) == ~lease_healthy[n] \/ published[n].deadline <= RenewBefore(n)

\* The snapshot the oracle hands out, past the safe point that the node's own
\* metadata replica, possibly lagging, shows.
Start(n, observed) == Max2(next_timestamp[n], observed + 1)

Allocate(n, observed) ==
    /\ asked[n] = None
    /\ observed \in 0..gc_safe_point
    /\ Start(n, observed) <= reserved_until[n]
    /\ next_timestamp' = [next_timestamp EXCEPT ![n] = Start(n, observed) + 1]
    /\ UNCHANGED <<clock, incarnation, frontier, reserved_until, metadataVars>>

LeaseLapsed(n) == published[n] # None /\ published[n].deadline <= clock[n] + Skew

\* A transaction begins while the published lease has run out: it is refused,
\* and so are the statements of the open ones.
BeginRefused(n, observed) ==
    /\ Allocate(n, observed)
    /\ LeaseLapsed(n)
    /\ lease_healthy' = [lease_healthy EXCEPT ![n] = FALSE]
    /\ UNCHANGED <<active, published, idle_since, flightVars>>

FloorWith(n, start) == MinOf(active[n] \cup {start})

\* The published floor and lease cover the new transaction.
BeginCovered(n, observed) ==
    /\ Allocate(n, observed)
    /\ ~LeaseLapsed(n)
    /\ published[n] # None
    /\ FloorWith(n, Start(n, observed)) >= published[n].floor
    /\ ~NeedsRenewal(n)
    /\ active' = [active EXCEPT ![n] = @ \cup {Start(n, observed)}]
    /\ idle_since' = [idle_since EXCEPT ![n] = FALSE]
    /\ UNCHANGED <<published, lease_healthy, flightVars>>

AdmissionCommand(n, floor) ==
    IF published[n] = None
    THEN Register(n, floor, clock[n] + Lease)
    ELSE IF floor < published[n].floor
         THEN Update(n, floor, Max2(clock[n] + Lease, published[n].deadline))
         ELSE Renew(n, Max2(clock[n] + Lease, published[n].deadline))

\* The new transaction waits for its protection to be registered, lowered or
\* renewed.
BeginPublishes(n, observed) ==
    LET floor == FloorWith(n, Start(n, observed)) IN
    /\ Allocate(n, observed)
    /\ ~LeaseLapsed(n)
    /\ published[n] # None => floor < published[n].floor \/ NeedsRenewal(n)
    /\ Publish(n, AdmissionCommand(n, floor), Start(n, observed))
    /\ UNCHANGED <<trackerVars, reply, late>>

\* Mutant: the grace period is not started.
ReleaseUntimed(n, t) ==
    /\ asked[n] = None
    /\ t \in active[n]
    /\ active' = [active EXCEPT ![n] = @ \ {t}]
    /\ UNCHANGED <<clock, incarnation, oracleVars, metadataVars, published, lease_healthy,
                   idle_since, flightVars>>

\* A transaction ends; the last one starts the idle grace period.
ReleaseLocal(n, t) ==
    /\ asked[n] = None
    /\ t \in active[n]
    /\ active' = [active EXCEPT ![n] = @ \ {t}]
    /\ idle_since' = [idle_since EXCEPT ![n] = @ \/ active[n] = {t}]
    /\ UNCHANGED <<clock, incarnation, oracleVars, metadataVars, published, lease_healthy,
                   flightVars>>

\* Reconciliation with open transactions raises the floor to the oldest of them,
\* or renews the lease.
ReconcileActive(n) ==
    LET floor == MinOf(active[n]) IN
    /\ asked[n] = None
    /\ active[n] # {}
    /\ published[n] # None
    /\ \/ /\ floor > published[n].floor
          /\ Publish(n, Update(n, floor, Max2(clock[n] + Lease, published[n].deadline)), None)
       \/ /\ floor <= published[n].floor
          /\ NeedsRenewal(n)
          /\ Publish(n, Renew(n, clock[n] + Lease), None)
    /\ UNCHANGED <<clock, incarnation, oracleVars, metadataVars, trackerVars, reply, late>>

\* Reconciliation of an idle node releases the protection once the grace period
\* is over, and renews it before.
ReconcileIdle(n) ==
    /\ asked[n] = None
    /\ active[n] = {}
    /\ idle_since[n]
    /\ published[n] # None
    /\ \/ Publish(n, Release(n), None)
       \/ /\ NeedsRenewal(n)
          /\ Publish(n, Renew(n, clock[n] + Lease), None)
    /\ UNCHANGED <<clock, incarnation, oracleVars, metadataVars, trackerVars, reply, late>>

\* The heartbeat of a pending transaction renews the lease before it extends the
\* transaction's own.
HeartbeatRenews(n) ==
    /\ asked[n] = None
    /\ active[n] # {}
    /\ published[n] # None
    /\ clock[n] + StatusLease > published[n].deadline
    /\ Publish(n, Renew(n, clock[n] + StatusLease), None)
    /\ UNCHANGED <<clock, incarnation, oracleVars, metadataVars, trackerVars, reply, late>>

\* What the tracker remembers of a command that was applied.
PublishedAfter(n, c) ==
    CASE c.kind \in {"Register", "Update"} -> [floor |-> c.floor, deadline |-> c.deadline]
      [] c.kind = "Renew" -> [published[n] EXCEPT !.deadline = c.deadline]
      [] c.kind = "Release" -> None

\* The node learns that its command was applied and admits the waiting transaction.
PublishSucceeds(n) ==
    LET c == asked[n].command
        txn == asked[n].txn IN
    /\ asked[n] # None
    /\ reply[n] = "applied"
    /\ published' = [published EXCEPT ![n] = PublishedAfter(n, c)]
    /\ active' = [active EXCEPT ![n] = IF txn = None THEN @ ELSE @ \cup {txn}]
    /\ idle_since' = [idle_since EXCEPT ![n] = @ /\ txn = None /\ c.kind # "Release"]
    /\ lease_healthy' = [lease_healthy EXCEPT ![n] = TRUE]
    /\ asked' = [asked EXCEPT ![n] = None]
    /\ reply' = [reply EXCEPT ![n] = None]
    /\ UNCHANGED <<clock, incarnation, oracleVars, metadataVars, late>>

\* Mutant: a failed release leaves the lease healthy, as a failed registration does.
FailsHealthy(n) ==
    LET c == asked[n].command
        txn == asked[n].txn IN
    /\ asked[n] # None
    /\ lease_healthy' = [lease_healthy EXCEPT ![n] =
                            @ /\ (c.kind = "Register" \/ active[n] = {})]
    /\ late' = IF reply[n] = None THEN late \cup {c} ELSE late
    /\ asked' = [asked EXCEPT ![n] = None]
    /\ reply' = [reply EXCEPT ![n] = None]
    /\ UNCHANGED <<clock, incarnation, oracleVars, metadataVars, active, published, idle_since>>

\* The node is told of a rejection, or gives up: a command not applied by then
\* stays under way, and of one that was applied the answer is lost.
PublishFails(n) ==
    LET c == asked[n].command
        txn == asked[n].txn IN
    /\ asked[n] # None
    /\ lease_healthy' = [lease_healthy EXCEPT ![n] =
                            @ /\ txn # None /\ (c.kind = "Register" \/ active[n] = {})]
    /\ late' = IF reply[n] = None THEN late \cup {c} ELSE late
    /\ asked' = [asked EXCEPT ![n] = None]
    /\ reply' = [reply EXCEPT ![n] = None]
    /\ UNCHANGED <<clock, incarnation, oracleVars, metadataVars, active, published, idle_since>>

----------------------------------------------------------------------------
(***************************************************************************)
(* Timestamp blocks, restarts and time.                                     *)
(***************************************************************************)
\* Refill of the node's timestamp block (module TimestampOracle has the details).
Reserve(n) ==
    /\ n \in Readers
    /\ next_timestamp[n] > reserved_until[n]
    /\ frontier + ReservationSize <= MaxTimestamp
    /\ frontier' = frontier + ReservationSize
    /\ next_timestamp' = [next_timestamp EXCEPT ![n] = Max2(@, frontier + 1)]
    /\ reserved_until' = [reserved_until EXCEPT ![n] = frontier']
    /\ UNCHANGED <<clock, incarnation, metadataVars, trackerVars, flightVars>>

\* A process stops and another starts: the tracker is empty and the owner new.
Restart(n) ==
    /\ n \in Readers
    /\ incarnation[n] < MaxRestarts
    /\ incarnation' = [incarnation EXCEPT ![n] = @ + 1]
    /\ active' = [active EXCEPT ![n] = {}]
    /\ published' = [published EXCEPT ![n] = None]
    /\ lease_healthy' = [lease_healthy EXCEPT ![n] = TRUE]
    /\ idle_since' = [idle_since EXCEPT ![n] = FALSE]
    /\ late' = IF asked[n] # None /\ reply[n] = None
               THEN late \cup {asked[n].command} ELSE late
    /\ asked' = [asked EXCEPT ![n] = None]
    /\ reply' = [reply EXCEPT ![n] = None]
    /\ next_timestamp' = [next_timestamp EXCEPT ![n] = reserved_until[n] + 1]
    /\ UNCHANGED <<clock, frontier, reserved_until, metadataVars>>

\* Wall clocks advance, never further apart than the configured skew.
Tick(n) ==
    /\ clock[n] < MaxTime
    /\ \A m \in Nodes : clock[n] + 1 <= clock[m] + Skew
    /\ clock' = [clock EXCEPT ![n] = @ + 1]
    /\ UNCHANGED <<incarnation, oracleVars, metadataVars, trackerVars, flightVars>>

Begin(n) ==
    \E observed \in 0..gc_safe_point :
        \/ BeginRefused(n, observed)
        \/ BeginCovered(n, observed)
        \/ BeginPublishes(n, observed)

Next ==
    \/ \E n \in Nodes :
          \/ Begin(n)
          \/ \E t \in active[n] : ReleaseLocal(n, t)
          \/ ReconcileActive(n)
          \/ ReconcileIdle(n)
          \/ HeartbeatRenews(n)
          \/ ApplyAsked(n)
          \/ PublishSucceeds(n)
          \/ PublishFails(n)
          \/ Reserve(n)
          \/ Restart(n)
          \/ Tick(n)
    \/ \E c \in late : ApplyLate(c)
    \/ AdvanceGcSafePoint

Spec == Init /\ [][Next]_vars

----------------------------------------------------------------------------
Commands ==
    [kind : {"Register", "Update", "Renew", "Release"}, owner : Owners,
     floor : Nat, deadline : Nat, now : Nat]

Protections == [floor : Nat, deadline : Nat]

\* The state of the tracker, the metadata and the commands under way is well formed.
TypeOK ==
    /\ clock \in [Nodes -> Nat]
    /\ incarnation \in [Nodes -> 0..MaxRestarts]
    /\ frontier \in Nat
    /\ next_timestamp \in [Nodes -> Nat]
    /\ reserved_until \in [Nodes -> Nat]
    /\ gc_safe_point \in Nat
    /\ gc_protections \in [Owners -> Protections \cup {None}]
    /\ active \in [Nodes -> SUBSET Nat]
    /\ published \in [Nodes -> Protections \cup {None}]
    /\ lease_healthy \in [Nodes -> BOOLEAN]
    /\ idle_since \in [Nodes -> BOOLEAN]
    /\ asked \in [Nodes -> [command : Commands, txn : Nat \cup {None}] \cup {None}]
    /\ reply \in [Nodes -> {"applied", "rejected", None}]
    /\ late \in SUBSET Commands

\* remaining_timeout admits a protected statement of the node.
ServesStatements(n) ==
    /\ lease_healthy[n]
    /\ published[n] # None
    /\ clock[n] + Skew < published[n].deadline

\* While a node serves the statements of an open transaction, the safe point has
\* not passed the transaction's snapshot: no read that the node sends out is
\* refused, or loses a version, because history was collected.
ReaderProtected ==
    \A n \in Nodes : \A t \in active[n] : ServesStatements(n) => gc_safe_point <= t

\* The safe point never moves back, although a sweep assigns it the smaller of its
\* candidate and a floor.
SafePointMonotone == [][gc_safe_point' >= gc_safe_point]_vars

\* A node that publishes a floor without having a reader is on its way to release
\* it: its grace period runs (reconciliation ignores an idle node otherwise).
IdleFloorIsTimed ==
    \A n \in Nodes :
        idle_since[n] <=> published[n] # None /\ active[n] = {}
=============================================================================
