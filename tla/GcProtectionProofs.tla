------------------------- MODULE GcProtectionProofs -------------------------
(***************************************************************************)
(* The garbage-collection safe point, the grace period of an idle node, and*)
(* the protection of the readers a node serves, for any number of nodes,   *)
(* any lease, skew and reservation size, and any history of publications,  *)
(* losses, restarts and sweeps.                                            *)
(***************************************************************************)
EXTENDS GcProtection, WellFoundedInduction, TLAPS

(***************************************************************************)
(* The safe point.  It moves forwards because no protection is ever accepted*)
(* below it (SafeFloors), and a sweep takes the smaller of its candidate   *)
(* and the protected floors.                                               *)
(***************************************************************************)
SafeFloors ==
    \A o \in Owners : gc_protections[o] # None => gc_safe_point <= gc_protections[o].floor

\* what a node has asked for
AskOK(n) ==
    /\ asked[n] = None => reply[n] = None
    /\ asked[n] # None =>
         LET c == asked[n].command
             txn == asked[n].txn IN
         /\ c.owner = Owner(n)
         /\ c.kind = "Register" <=> published[n] = None
         /\ c.kind = "Register" => txn # None
         /\ c.kind = "Release" => txn = None /\ active[n] = {}

IdleOK(n) ==
    /\ idle_since[n] <=> published[n] # None /\ active[n] = {}
    /\ active[n] # {} => published[n] # None

BaseInv == TypeOK /\ SafeFloors /\ \A n \in Nodes : AskOK(n) /\ IdleOK(n)

(***************************************************************************)
(* What the actions do                                                     *)
(***************************************************************************)
LEMMA SmallestOf ==
  ASSUME NEW S \in SUBSET Nat, S # {}
  PROVE  MinOf(S) \in S /\ \A y \in S : MinOf(S) <= y
<1> DEFINE R == OpToRel(<, Nat)
<1>1. IsWellFoundedOn(R, Nat)
  BY NatLessThanWellFounded, Zenon
<1>2. \A x, y \in Nat : x < y => <<x, y>> \in R
  BY Zenon DEF OpToRel
<1> HIDE DEF R
<1>3. PICK x \in S : \A y \in S : <<y, x>> \notin R
  BY <1>1, WFMin, Zenon
<1>4. ASSUME NEW y \in S PROVE x <= y
  <2>1. x \in Nat /\ y \in Nat
    OBVIOUS
  <2>2. ~(y < x)
    BY <1>2, <1>3, <2>1, Zenon
  <2> QED
    BY <2>1, <2>2
<1> QED
  BY <1>4, Zenon DEF MinOf

LEMMA OwnerOfNode == ASSUME TypeOK, NEW n \in Nodes PROVE Owner(n) \in Owners
  BY Zenon DEF TypeOK, Owner, Owners

LEMMA Protecting ==
  ASSUME NEW floor \in Nat, NEW deadline \in Nat
  PROVE  LET p == [floor |-> floor, deadline |-> deadline]
         IN  p \in Protections /\ p # None /\ p.floor = floor /\ p.deadline = deadline
  BY GcAssumption DEF Protections

SetsFloor(c) == c.kind \in {"Register", "Update"}

\* The effect of a command on the protection of its owner.
Effect(c) ==
    LET g == gc_protections[c.owner]
        new == gc_protections'[c.owner]
        Sets == /\ c.floor >= gc_safe_point
                /\ new = [floor |-> c.floor, deadline |-> c.deadline]
        Later == g # None /\ c.deadline >= g.deadline
    IN  \/ ~Accepts(c) /\ c.kind # "Release" /\ new = g
        \/ Accepts(c) /\ c.kind = "Register" /\ g = None /\ Sets
        \/ Accepts(c) /\ c.kind = "Update" /\ Later /\ Sets
        \/ Accepts(c) /\ c.kind = "Renew" /\ Later
           /\ new = [floor |-> g.floor, deadline |-> c.deadline]
        \/ Accepts(c) /\ c.kind = "Release" /\ new = None

LEMMA CommandEffect ==
  ASSUME TypeOK, NEW c \in Commands, ApplyCommand(c)
  PROVE  /\ Effect(c)
         /\ \A o \in Owners : o # c.owner => gc_protections'[o] = gc_protections[o]
         /\ gc_protections' \in [Owners -> Protections \cup {None}]
         /\ gc_safe_point' = gc_safe_point
<1> DEFINE g == gc_protections[c.owner]
<1>1. /\ c.owner \in Owners /\ c.kind \in {"Register", "Update", "Renew", "Release"}
      /\ c.floor \in Nat /\ c.deadline \in Nat
      /\ gc_protections \in [Owners -> Protections \cup {None}]
  BY Zenon DEF Commands, TypeOK
<1>2. /\ gc_safe_point' = gc_safe_point
      /\ gc_protections' = IF Accepts(c) THEN [gc_protections EXCEPT ![c.owner] = Protection(c)]
                           ELSE gc_protections
  BY Zenon DEF ApplyCommand
<1>3. CASE ~Accepts(c)
  <2>1. c.kind # "Release" /\ gc_protections' = gc_protections
    BY <1>2, <1>3, Zenon DEF Accepts
  <2> QED
    BY <1>1, <1>2, <1>3, <2>1, Zenon DEF Effect
<1>4. CASE Accepts(c)
  <2>1. gc_protections' = [gc_protections EXCEPT ![c.owner] = Protection(c)]
    BY <1>2, <1>4, Zenon
  <2>2. CASE c.kind = "Register"
    <3>1. /\ Protection(c) = [floor |-> c.floor, deadline |-> c.deadline]
          /\ g = None /\ c.floor >= gc_safe_point
      BY <1>4, <2>2, Zenon DEF Protection, Accepts, RegisterGcProtection
    <3> QED
      BY <1>1, <1>2, <1>4, <2>1, <2>2, <3>1 DEF Effect, Protections
  <2>3. CASE c.kind = "Update"
    <3>1. /\ Protection(c) = [floor |-> c.floor, deadline |-> c.deadline]
          /\ g # None /\ c.floor >= gc_safe_point /\ c.deadline >= g.deadline
      BY <1>4, <2>3, Zenon DEF Protection, Accepts, UpdateGcProtection, LeaseAccepts
    <3> QED
      BY <1>1, <1>2, <1>4, <2>1, <2>3, <3>1 DEF Effect, Protections
  <2>4. CASE c.kind = "Renew"
    <3>1. g # None /\ c.deadline >= g.deadline /\ g \in Protections
      BY <1>1, <1>4, <2>4, Zenon DEF Accepts, RenewGcProtection, LeaseAccepts
    <3>2. Protection(c) = [floor |-> g.floor, deadline |-> c.deadline]
      BY <2>4, <3>1, Zenon DEF Protection, Protections
    <3>3. g.floor \in Nat
      BY <3>1, Zenon DEF Protections
    <3> QED
      BY <1>1, <1>2, <1>4, <2>1, <2>4, <3>1, <3>2, <3>3 DEF Effect, Protections
  <2>5. CASE c.kind = "Release"
    <3>1. Protection(c) = None
      BY <2>5, Zenon DEF Protection
    <3> QED
      BY <1>1, <1>2, <1>4, <2>1, <2>5, <3>1, Zenon DEF Effect
  <2> QED
    BY <1>1, <2>2, <2>3, <2>4, <2>5, Zenon
<1> QED
  BY <1>3, <1>4, Zenon

\* A node proposes a command for its owner, with or without a waiting transaction.
Asks(n, c, txn) ==
    /\ asked[n] = None
    /\ asked' = [asked EXCEPT ![n] = [command |-> c, txn |-> txn]]
    /\ c \in Commands /\ c.owner = Owner(n) /\ txn \in Nat \cup {None}
    /\ c.kind = "Register" <=> published[n] = None
    /\ c.kind = "Register" => txn # None
    /\ c.kind = "Release" => txn = None /\ active[n] = {}
    /\ SetsFloor(c) => /\ c.floor \in active[n] \cup (IF txn = None THEN {} ELSE {txn})
                       /\ \A t \in active[n] : c.floor <= t
                       /\ txn # None => c.floor <= txn
    /\ IF txn = None THEN UNCHANGED next_timestamp
       ELSE /\ next_timestamp[n] <= txn
            /\ next_timestamp' = [next_timestamp EXCEPT ![n] = txn + 1]
    /\ UNCHANGED <<clock, incarnation, frontier, reserved_until, gc_safe_point, gc_protections,
                   active, published, lease_healthy, idle_since, reply, late>>

LEMMA CommandTypes ==
  ASSUME TypeOK, NEW n \in Nodes, NEW floor \in Nat, NEW deadline \in Nat
  PROVE  /\ Register(n, floor, deadline) \in Commands /\ Update(n, floor, deadline) \in Commands
         /\ Renew(n, deadline) \in Commands /\ Release(n) \in Commands
<1>1. Owner(n) \in Owners /\ clock[n] \in Nat
  BY OwnerOfNode, Zenon DEF TypeOK
<1> QED
  BY <1>1, Zenon DEF Register, Update, Renew, Release, Commands

\* The snapshot a transaction gets is not older than the node's cursor.
LEMMA Started ==
  ASSUME TypeOK, NEW n \in Nodes, NEW observed \in 0..gc_safe_point
  PROVE  Start(n, observed) \in Nat /\ next_timestamp[n] <= Start(n, observed)
  BY DEF TypeOK, Start, Max2

LEMMA AskBegin ==
  ASSUME TypeOK, NEW n \in Nodes, NEW observed \in 0..gc_safe_point, BeginPublishes(n, observed)
  PROVE  \E c, txn : Asks(n, c, txn)
<1> DEFINE txn == Start(n, observed)
           floor == FloorWith(n, txn)
           c == AdmissionCommand(n, floor)
<1>1. txn \in Nat /\ next_timestamp[n] <= txn /\ txn # None
  BY Started, GcAssumption, Zenon
<1>2. floor \in active[n] \cup {txn} /\ floor \in Nat
      /\ (\A t \in active[n] : floor <= t) /\ floor <= txn
  <2>1. active[n] \cup {txn} \in SUBSET Nat
    BY <1>1, Zenon DEF TypeOK
  <2> HIDE DEF txn
  <2> QED
    BY <2>1, SmallestOf, Zenon DEF FloorWith
<1>3. /\ asked[n] = None
      /\ asked' = [asked EXCEPT ![n] = [command |-> c, txn |-> txn]]
      /\ next_timestamp' = [next_timestamp EXCEPT ![n] = txn + 1]
      /\ UNCHANGED <<clock, incarnation, frontier, reserved_until, gc_safe_point, gc_protections,
                     active, published, lease_healthy, idle_since, reply, late>>
  BY Zenon DEF BeginPublishes, Allocate, Publish, metadataVars, trackerVars
<1> HIDE DEF floor, txn
<1>4. /\ c \in Commands /\ c.owner = Owner(n) /\ c.kind \in {"Register", "Update", "Renew"}
      /\ c.kind = "Register" <=> published[n] = None
      /\ SetsFloor(c) => c.floor = floor
  <2>1. clock[n] \in Nat /\ Lease \in Nat
        /\ (published[n] # None => published[n].deadline \in Nat)
    BY GcAssumption, Zenon DEF TypeOK, Protections
  <2>2. CASE published[n] = None
    <3>1. c = Register(n, floor, clock[n] + Lease)
      BY <2>2, Zenon DEF AdmissionCommand
    <3>2. clock[n] + Lease \in Nat
      BY <2>1
    <3> HIDE DEF c
    <3> QED
      BY <1>2, <2>2, <3>1, <3>2, CommandTypes, Zenon DEF Register, SetsFloor
  <2>3. CASE published[n] # None
    <3> DEFINE deadline == Max2(clock[n] + Lease, published[n].deadline)
    <3>1. deadline \in Nat
      BY <2>1, <2>3 DEF Max2
    <3>2. c = Update(n, floor, deadline) \/ c = Renew(n, deadline)
      BY <2>3, Zenon DEF AdmissionCommand
    <3> HIDE DEF deadline, c
    <3>3. CASE c = Update(n, floor, deadline)
      BY <1>2, <2>3, <3>1, <3>3, CommandTypes, Zenon DEF Update
    <3>4. CASE c = Renew(n, deadline)
      <4>1. Renew(n, deadline) \in Commands
        BY <1>2, <3>1, CommandTypes, Zenon
      <4> QED
        BY <2>3, <3>4, <4>1, Zenon DEF Renew, SetsFloor
    <3> QED
      BY <3>2, <3>3, <3>4, Zenon
  <2> QED
    BY <2>2, <2>3, Zenon
<1> HIDE DEF c
<1>5. Asks(n, c, txn)
  BY <1>1, <1>2, <1>3, <1>4, Zenon DEF Asks, SetsFloor
<1> QED
  BY <1>5, Zenon

LEMMA AskReconcile ==
  ASSUME TypeOK, NEW n \in Nodes, ReconcileActive(n) \/ ReconcileIdle(n) \/ HeartbeatRenews(n)
  PROVE  \E c, txn : Asks(n, c, txn)
<1>1. /\ asked[n] = None /\ published[n] # None
      /\ UNCHANGED <<clock, incarnation, frontier, reserved_until, gc_safe_point, gc_protections,
                     active, published, lease_healthy, idle_since, reply, late, next_timestamp>>
  BY Zenon DEF ReconcileActive, ReconcileIdle, HeartbeatRenews, oracleVars, metadataVars, trackerVars
<1>2. /\ clock[n] \in Nat /\ Lease \in Nat /\ StatusLease \in Nat /\ published[n].deadline \in Nat
      /\ active[n] \in SUBSET Nat
  BY <1>1, GcAssumption, Zenon DEF TypeOK, Protections
\* a renewal carries no floor
<1>3. ASSUME NEW deadline \in Nat, Publish(n, Renew(n, deadline), None)
      PROVE  \E c, txn : Asks(n, c, txn)
  <2> DEFINE c == Renew(n, deadline)
  <2>1. c \in Commands /\ c.owner = Owner(n) /\ c.kind = "Renew"
    BY CommandTypes, Zenon DEF Renew
  <2> HIDE DEF c
  <2>2. asked' = [asked EXCEPT ![n] = [command |-> c, txn |-> None]]
    BY <1>3, Zenon DEF Publish, c
  <2>3. Asks(n, c, None)
    BY <1>1, <2>1, <2>2, Zenon DEF Asks, SetsFloor
  <2> QED
    BY <2>3, Zenon
<1>4. CASE ReconcileActive(n)
  <2> DEFINE floor == MinOf(active[n])
             deadline == Max2(clock[n] + Lease, published[n].deadline)
             c == Update(n, floor, deadline)
  <2>1. floor \in active[n] /\ floor \in Nat /\ \A t \in active[n] : floor <= t
    BY <1>2, <1>4, SmallestOf, Zenon DEF ReconcileActive
  <2>2. deadline \in Nat /\ clock[n] + Lease \in Nat
    BY <1>2 DEF Max2
  <2>3. Publish(n, c, None) \/ Publish(n, Renew(n, clock[n] + Lease), None)
    BY <1>4, Zenon DEF ReconcileActive
  <2> HIDE DEF floor, deadline
  <2>4. c \in Commands /\ c.owner = Owner(n) /\ c.kind = "Update" /\ c.floor = floor
    BY <2>1, <2>2, CommandTypes, Zenon DEF Update
  <2> HIDE DEF c
  <2>5. CASE Publish(n, c, None)
    <3>1. asked' = [asked EXCEPT ![n] = [command |-> c, txn |-> None]]
      BY <2>5, Zenon DEF Publish
    <3>2. Asks(n, c, None)
      BY <1>1, <2>1, <2>4, <3>1, Zenon DEF Asks, SetsFloor
    <3> QED
      BY <3>2, Zenon
  <2> QED
    BY <1>3, <2>2, <2>3, <2>5, Zenon
<1>5. CASE ReconcileIdle(n)
  <2> DEFINE c == Release(n)
  <2>1. c \in Commands /\ c.owner = Owner(n) /\ c.kind = "Release"
    BY CommandTypes, Zenon DEF Release
  <2>2. active[n] = {} /\ (Publish(n, c, None) \/ Publish(n, Renew(n, clock[n] + Lease), None))
        /\ clock[n] + Lease \in Nat
    BY <1>2, <1>5 DEF ReconcileIdle
  <2> HIDE DEF c
  <2>3. CASE Publish(n, c, None)
    <3>1. asked' = [asked EXCEPT ![n] = [command |-> c, txn |-> None]]
      BY <2>3, Zenon DEF Publish
    <3>2. Asks(n, c, None)
      BY <1>1, <2>1, <2>2, <3>1, Zenon DEF Asks, SetsFloor
    <3> QED
      BY <3>2, Zenon
  <2> QED
    BY <1>3, <2>2, <2>3, Zenon
<1>6. CASE HeartbeatRenews(n)
  <2>1. Publish(n, Renew(n, clock[n] + StatusLease), None) /\ clock[n] + StatusLease \in Nat
    BY <1>2, <1>6 DEF HeartbeatRenews
  <2> QED
    BY <1>3, <2>1, Zenon
<1> QED
  BY <1>4, <1>5, <1>6, Zenon

(***************************************************************************)
(* The safe point, and the grace period of an idle node                    *)
(***************************************************************************)
LEMMA BaseInit == Init => BaseInv
<1> SUFFICES ASSUME Init PROVE BaseInv
  OBVIOUS
<1>1. TypeOK
  BY GcAssumption DEF Init, TypeOK
<1>2. SafeFloors
  BY Zenon DEF Init, SafeFloors
<1>3. ASSUME NEW n \in Nodes PROVE AskOK(n) /\ IdleOK(n)
  BY Zenon DEF Init, AskOK, IdleOK
<1> QED
  BY <1>1, <1>2, <1>3, Zenon DEF BaseInv

\* A sweep leaves the safe point between its old value and every floor.
LEMMA Sweep ==
  ASSUME TypeOK, SafeFloors, AdvanceGcSafePoint
  PROVE  \E now \in SweepTimes :
           /\ gc_safe_point' \in Nat /\ gc_safe_point <= gc_safe_point'
           /\ gc_protections' = [o \in Owners |-> IF o \in Unexpired(now)
                                                  THEN gc_protections[o] ELSE None]
           /\ \A o \in Unexpired(now) : gc_safe_point' <= gc_protections[o].floor
           /\ UNCHANGED <<clock, incarnation, frontier, next_timestamp, reserved_until, active,
                          published, lease_healthy, idle_since, asked, reply, late>>
<1>1. PICK blocks \in 1..(frontier \div ReservationSize), now \in SweepTimes :
        /\ blocks * ReservationSize >= gc_safe_point
        /\ gc_protections' = [o \in Owners |-> IF o \in Unexpired(now)
                                               THEN gc_protections[o] ELSE None]
        /\ gc_safe_point' = Clamped(blocks * ReservationSize, now)
        /\ UNCHANGED <<clock, incarnation, oracleVars, trackerVars, flightVars>>
  BY Zenon DEF AdvanceGcSafePoint
<1> DEFINE candidate == blocks * ReservationSize
           S == {candidate} \cup {gc_protections[o].floor : o \in Unexpired(now)}
<1>2. candidate \in Nat
  <2>1. ReservationSize \in Nat \ {0} /\ frontier \in Nat
    BY GcAssumption, Zenon DEF TypeOK
  <2>2. blocks \in Nat
    BY <2>1
  <2> QED
    BY <2>1, <2>2
<1>3. candidate >= gc_safe_point /\ gc_safe_point' = MinOf(S)
  BY <1>1, Zenon DEF Clamped
<1> HIDE DEF candidate
<1>4. \A o \in Unexpired(now) : /\ gc_protections[o].floor \in Nat
                                /\ gc_safe_point <= gc_protections[o].floor
  BY Zenon DEF Unexpired, SafeFloors, TypeOK, Protections
<1>5. S \in SUBSET Nat /\ S # {}
  BY <1>2, <1>4, Zenon
<1>6. MinOf(S) \in S /\ \A y \in S : MinOf(S) <= y
  BY <1>5, SmallestOf, Zenon
<1>7. gc_safe_point' \in Nat /\ gc_safe_point <= gc_safe_point'
  BY <1>2, <1>3, <1>4, <1>6, Zenon
<1>8. \A o \in Unexpired(now) : gc_safe_point' <= gc_protections[o].floor
  BY <1>3, <1>6, Zenon
<1> QED
  BY <1>1, <1>7, <1>8, Zenon DEF oracleVars, trackerVars, flightVars

\* A node to whose tracker nothing happens.
LEMMA NodeKept ==
  ASSUME NEW m \in Nodes, AskOK(m), IdleOK(m), incarnation'[m] = incarnation[m],
         asked'[m] = asked[m], reply'[m] = reply[m], published'[m] = published[m],
         active'[m] = active[m], idle_since'[m] = idle_since[m]
  PROVE  AskOK(m)' /\ IdleOK(m)'
  BY Zenon DEF AskOK, IdleOK, Owner

LEMMA BaseStep == ASSUME BaseInv, [Next]_vars PROVE BaseInv'
<1>0. TypeOK /\ SafeFloors /\ \A m \in Nodes : AskOK(m) /\ IdleOK(m)
  BY Zenon DEF BaseInv
<1>1. /\ clock \in [Nodes -> Nat] /\ incarnation \in [Nodes -> 0..MaxRestarts]
      /\ next_timestamp \in [Nodes -> Nat] /\ reserved_until \in [Nodes -> Nat]
      /\ active \in [Nodes -> SUBSET Nat]
      /\ published \in [Nodes -> Protections \cup {None}]
      /\ lease_healthy \in [Nodes -> BOOLEAN] /\ idle_since \in [Nodes -> BOOLEAN]
      /\ asked \in [Nodes -> [command : Commands, txn : Nat \cup {None}] \cup {None}]
      /\ reply \in [Nodes -> {"applied", "rejected", None}]
  BY <1>0, Zenon DEF TypeOK
<1>2. ASSUME UNCHANGED <<gc_safe_point, gc_protections>> PROVE SafeFloors'
  BY <1>0, <1>2, Zenon DEF SafeFloors
<1>3. ASSUME NEW n \in Nodes, NEW c, NEW txn, Asks(n, c, txn) PROVE BaseInv'
  <2>1. /\ asked'[n] = [command |-> c, txn |-> txn] /\ asked' \in [Nodes ->
             [command : Commands, txn : Nat \cup {None}] \cup {None}]
        /\ \A m \in Nodes \ {n} : asked'[m] = asked[m]
    BY <1>1, <1>3, Zenon DEF Asks
  <2>2. next_timestamp' \in [Nodes -> Nat]
    BY <1>1, <1>3 DEF Asks
  <2>3. UNCHANGED <<clock, incarnation, frontier, reserved_until, gc_safe_point, gc_protections,
                    active, published, lease_healthy, idle_since, reply, late>>
    BY <1>3, Zenon DEF Asks
  <2>4. TypeOK'
    BY <1>0, <2>1, <2>2, <2>3, Zenon DEF TypeOK
  <2>5. ASSUME NEW m \in Nodes, m # n PROVE AskOK(m)' /\ IdleOK(m)'
    BY <1>0, <2>1, <2>3, <2>5, NodeKept, Zenon
  <2>6. IdleOK(n)'
    BY <1>0, <2>3, Zenon DEF IdleOK
  <2>7. AskOK(n)'
    <3>1. asked'[n].command = c /\ asked'[n].txn = txn /\ reply[n] = None
      BY <1>0, <1>3, <2>1, Zenon DEF Asks, AskOK
    <3> QED
      BY <1>3, <2>3, <3>1, Zenon DEF Asks, AskOK, Owner
  <2> QED
    BY <1>2, <2>3, <2>4, <2>5, <2>6, <2>7, Zenon DEF BaseInv
<1>4. ASSUME NEW n \in Nodes, NEW observed \in 0..gc_safe_point, BeginRefused(n, observed)
      PROVE  BaseInv'
  <2>1. /\ next_timestamp' = [next_timestamp EXCEPT ![n] = Start(n, observed) + 1]
        /\ lease_healthy' = [lease_healthy EXCEPT ![n] = FALSE]
        /\ UNCHANGED <<clock, incarnation, frontier, reserved_until, gc_safe_point, gc_protections,
                       active, published, idle_since, asked, reply, late>>
    BY <1>4, Zenon DEF BeginRefused, Allocate, metadataVars, flightVars
  <2>2. next_timestamp' \in [Nodes -> Nat] /\ lease_healthy' \in [Nodes -> BOOLEAN]
    BY <1>0, <1>1, <2>1, Started
  <2>3. TypeOK'
    BY <1>0, <2>1, <2>2, Zenon DEF TypeOK
  <2> QED
    BY <1>0, <1>2, <2>1, <2>3, NodeKept, Zenon DEF BaseInv
<1>5. ASSUME NEW n \in Nodes, NEW observed \in 0..gc_safe_point, BeginCovered(n, observed)
      PROVE  BaseInv'
  <2> DEFINE txn == Start(n, observed)
  <2>0. txn \in Nat
    BY <1>0, Started, Zenon
  <2> HIDE DEF txn
  <2>1. /\ next_timestamp' = [next_timestamp EXCEPT ![n] = txn + 1]
        /\ active' = [active EXCEPT ![n] = @ \cup {txn}]
        /\ idle_since' = [idle_since EXCEPT ![n] = FALSE] /\ asked[n] = None /\ published[n] # None
        /\ UNCHANGED <<clock, incarnation, frontier, reserved_until, gc_safe_point, gc_protections,
                       lease_healthy, published, asked, reply, late>>
    BY <1>5, Zenon DEF BeginCovered, Allocate, metadataVars, flightVars, txn
  <2>2. /\ next_timestamp' \in [Nodes -> Nat] /\ active' \in [Nodes -> SUBSET Nat]
        /\ idle_since' \in [Nodes -> BOOLEAN]
        /\ \A m \in Nodes \ {n} : active'[m] = active[m] /\ idle_since'[m] = idle_since[m]
        /\ txn \in active'[n] /\ ~idle_since'[n]
    BY <1>1, <2>0, <2>1
  <2>3. TypeOK'
    BY <1>0, <2>1, <2>2, Zenon DEF TypeOK
  <2>4. ASSUME NEW m \in Nodes, m # n PROVE AskOK(m)' /\ IdleOK(m)'
    BY <1>0, <2>1, <2>2, <2>4, NodeKept, Zenon
  <2>5. AskOK(n)' /\ IdleOK(n)'
    BY <1>0, <2>1, <2>2, Zenon DEF AskOK, IdleOK
  <2> QED
    BY <1>2, <2>1, <2>3, <2>4, <2>5, Zenon DEF BaseInv
<1>6. ASSUME NEW n \in Nodes, NEW t \in active[n], ReleaseLocal(n, t) PROVE BaseInv'
  <2>1. /\ active' = [active EXCEPT ![n] = @ \ {t}] /\ asked[n] = None
        /\ idle_since' = [idle_since EXCEPT ![n] = @ \/ active[n] = {t}]
        /\ UNCHANGED <<clock, incarnation, frontier, next_timestamp, reserved_until, gc_safe_point,
                       gc_protections, lease_healthy, published, asked, reply, late>>
    BY <1>6, Zenon DEF ReleaseLocal, oracleVars, metadataVars, flightVars
  <2>2. /\ active' \in [Nodes -> SUBSET Nat] /\ idle_since' \in [Nodes -> BOOLEAN]
        /\ \A m \in Nodes \ {n} : active'[m] = active[m] /\ idle_since'[m] = idle_since[m]
        /\ active'[n] = active[n] \ {t}
        /\ idle_since'[n] <=> idle_since[n] \/ active[n] = {t}
    BY <1>1, <2>1, Zenon
  <2>3. TypeOK'
    BY <1>0, <2>1, <2>2, Zenon DEF TypeOK
  <2>4. ASSUME NEW m \in Nodes, m # n PROVE AskOK(m)' /\ IdleOK(m)'
    BY <1>0, <2>1, <2>2, <2>4, NodeKept, Zenon
  <2>5. AskOK(n)' /\ IdleOK(n)'
    BY <1>0, <2>1, <2>2, Zenon DEF AskOK, IdleOK
  <2> QED
    BY <1>2, <2>1, <2>3, <2>4, <2>5, Zenon DEF BaseInv
\* a command is applied
<1>7. ASSUME NEW c \in Commands, ApplyCommand(c),
             reply' \in [Nodes -> {"applied", "rejected", None}], late' \in SUBSET Commands,
             \A m \in Nodes : reply'[m] # reply[m] => asked[m] # None,
             UNCHANGED <<clock, incarnation, oracleVars, trackerVars, asked>>
      PROVE  BaseInv'
  <2>1. /\ Effect(c) /\ gc_safe_point' = gc_safe_point
        /\ \A o \in Owners : o # c.owner => gc_protections'[o] = gc_protections[o]
        /\ gc_protections' \in [Owners -> Protections \cup {None}]
    BY <1>0, <1>7, CommandEffect, Zenon
  <2>2. TypeOK'
    BY <1>0, <1>7, <2>1, Zenon DEF TypeOK, oracleVars, trackerVars
  <2>3. c.owner \in Owners /\ c.floor \in Nat /\ c.deadline \in Nat /\ gc_safe_point \in Nat
    BY <1>0, Zenon DEF Commands, TypeOK
  <2>4. gc_protections'[c.owner] # None => gc_safe_point <= gc_protections'[c.owner].floor
    BY <1>0, <2>1, <2>3 DEF Effect, SafeFloors
  <2>5. SafeFloors'
    BY <1>0, <2>1, <2>4, Zenon DEF SafeFloors
  <2>6. \A m \in Nodes : AskOK(m)' /\ IdleOK(m)'
    BY <1>0, <1>7, Zenon DEF AskOK, IdleOK, Owner, trackerVars
  <2> QED
    BY <2>2, <2>5, <2>6, Zenon DEF BaseInv
<1>8. ASSUME NEW n \in Nodes, ApplyAsked(n) PROVE BaseInv'
  <2>1. /\ asked[n] # None /\ ApplyCommand(asked[n].command) /\ asked[n].command \in Commands
        /\ reply' = [reply EXCEPT ![n] =
                       IF Accepts(asked[n].command) THEN "applied" ELSE "rejected"]
        /\ late' \in SUBSET Commands
        /\ UNCHANGED <<clock, incarnation, oracleVars, trackerVars, asked>>
    BY <1>0, <1>1, <1>8, Zenon DEF ApplyAsked, TypeOK
  <2>2. reply' \in [Nodes -> {"applied", "rejected", None}]
        /\ \A m \in Nodes : reply'[m] # reply[m] => asked[m] # None
    BY <1>1, <2>1, Zenon
  <2> QED
    BY <1>7, <2>1, <2>2, Zenon
<1>9. ASSUME NEW c \in late, ApplyLate(c) PROVE BaseInv'
  <2>1. /\ ApplyCommand(c) /\ c \in Commands /\ late' \in SUBSET Commands /\ reply' = reply
        /\ UNCHANGED <<clock, incarnation, oracleVars, trackerVars, asked>>
    BY <1>0, <1>9, Zenon DEF ApplyLate, TypeOK
  <2> QED
    BY <1>1, <1>7, <2>1, Zenon
<1>10. ASSUME AdvanceGcSafePoint PROVE BaseInv'
  <2>1. PICK now \in SweepTimes :
           /\ gc_safe_point' \in Nat /\ gc_safe_point <= gc_safe_point'
           /\ gc_protections' = [o \in Owners |-> IF o \in Unexpired(now)
                                                  THEN gc_protections[o] ELSE None]
           /\ \A o \in Unexpired(now) : gc_safe_point' <= gc_protections[o].floor
           /\ UNCHANGED <<clock, incarnation, frontier, next_timestamp, reserved_until, active,
                          published, lease_healthy, idle_since, asked, reply, late>>
    BY <1>0, <1>10, Sweep, Zenon
  <2>2. gc_protections' \in [Owners -> Protections \cup {None}]
    BY <1>0, <2>1, Zenon DEF TypeOK
  <2>3. TypeOK'
    BY <1>0, <2>1, <2>2, Zenon DEF TypeOK
  <2>4. SafeFloors'
    BY <2>1, Zenon DEF SafeFloors
  <2> QED
    BY <1>0, <2>1, <2>3, <2>4, NodeKept, Zenon DEF BaseInv
<1>11. ASSUME NEW n \in Nodes, PublishSucceeds(n) PROVE BaseInv'
  <2> DEFINE c == asked[n].command
             txn == asked[n].txn
             p == PublishedAfter(n, c)
  <2>1. /\ asked[n] # None
        /\ published' = [published EXCEPT ![n] = p]
        /\ active' = [active EXCEPT ![n] = IF txn = None THEN @ ELSE @ \cup {txn}]
        /\ idle_since' = [idle_since EXCEPT ![n] = @ /\ txn = None /\ c.kind # "Release"]
        /\ lease_healthy' = [lease_healthy EXCEPT ![n] = TRUE]
        /\ asked' = [asked EXCEPT ![n] = None] /\ reply' = [reply EXCEPT ![n] = None]
        /\ UNCHANGED <<clock, incarnation, frontier, next_timestamp, reserved_until, gc_safe_point,
                       gc_protections, late>>
    BY <1>11, Zenon DEF PublishSucceeds, oracleVars, metadataVars
  <2>2. c \in Commands /\ txn \in Nat \cup {None}
        /\ c.kind \in {"Register", "Update", "Renew", "Release"}
    BY <1>1, <2>1, Zenon DEF Commands
  <2>3. /\ c.kind = "Register" <=> published[n] = None
        /\ c.kind = "Register" => txn # None
        /\ c.kind = "Release" => txn = None /\ active[n] = {}
    BY <1>0, <2>1, Zenon DEF AskOK
  <2>4. c.kind = "Release" => p = None
    BY Zenon DEF PublishedAfter
  <2>5. c.kind # "Release" => p \in Protections /\ p # None
    <3>1. c.floor \in Nat /\ c.deadline \in Nat
      BY <2>2, Zenon DEF Commands
    <3>2. CASE c.kind \in {"Register", "Update"}
      <4>1. p = [floor |-> c.floor, deadline |-> c.deadline]
        BY <3>2, Zenon DEF PublishedAfter
      <4> QED
        BY <3>1, <4>1, Protecting
    <3>3. CASE c.kind = "Renew"
      <4>1. published[n] \in Protections
        BY <1>1, <2>3, <3>3, Zenon
      <4>2. published[n].floor \in Nat
            /\ p = [floor |-> published[n].floor, deadline |-> c.deadline]
        BY <3>3, <4>1, Zenon DEF PublishedAfter, Protections
      <4> QED
        BY <3>1, <4>2, Protecting
    <3> QED
      BY <2>2, <3>2, <3>3, Zenon
  <2> HIDE DEF p, c, txn
  <2>6. /\ published' \in [Nodes -> Protections \cup {None}] /\ active' \in [Nodes -> SUBSET Nat]
        /\ idle_since' \in [Nodes -> BOOLEAN] /\ lease_healthy' \in [Nodes -> BOOLEAN]
        /\ asked' \in [Nodes -> [command : Commands, txn : Nat \cup {None}] \cup {None}]
        /\ reply' \in [Nodes -> {"applied", "rejected", None}]
    BY <1>1, <2>1, <2>2, <2>4, <2>5, Zenon
  <2>7. TypeOK'
    BY <1>0, <2>1, <2>6, Zenon DEF TypeOK
  <2>8. ASSUME NEW m \in Nodes, m # n PROVE AskOK(m)' /\ IdleOK(m)'
    <3>1. /\ published'[m] = published[m] /\ active'[m] = active[m] /\ asked'[m] = asked[m]
          /\ idle_since'[m] = idle_since[m] /\ reply'[m] = reply[m]
      BY <1>1, <2>1, <2>8, Zenon
    <3> QED
      BY <1>0, <2>1, <3>1, NodeKept, Zenon
  <2>9. /\ published'[n] = p /\ active'[n] = IF txn = None THEN active[n] ELSE active[n] \cup {txn}
        /\ idle_since'[n] <=> idle_since[n] /\ txn = None /\ c.kind # "Release"
        /\ asked'[n] = None /\ reply'[n] = None
    BY <1>1, <2>1, Zenon
  <2>10. AskOK(n)'
    BY <2>9, Zenon DEF AskOK
  <2>11. IdleOK(n)'
    BY <1>0, <2>2, <2>3, <2>4, <2>5, <2>9, Zenon DEF IdleOK
  <2> QED
    BY <1>2, <2>1, <2>7, <2>8, <2>10, <2>11, Zenon DEF BaseInv
<1>12. ASSUME NEW n \in Nodes, PublishFails(n) PROVE BaseInv'
  <2>1. /\ asked' = [asked EXCEPT ![n] = None] /\ reply' = [reply EXCEPT ![n] = None]
        /\ lease_healthy' \in [Nodes -> BOOLEAN] /\ late' \in SUBSET Commands
        /\ UNCHANGED <<clock, incarnation, frontier, next_timestamp, reserved_until, gc_safe_point,
                       gc_protections, active, published, idle_since>>
    <3>1. asked[n].command \in Commands
      BY <1>1, <1>12, Zenon DEF PublishFails
    <3> QED
      BY <1>0, <1>1, <1>12, <3>1, Zenon DEF PublishFails, TypeOK, oracleVars, metadataVars
  <2>2. /\ asked' \in [Nodes -> [command : Commands, txn : Nat \cup {None}] \cup {None}]
        /\ reply' \in [Nodes -> {"applied", "rejected", None}]
        /\ \A m \in Nodes \ {n} : asked'[m] = asked[m] /\ reply'[m] = reply[m]
        /\ asked'[n] = None /\ reply'[n] = None
    BY <1>1, <2>1, Zenon
  <2>3. TypeOK'
    BY <1>0, <2>1, <2>2, Zenon DEF TypeOK
  <2>4. ASSUME NEW m \in Nodes, m # n PROVE AskOK(m)' /\ IdleOK(m)'
    BY <1>0, <2>1, <2>2, <2>4, NodeKept, Zenon
  <2>5. AskOK(n)' /\ IdleOK(n)'
    BY <1>0, <2>1, <2>2, Zenon DEF AskOK, IdleOK
  <2> QED
    BY <1>2, <2>1, <2>3, <2>4, <2>5, Zenon DEF BaseInv
<1>13. ASSUME NEW n \in Nodes, Restart(n) PROVE BaseInv'
  <2>1. /\ incarnation' = [incarnation EXCEPT ![n] = @ + 1] /\ incarnation[n] < MaxRestarts
        /\ active' = [active EXCEPT ![n] = {}] /\ published' = [published EXCEPT ![n] = None]
        /\ lease_healthy' = [lease_healthy EXCEPT ![n] = TRUE]
        /\ idle_since' = [idle_since EXCEPT ![n] = FALSE]
        /\ asked' = [asked EXCEPT ![n] = None] /\ reply' = [reply EXCEPT ![n] = None]
        /\ next_timestamp' = [next_timestamp EXCEPT ![n] = reserved_until[n] + 1]
        /\ UNCHANGED <<clock, frontier, reserved_until, gc_safe_point, gc_protections>>
    BY <1>13, Zenon DEF Restart, metadataVars
  <2>2. late' \in SUBSET Commands
    BY <1>0, <1>1, <1>13, Zenon DEF Restart, TypeOK
  <2>3. /\ incarnation' \in [Nodes -> 0..MaxRestarts] /\ active' \in [Nodes -> SUBSET Nat]
        /\ published' \in [Nodes -> Protections \cup {None}]
        /\ lease_healthy' \in [Nodes -> BOOLEAN] /\ idle_since' \in [Nodes -> BOOLEAN]
        /\ asked' \in [Nodes -> [command : Commands, txn : Nat \cup {None}] \cup {None}]
        /\ reply' \in [Nodes -> {"applied", "rejected", None}]
        /\ next_timestamp' \in [Nodes -> Nat]
    BY <1>1, <2>1, GcAssumption
  <2>4. TypeOK'
    BY <1>0, <2>1, <2>2, <2>3, Zenon DEF TypeOK
  <2>5. ASSUME NEW m \in Nodes, m # n PROVE AskOK(m)' /\ IdleOK(m)'
    <3>1. /\ published'[m] = published[m] /\ active'[m] = active[m] /\ asked'[m] = asked[m]
          /\ idle_since'[m] = idle_since[m] /\ reply'[m] = reply[m]
          /\ incarnation'[m] = incarnation[m]
      BY <1>1, <2>1, <2>5, Zenon
    <3> QED
      BY <1>0, <3>1, NodeKept, Zenon
  <2>6. AskOK(n)' /\ IdleOK(n)'
    BY <1>1, <2>1, Zenon DEF AskOK, IdleOK
  <2> QED
    BY <1>2, <2>1, <2>4, <2>5, <2>6, Zenon DEF BaseInv
<1>14. ASSUME NEW n \in Nodes, Reserve(n) PROVE BaseInv'
  <2>1. /\ frontier' = frontier + ReservationSize
        /\ next_timestamp' = [next_timestamp EXCEPT ![n] = Max2(@, frontier + 1)]
        /\ reserved_until' = [reserved_until EXCEPT ![n] = frontier']
        /\ UNCHANGED <<clock, incarnation, gc_safe_point, gc_protections, active, published,
                       lease_healthy, idle_since, asked, reply, late>>
    BY <1>14, Zenon DEF Reserve, metadataVars, trackerVars, flightVars
  <2>2. frontier' \in Nat /\ next_timestamp' \in [Nodes -> Nat] /\ reserved_until' \in [Nodes -> Nat]
    BY <1>0, <1>1, <2>1, GcAssumption DEF TypeOK, Max2
  <2>3. TypeOK'
    BY <1>0, <2>1, <2>2, Zenon DEF TypeOK
  <2> QED
    BY <1>0, <1>2, <2>1, <2>3, NodeKept, Zenon DEF BaseInv
<1>15. ASSUME NEW n \in Nodes, Tick(n) PROVE BaseInv'
  <2>1. /\ clock' = [clock EXCEPT ![n] = @ + 1]
        /\ UNCHANGED <<incarnation, frontier, next_timestamp, reserved_until, gc_safe_point,
                       gc_protections, active, published, lease_healthy, idle_since, asked,
                       reply, late>>
    BY <1>15, Zenon DEF Tick, oracleVars, metadataVars, trackerVars, flightVars
  <2>2. clock' \in [Nodes -> Nat]
    BY <1>1, <2>1
  <2>3. TypeOK'
    BY <1>0, <2>1, <2>2, Zenon DEF TypeOK
  <2> QED
    BY <1>0, <1>2, <2>1, <2>3, NodeKept, Zenon DEF BaseInv
<1>16. ASSUME UNCHANGED vars PROVE BaseInv'
  <2>1. UNCHANGED <<clock, incarnation, frontier, next_timestamp, reserved_until, gc_safe_point,
                    gc_protections, active, published, lease_healthy, idle_since, asked, reply, late>>
    BY <1>16, Zenon DEF vars, oracleVars, metadataVars, trackerVars, flightVars
  <2>2. TypeOK'
    BY <1>0, <2>1, Zenon DEF TypeOK
  <2> QED
    BY <1>0, <1>2, <2>1, <2>2, NodeKept, Zenon DEF BaseInv
<1>17. ASSUME NEW n \in Nodes, Begin(n) PROVE BaseInv'
  <2>1. PICK observed \in 0..gc_safe_point :
          BeginRefused(n, observed) \/ BeginCovered(n, observed) \/ BeginPublishes(n, observed)
    BY <1>17, Zenon DEF Begin
  <2>2. CASE BeginPublishes(n, observed)
    BY <1>0, <1>3, <2>2, AskBegin, Zenon
  <2> QED
    BY <1>4, <1>5, <2>1, <2>2, Zenon
<1>18. ASSUME NEW n \in Nodes, ReconcileActive(n) \/ ReconcileIdle(n) \/ HeartbeatRenews(n)
       PROVE  BaseInv'
  BY <1>0, <1>3, <1>18, AskReconcile, Zenon
<1> QED
  BY <1>6, <1>8, <1>9, <1>10, <1>11, <1>12, <1>13, <1>14, <1>15, <1>16, <1>17, <1>18, Zenon DEF Next

LEMMA Base == Spec => []BaseInv
  BY BaseInit, BaseStep, PTL DEF Spec

\* A node that publishes a floor without a reader has its grace period running, so
\* that reconciliation will release the floor (`release_local`,
\* `reconcile_with_publish`).
THEOREM IdleFloorsAreTimed == Spec => []IdleFloorIsTimed
<1>1. BaseInv => IdleFloorIsTimed
  BY Zenon DEF BaseInv, IdleOK, IdleFloorIsTimed
<1> QED
  BY <1>1, Base, PTL

\* Only a sweep moves the safe point.
LEMMA SafePointStep == ASSUME BaseInv, [Next]_vars PROVE gc_safe_point' >= gc_safe_point
<1>0. gc_safe_point \in Nat /\ TypeOK /\ SafeFloors
  BY Zenon DEF BaseInv, TypeOK
<1>1. CASE AdvanceGcSafePoint
  <2>1. gc_safe_point' \in Nat /\ gc_safe_point <= gc_safe_point'
    BY <1>0, <1>1, Sweep, Zenon
  <2> QED
    BY <1>0, <2>1, Zenon
<1>2. CASE UNCHANGED gc_safe_point
  BY <1>0, <1>2
<1>3. ASSUME ~AdvanceGcSafePoint PROVE UNCHANGED gc_safe_point
  <2>1. ASSUME NEW n \in Nodes, Begin(n) PROVE UNCHANGED gc_safe_point
    BY <2>1, Zenon DEF Begin, BeginRefused, BeginCovered, BeginPublishes, Allocate, metadataVars
  <2>2. ASSUME NEW n \in Nodes, (\E t \in active[n] : ReleaseLocal(n, t)) \/ ReconcileActive(n)
                   \/ ReconcileIdle(n) \/ HeartbeatRenews(n) \/ ApplyAsked(n)
                   \/ PublishSucceeds(n) \/ PublishFails(n)
        PROVE  UNCHANGED gc_safe_point
    BY <2>2, Zenon DEF ReleaseLocal, ReconcileActive, ReconcileIdle, HeartbeatRenews, ApplyAsked,
                ApplyCommand, PublishSucceeds, PublishFails, metadataVars
  <2>3. ASSUME NEW n \in Nodes, Reserve(n) \/ Restart(n) \/ Tick(n) PROVE UNCHANGED gc_safe_point
    BY <2>3, Zenon DEF Reserve, Restart, Tick, metadataVars
  <2>4. ASSUME NEW c \in late, ApplyLate(c) PROVE UNCHANGED gc_safe_point
    BY <2>4, Zenon DEF ApplyLate, ApplyCommand
  <2>5. ASSUME UNCHANGED vars PROVE UNCHANGED gc_safe_point
    BY <2>5, Zenon DEF vars, metadataVars
  <2> QED
    BY <1>3, <2>1, <2>2, <2>3, <2>4, <2>5, Zenon DEF Next
<1> QED
  BY <1>1, <1>2, <1>3, Zenon

\* The safe point never moves back: a sweep takes the smaller of its candidate and
\* the protected floors, and no floor below the safe point was ever accepted
\* (`apply_advance_gc_safe_point`, `apply_register_gc_protection`,
\* `apply_update_gc_protection`).
THEOREM SafePointNeverMovesBack == Spec => SafePointMonotone
<1>1. BaseInv /\ [Next]_vars => [gc_safe_point' >= gc_safe_point]_vars
  BY SafePointStep, Zenon
<1> QED
  BY <1>1, Base, PTL DEF Spec, SafePointMonotone

(***************************************************************************)
(* Readers.  No floor a node has published, or may still publish, is above *)
(* a snapshot of that node (FloorsBelow).  While the node believes in its  *)
(* lease and its clock has not reached the deadline, the metadata holds a  *)
(* protection of that deadline or a later one (LeaseHeld).  And a release  *)
(* that is still under way has made the node distrust its lease            *)
(* (ReleasesKnown), for which commands of one owner must be applied in the *)
(* order they were sent.                                                   *)
(***************************************************************************)
ClocksClose == \A n, m \in Nodes : clock[m] <= clock[n] + Skew

\* the owner identity of a process that has not started yet
Unborn(o) == incarnation[o[1]] < o[2]

Ownership ==
    /\ \A o \in Owners : Unborn(o) => gc_protections[o] = None
    /\ \A c \in late : ~Unborn(c.owner)

\* the snapshots a node has open or is about to open
Snapshots(n) ==
    active[n] \cup (IF asked[n] # None /\ asked[n].txn # None THEN {asked[n].txn} ELSE {})

Below(n, floor) == floor <= next_timestamp[n] /\ \A t \in Snapshots(n) : floor <= t

FloorsBelow(n) ==
    /\ \A t \in Snapshots(n) : t < next_timestamp[n]
    /\ gc_protections[Owner(n)] # None => Below(n, gc_protections[Owner(n)].floor)
    /\ asked[n] # None /\ SetsFloor(asked[n].command) => Below(n, asked[n].command.floor)
    /\ \A c \in late : c.owner = Owner(n) /\ SetsFloor(c) => Below(n, c.floor)

ReleasesKnown(n) ==
    \A c \in late : c.owner = Owner(n) =>
        /\ reply[n] = None
        /\ c.kind = "Release" => ~lease_healthy[n]

\* the metadata protects the node until its deadline or longer
Held(n, deadline) ==
    /\ gc_protections[Owner(n)] # None
    /\ gc_protections[Owner(n)].deadline >= deadline

Released(n) == reply[n] = "applied" /\ asked[n].command.kind = "Release"

LeaseHeld(n) ==
    /\ /\ lease_healthy[n] /\ published[n] # None /\ clock[n] < published[n].deadline
       /\ ~Released(n)
       => Held(n, published[n].deadline)
    /\ /\ reply[n] = "applied" /\ asked[n].command.kind # "Release"
       /\ clock[n] < asked[n].command.deadline
       => Held(n, asked[n].command.deadline)

LeaseInv ==
    /\ ClocksClose /\ Ownership
    /\ \A n \in Nodes : FloorsBelow(n) /\ ReleasesKnown(n) /\ LeaseHeld(n)

LEMMA LeaseInit == Init => LeaseInv
<1> SUFFICES ASSUME Init PROVE LeaseInv
  OBVIOUS
<1>1. ClocksClose
  BY GcAssumption DEF Init, ClocksClose
<1>2. Ownership
  BY DEF Init, Ownership
<1>3. ASSUME NEW n \in Nodes PROVE FloorsBelow(n) /\ ReleasesKnown(n) /\ LeaseHeld(n)
  <2>1. /\ active[n] = {} /\ asked[n] = None /\ reply[n] = None /\ published[n] = None /\ late = {}
        /\ gc_protections[Owner(n)] = None
    BY BaseInit, OwnerOfNode DEF Init, BaseInv
  <2>2. Snapshots(n) = {} /\ reply[n] # "applied"
    BY <2>1, GcAssumption DEF Snapshots
  <2> QED
    BY <2>1, <2>2 DEF FloorsBelow, ReleasesKnown, LeaseHeld
<1> QED
  BY <1>1, <1>2, <1>3 DEF LeaseInv

NodeOK(n) == FloorsBelow(n) /\ ReleasesKnown(n) /\ LeaseHeld(n)

\* A sweep drops a protection only at or after its deadline.
Swept(m) ==
    /\ gc_protections'[Owner(m)] = None
    /\ gc_protections[Owner(m)] # None => gc_protections[Owner(m)].deadline <= clock[m]

LEMMA TypesOfNode ==
  ASSUME TypeOK, NEW m \in Nodes
  PROVE  /\ clock[m] \in Nat /\ next_timestamp[m] \in Nat /\ Owner(m) \in Owners
         /\ \A t \in Snapshots(m) : t \in Nat
         /\ published[m] # None => published[m].deadline \in Nat
         /\ asked[m] # None => /\ asked[m].command \in Commands
                               /\ asked[m].command.floor \in Nat
                               /\ asked[m].command.deadline \in Nat
         /\ \A c \in late : c.floor \in Nat /\ c.deadline \in Nat /\ c \in Commands
         /\ gc_protections[Owner(m)] # None => /\ gc_protections[Owner(m)].floor \in Nat
                                               /\ gc_protections[Owner(m)].deadline \in Nat
  BY OwnerOfNode DEF TypeOK, Snapshots, Protections, Commands

\* Steps that leave the publications of a node alone.
LEMMA LeaseKept ==
  ASSUME BaseInv, BaseInv', NEW m \in Nodes, NodeOK(m),
         incarnation'[m] = incarnation[m], clock[m] <= clock'[m],
         next_timestamp[m] <= next_timestamp'[m],
         asked'[m] = asked[m], reply'[m] = reply[m], published'[m] = published[m],
         lease_healthy'[m] => lease_healthy[m],
         \A t \in active'[m] : t \in active[m] \/ (next_timestamp[m] <= t /\ t < next_timestamp'[m]),
         \A c \in late' : c.owner = Owner(m) => c \in late,
         gc_protections'[Owner(m)] = gc_protections[Owner(m)] \/ Swept(m)
  PROVE  NodeOK(m)'
<1>0. TypeOK /\ TypeOK' /\ AskOK(m)
  BY DEF BaseInv
<1>1. Owner(m)' = Owner(m)
  BY DEF Owner
<1>2. \A t \in Snapshots(m)' : t \in Snapshots(m) \/ (next_timestamp[m] <= t /\ t < next_timestamp'[m])
  BY DEF Snapshots
<1>3. /\ next_timestamp[m] \in Nat /\ next_timestamp'[m] \in Nat /\ clock[m] \in Nat
      /\ clock'[m] \in Nat /\ \A t \in Snapshots(m) : t \in Nat
      /\ \A t \in Snapshots(m)' : t \in Nat
      /\ published[m] # None => published[m].deadline \in Nat
      /\ asked[m] # None => /\ asked[m].command.floor \in Nat
                            /\ asked[m].command.deadline \in Nat
      /\ \A c \in late : c.floor \in Nat
      /\ gc_protections[Owner(m)] # None => /\ gc_protections[Owner(m)].floor \in Nat
                                            /\ gc_protections[Owner(m)].deadline \in Nat
  <2>1. next_timestamp'[m] \in Nat /\ clock'[m] \in Nat /\ \A t \in Snapshots(m)' : t \in Nat
    BY <1>0 DEF TypeOK, Snapshots
  <2> QED
    BY <1>0, <2>1, TypesOfNode
<1>4. ASSUME NEW f \in Nat, Below(m, f) PROVE Below(m, f)'
  BY <1>2, <1>3, <1>4 DEF Below
<1>5. FloorsBelow(m)'
  <2>1. \A t \in Snapshots(m)' : t < next_timestamp'[m]
    BY <1>2, <1>3 DEF NodeOK, FloorsBelow
  <2>2. gc_protections'[Owner(m)] # None =>
          /\ gc_protections'[Owner(m)].floor \in Nat
          /\ Below(m, gc_protections'[Owner(m)].floor)
    BY <1>3 DEF NodeOK, FloorsBelow, Swept
  <2>3. asked[m] # None /\ SetsFloor(asked[m].command) =>
          asked[m].command.floor \in Nat /\ Below(m, asked[m].command.floor)
    BY <1>3 DEF NodeOK, FloorsBelow
  <2>4. \A c \in late' : c.owner = Owner(m) /\ SetsFloor(c) => c.floor \in Nat /\ Below(m, c.floor)
    BY <1>3 DEF NodeOK, FloorsBelow
  <2>5. \A c \in late' : c.owner = Owner(m) /\ SetsFloor(c) => Below(m, c.floor)'
    BY <1>4, <2>4
  <2>6. gc_protections'[Owner(m)] # None => Below(m, gc_protections[Owner(m)].floor)'
    <3>1. gc_protections'[Owner(m)] # None =>
             next_timestamp'[m] >= gc_protections'[Owner(m)].floor
             /\ \A t \in Snapshots(m)' : gc_protections'[Owner(m)].floor <= t
      BY <1>2, <1>3, <2>2 DEF Below
    <3> QED
      BY <1>1, <1>3, <2>2, <3>1 DEF Below
  <2>7. asked'[m] # None /\ SetsFloor(asked'[m].command) => Below(m, asked[m].command.floor)'
    BY <1>2, <1>3, <2>3 DEF Below
  <2> QED
    BY <1>1, <2>1, <2>5, <2>6, <2>7 DEF FloorsBelow
<1>6. ReleasesKnown(m)'
  BY <1>1 DEF NodeOK, ReleasesKnown
<1>7. LeaseHeld(m)'
  <2>1. ASSUME lease_healthy'[m], published'[m] # None, clock'[m] < published'[m].deadline,
               ~Released(m)'
        PROVE  Held(m, published[m].deadline)'
    <3>1. Held(m, published[m].deadline)
      BY <1>3, <2>1 DEF NodeOK, LeaseHeld, Released
    <3>2. published[m].deadline \in Nat /\ clock'[m] < published[m].deadline
      BY <1>3, <2>1
    <3>3. gc_protections'[Owner(m)] # None
          /\ gc_protections'[Owner(m)].deadline >= published[m].deadline
      BY <1>3, <3>1, <3>2 DEF Held, Swept
    <3> QED
      BY <1>1, <3>3 DEF Held
  <2>2. ASSUME reply'[m] = "applied", asked'[m].command.kind # "Release",
               clock'[m] < asked'[m].command.deadline
        PROVE  Held(m, asked[m].command.deadline)'
    <3>1. asked[m] # None
      BY <1>0, <2>2, GcAssumption DEF AskOK
    <3>2. asked[m].command.deadline \in Nat /\ clock'[m] < asked[m].command.deadline
      BY <1>3, <2>2, <3>1
    <3>3. Held(m, asked[m].command.deadline)
      BY <1>3, <2>2, <3>2 DEF NodeOK, LeaseHeld
    <3>4. gc_protections'[Owner(m)] # None
          /\ gc_protections'[Owner(m)].deadline >= asked[m].command.deadline
      BY <1>3, <3>2, <3>3 DEF Held, Swept
    <3> QED
      BY <1>1, <3>4 DEF Held
  <2> QED
    BY <2>1, <2>2 DEF LeaseHeld
<1> QED
  BY <1>5, <1>6, <1>7 DEF NodeOK

\* A command of the node is applied, while the node waits for it or long after.
LEMMA LeaseApplied ==
  ASSUME BaseInv, NEW n \in Nodes, NodeOK(n), NEW c \in Commands, c.owner = Owner(n),
         ApplyCommand(c), SetsFloor(c) => Below(n, c.floor), reply[n] = None,
         UNCHANGED <<clock, incarnation, oracleVars, trackerVars, asked>>,
         \/ reply'[n] = None /\ (c.kind = "Release" => ~lease_healthy[n])
         \/ /\ c = asked[n].command
            /\ reply'[n] = IF Accepts(c) THEN "applied" ELSE "rejected",
         \A d \in late' : d.owner = Owner(n) => d \in late /\ reply'[n] = None
  PROVE  NodeOK(n)'
<1> DEFINE g == gc_protections[Owner(n)]
           new == gc_protections'[Owner(n)]
<1>0. TypeOK /\ AskOK(n) /\ c.floor \in Nat /\ c.deadline \in Nat
  BY Zenon DEF BaseInv, Commands
<1>1. Effect(c)
  BY <1>0, CommandEffect, Zenon
<1>2. /\ Owner(n)' = Owner(n) /\ Snapshots(n)' = Snapshots(n)
      /\ UNCHANGED <<clock, next_timestamp, active, published, lease_healthy, asked>>
  BY Zenon DEF Owner, Snapshots, oracleVars, trackerVars
<1>3. /\ published[n] # None => published[n].deadline \in Nat
      /\ g # None => g.floor \in Nat /\ g.deadline \in Nat
  BY <1>0, TypesOfNode, Zenon
<1>4. ASSUME NEW f PROVE Below(n, f) <=> next_timestamp'[n] >= f /\ \A t \in Snapshots(n)' : f <= t
  BY <1>2, Zenon DEF Below
<1>5. FloorsBelow(n)'
  <2>1. new # None => Below(n, new.floor)
    BY <1>0, <1>1 DEF Effect, SetsFloor, NodeOK, FloorsBelow
  <2>2. new # None => Below(n, gc_protections[Owner(n)].floor)'
    BY <1>2, <2>1, Zenon DEF Below
  <2>3. \A d \in late' : d.owner = Owner(n) /\ SetsFloor(d) => Below(n, d.floor)'
    BY <1>2, Zenon DEF NodeOK, FloorsBelow, Below
  <2>4. asked[n] # None /\ SetsFloor(asked[n].command) => Below(n, asked[n].command.floor)'
    BY <1>2, Zenon DEF NodeOK, FloorsBelow, Below
  <2>5. \A t \in Snapshots(n)' : t < next_timestamp'[n]
    BY <1>2, Zenon DEF NodeOK, FloorsBelow
  <2> QED
    BY <1>2, <2>2, <2>3, <2>4, <2>5, Zenon DEF FloorsBelow
<1>6. ReleasesKnown(n)'
  BY <1>2, Zenon DEF NodeOK, ReleasesKnown
<1>7. LeaseHeld(n)'
  <2>1. ASSUME lease_healthy[n], published[n] # None, clock[n] < published[n].deadline, ~Released(n)'
        PROVE  Held(n, published[n].deadline)'
    <3>1. ~Released(n)
      BY GcAssumption, Zenon DEF Released
    <3>2. g # None /\ g.deadline >= published[n].deadline
      BY <2>1, <3>1, Zenon DEF NodeOK, LeaseHeld, Held
    <3>3. c.kind # "Release"
      <4>1. CASE reply'[n] = None /\ (c.kind = "Release" => ~lease_healthy[n])
        BY <2>1, <4>1, Zenon
      <4>2. CASE c = asked[n].command /\ reply'[n] = IF Accepts(c) THEN "applied" ELSE "rejected"
        BY <1>2, <2>1, <4>2, Zenon DEF Released, Accepts
      <4> QED
        BY <4>1, <4>2, Zenon
    <3>4. new = g \/ \E f \in Nat : /\ new = [floor |-> f, deadline |-> c.deadline]
                                    /\ c.deadline >= g.deadline
      BY <1>0, <1>1, <1>3, <3>2, <3>3, Zenon DEF Effect
    <3>5. new # None /\ new.deadline >= published[n].deadline
      <4>1. CASE new = g
        BY <3>2, <4>1, Zenon
      <4>2. ASSUME NEW f \in Nat, new = [floor |-> f, deadline |-> c.deadline],
                   c.deadline >= g.deadline
            PROVE  new # None /\ new.deadline >= published[n].deadline
        <5>1. new # None /\ new.deadline = c.deadline
          BY <1>0, <4>2, Protecting
        <5>2. g.deadline \in Nat /\ published[n].deadline \in Nat
          BY <1>3, <2>1, <3>2, Zenon
        <5> QED
          BY <1>0, <3>2, <4>2, <5>1, <5>2
      <4> QED
        BY <3>4, <4>1, <4>2, Zenon
    <3> QED
      BY <1>2, <3>5 DEF Held
  <2>2. ASSUME reply'[n] = "applied", asked[n].command.kind # "Release"
        PROVE  Held(n, asked[n].command.deadline)'
    <3>1. c = asked[n].command /\ Accepts(c)
      BY <2>2, GcAssumption, Zenon
    <3>2. \E f \in Nat : new = [floor |-> f, deadline |-> c.deadline]
      BY <1>0, <1>1, <1>3, <2>2, <3>1, Zenon DEF Effect
    <3>3. new # None /\ new.deadline >= c.deadline
      BY <1>0, <3>2, Protecting
    <3> QED
      BY <1>2, <3>1, <3>3, Zenon DEF Held
  <2> QED
    BY <1>2, <2>1, <2>2, Zenon DEF LeaseHeld
<1> QED
  BY <1>5, <1>6, <1>7, Zenon DEF NodeOK

LEMMA LeaseAsks ==
  ASSUME BaseInv, NEW n \in Nodes, NodeOK(n), NEW c, NEW txn, Asks(n, c, txn)
  PROVE  NodeOK(n)'
<1>0. TypeOK /\ AskOK(n) /\ reply[n] = None /\ asked[n] = None
  BY Zenon DEF BaseInv, AskOK, Asks
<1>1. /\ asked'[n] = [command |-> c, txn |-> txn]
      /\ UNCHANGED <<clock, incarnation, gc_protections, active, published, lease_healthy, reply, late>>
  BY <1>0, Zenon DEF Asks, TypeOK
<1>2. Owner(n)' = Owner(n) /\ asked'[n].command = c /\ asked'[n].txn = txn
  BY <1>1 DEF Owner
<1>3. Snapshots(n) = active[n] /\ next_timestamp[n] \in Nat /\ active[n] \in SUBSET Nat
      /\ txn \in Nat \cup {None} /\ c.floor \in Nat
  BY <1>0, Zenon DEF Snapshots, TypeOK, Asks, Commands
<1>4. \A t \in Snapshots(n)' : t \in active[n] \/ (t = txn /\ txn # None)
  BY <1>1, <1>2, Zenon DEF Snapshots
<1>5. /\ next_timestamp'[n] \in Nat /\ next_timestamp[n] <= next_timestamp'[n]
      /\ txn # None => next_timestamp[n] <= txn /\ next_timestamp'[n] = txn + 1
  BY <1>0, <1>3 DEF Asks, TypeOK
<1>6. ASSUME NEW f \in Nat, Below(n, f)
      PROVE  f <= next_timestamp'[n] /\ \A t \in Snapshots(n)' : f <= t
  BY <1>3, <1>4, <1>5, <1>6 DEF Below
<1>7. FloorsBelow(n)'
  <2>1. \A t \in Snapshots(n)' : t < next_timestamp'[n]
    BY <1>3, <1>4, <1>5 DEF NodeOK, FloorsBelow
  <2>2. gc_protections[Owner(n)] # None =>
          /\ gc_protections[Owner(n)].floor \in Nat
          /\ Below(n, gc_protections[Owner(n)].floor)
    BY <1>0, TypesOfNode, Zenon DEF NodeOK, FloorsBelow
  <2>3. gc_protections'[Owner(n)] # None => Below(n, gc_protections[Owner(n)].floor)'
    BY <1>1, <1>2, <1>6, <2>2, Zenon DEF Below
  <2>4. \A d \in late : d.owner = Owner(n) /\ SetsFloor(d) => d.floor \in Nat /\ Below(n, d.floor)
    BY <1>0, TypesOfNode, Zenon DEF NodeOK, FloorsBelow
  <2>5. \A d \in late' : d.owner = Owner(n) /\ SetsFloor(d) => Below(n, d.floor)'
    BY <1>1, <1>6, <2>4, Zenon DEF Below
  <2>6. SetsFloor(c) => Below(n, c.floor)'
    <3> SUFFICES ASSUME SetsFloor(c) PROVE Below(n, c.floor)'
      OBVIOUS
    <3>1. /\ c.floor \in active[n] \cup (IF txn = None THEN {} ELSE {txn})
          /\ \A t \in active[n] : c.floor <= t
          /\ txn # None => c.floor <= txn
      BY Zenon DEF Asks
    <3>2. \A t \in Snapshots(n)' : c.floor <= t
      BY <1>4, <3>1, Zenon
    <3>3. c.floor <= next_timestamp'[n]
      BY <1>3, <1>5, <3>1 DEF NodeOK, FloorsBelow
    <3> QED
      BY <3>2, <3>3, Zenon DEF Below
  <2> QED
    BY <1>2, <2>1, <2>3, <2>5, <2>6, Zenon DEF FloorsBelow
<1>8. ReleasesKnown(n)'
  BY <1>1, <1>2, Zenon DEF NodeOK, ReleasesKnown
<1>9. LeaseHeld(n)'
  BY <1>0, <1>1, <1>2, GcAssumption, Zenon DEF NodeOK, LeaseHeld, Released, Held
<1> QED
  BY <1>7, <1>8, <1>9, Zenon DEF NodeOK

LEMMA LeaseSucceeds ==
  ASSUME BaseInv, NEW n \in Nodes, NodeOK(n), PublishSucceeds(n)
  PROVE  NodeOK(n)'
<1> DEFINE c == asked[n].command
           txn == asked[n].txn
<1>0. TypeOK /\ AskOK(n) /\ asked[n] # None /\ reply[n] = "applied"
  BY Zenon DEF BaseInv, PublishSucceeds
<1>1. /\ asked'[n] = None /\ reply'[n] = None /\ published'[n] = PublishedAfter(n, c)
      /\ active'[n] = IF txn = None THEN active[n] ELSE active[n] \cup {txn}
      /\ UNCHANGED <<clock, incarnation, next_timestamp, gc_protections, late>>
  BY <1>0, Zenon DEF PublishSucceeds, TypeOK, oracleVars, metadataVars
<1>2. Owner(n)' = Owner(n) /\ Snapshots(n)' = Snapshots(n)
  BY <1>0, <1>1, Zenon DEF Owner, Snapshots
<1>3. FloorsBelow(n)'
  BY <1>1, <1>2, Zenon DEF NodeOK, FloorsBelow, Below
<1>4. \A d \in late : d.owner # Owner(n)
  BY <1>0, GcAssumption, Zenon DEF NodeOK, ReleasesKnown
<1>5. ReleasesKnown(n)'
  BY <1>1, <1>2, <1>4, Zenon DEF ReleasesKnown
<1>6. LeaseHeld(n)'
  <2> SUFFICES ASSUME published'[n] # None, clock[n] < published'[n].deadline
               PROVE  Held(n, published[n].deadline)'
    BY <1>1, GcAssumption, Zenon DEF LeaseHeld
  <2>1. c.kind \in {"Register", "Update", "Renew", "Release"}
    BY <1>0, TypesOfNode, Zenon DEF Commands
  <2>2. c.kind # "Release"
    BY <1>1, Zenon DEF PublishedAfter
  <2>3. published'[n].deadline = c.deadline
    <3>1. CASE c.kind \in {"Register", "Update"}
      <4>1. published'[n] = [floor |-> c.floor, deadline |-> c.deadline]
        BY <1>1, <3>1, Zenon DEF PublishedAfter
      <4> QED
        BY <4>1
    <3>2. CASE c.kind = "Renew"
      <4>1. published[n] \in Protections
        BY <1>0, <3>2, Zenon DEF AskOK, TypeOK
      <4>2. published'[n] = [published[n] EXCEPT !.deadline = c.deadline]
        BY <1>1, <3>2, Zenon DEF PublishedAfter
      <4> QED
        BY <4>1, <4>2, Zenon DEF Protections
    <3> QED
      BY <2>1, <2>2, <3>1, <3>2, Zenon
  <2>4. Held(n, c.deadline)
    BY <1>0, <2>2, <2>3, Zenon DEF NodeOK, LeaseHeld
  <2> QED
    BY <1>1, <1>2, <2>3, <2>4, Zenon DEF Held
<1> QED
  BY <1>3, <1>5, <1>6, Zenon DEF NodeOK

LEMMA LeaseFails ==
  ASSUME BaseInv, NEW n \in Nodes, NodeOK(n), PublishFails(n)
  PROVE  NodeOK(n)'
<1> DEFINE c == asked[n].command
           txn == asked[n].txn
<1>0. TypeOK /\ AskOK(n) /\ asked[n] # None
  BY Zenon DEF BaseInv, PublishFails
<1>1. /\ asked'[n] = None /\ reply'[n] = None
      /\ lease_healthy'[n] => lease_healthy[n] /\ txn # None
      /\ \A d \in late' : d \in late \/ d = c
      /\ UNCHANGED <<clock, incarnation, next_timestamp, gc_protections, active, published>>
  BY <1>0, Zenon DEF PublishFails, TypeOK, oracleVars, metadataVars
<1>2. Owner(n)' = Owner(n) /\ Snapshots(n)' \subseteq Snapshots(n)
  BY <1>0, <1>1, Zenon DEF Owner, Snapshots
<1>3. FloorsBelow(n)'
  <2>1. ASSUME NEW f, Below(n, f) PROVE f <= next_timestamp'[n] /\ \A t \in Snapshots(n)' : f <= t
    BY <1>1, <1>2, <2>1, Zenon DEF Below
  <2>2. \A d \in late' : d.owner = Owner(n) /\ SetsFloor(d) => Below(n, d.floor)'
    <3>1. \A d \in late' : d.owner = Owner(n) /\ SetsFloor(d) => Below(n, d.floor)
      BY <1>0, <1>1, Zenon DEF NodeOK, FloorsBelow
    <3> QED
      BY <2>1, <3>1, Zenon DEF Below
  <2>3. gc_protections'[Owner(n)] # None => Below(n, gc_protections[Owner(n)].floor)'
    BY <1>1, <1>2, <2>1, Zenon DEF NodeOK, FloorsBelow, Below
  <2> QED
    BY <1>1, <1>2, <2>2, <2>3, Zenon DEF NodeOK, FloorsBelow
<1>4. ReleasesKnown(n)'
  BY <1>0, <1>1, <1>2, Zenon DEF NodeOK, ReleasesKnown, AskOK
<1>5. LeaseHeld(n)'
  <2>1. lease_healthy'[n] => ~Released(n)
    BY <1>0, <1>1, Zenon DEF AskOK, Released
  <2> QED
    BY <1>1, <1>2, <2>1, GcAssumption, Zenon DEF NodeOK, LeaseHeld, Held
<1> QED
  BY <1>3, <1>4, <1>5, Zenon DEF NodeOK

LEMMA LeaseRestarts ==
  ASSUME BaseInv, Ownership, NEW n \in Nodes, Restart(n)
  PROVE  NodeOK(n)'
<1>0. TypeOK /\ AskOK(n)
  BY Zenon DEF BaseInv
<1>1. /\ incarnation'[n] = incarnation[n] + 1 /\ incarnation[n] + 1 \in 0..MaxRestarts
      /\ active'[n] = {} /\ published'[n] = None /\ asked'[n] = None /\ reply'[n] = None
      /\ \A d \in late' : d \in late \/ (asked[n] # None /\ d = asked[n].command)
      /\ UNCHANGED gc_protections
  BY <1>0, GcAssumption DEF Restart, TypeOK, metadataVars
<1>2. Owner(n)' = <<n, incarnation[n] + 1>> /\ Owner(n) = <<n, incarnation[n]>>
      /\ <<n, incarnation[n] + 1>> \in Owners /\ incarnation[n] \in Nat
  BY <1>0, <1>1 DEF Owner, Owners, TypeOK
<1>3. Unborn(<<n, incarnation[n] + 1>>)
  BY <1>2 DEF Unborn
<1>4. gc_protections'[Owner(n)'] = None /\ \A d \in late' : d.owner # Owner(n)'
  BY <1>0, <1>1, <1>2, <1>3 DEF Ownership, AskOK
<1>5. Snapshots(n)' = {} /\ reply'[n] # "applied"
  BY <1>1, GcAssumption, Zenon DEF Snapshots
<1> QED
  BY <1>1, <1>4, <1>5, Zenon DEF NodeOK, FloorsBelow, ReleasesKnown, LeaseHeld

\* The identities of later processes stay unused.
LEMMA OwnershipKept ==
  ASSUME BaseInv, Ownership, NEW c, NEW n \in Nodes,
         \A o \in Owners : Unborn(o)' => Unborn(o),
         \A d \in late' : d \in late \/ (asked[n] # None /\ d = asked[n].command),
         \A o \in Owners : gc_protections[o] = None =>
             gc_protections'[o] = None \/ (o = c.owner /\ ~Unborn(o))
  PROVE  Ownership'
<1>1. TypeOK /\ AskOK(n)
  BY Zenon DEF BaseInv
<1>2. ASSUME NEW o \in Owners, Unborn(o)' PROVE gc_protections'[o] = None
  BY <1>2, Zenon DEF Ownership
<1>3. ~Unborn(Owner(n))
  BY <1>1 DEF Unborn, Owner, TypeOK
<1>4. ASSUME NEW d \in late' PROVE ~Unborn(d.owner)'
  <2>1. d.owner \in Owners /\ ~Unborn(d.owner)
    BY <1>1, <1>3, <1>4, TypesOfNode, Zenon DEF Ownership, AskOK, Commands
  <2> QED
    BY <2>1, Zenon
<1> QED
  BY <1>2, <1>4, Zenon DEF Ownership

LEMMA LeaseStep ==
  ASSUME ~Overtaking, BaseInv, BaseInv', LeaseInv, [Next]_vars
  PROVE  LeaseInv'
<1>0. /\ TypeOK /\ SafeFloors /\ ClocksClose /\ Ownership
      /\ \A m \in Nodes : NodeOK(m) /\ AskOK(m)
  BY Zenon DEF BaseInv, LeaseInv, NodeOK
<1>1. /\ clock \in [Nodes -> Nat] /\ incarnation \in [Nodes -> 0..MaxRestarts]
      /\ next_timestamp \in [Nodes -> Nat] /\ active \in [Nodes -> SUBSET Nat]
      /\ published \in [Nodes -> Protections \cup {None}]
      /\ lease_healthy \in [Nodes -> BOOLEAN]
      /\ asked \in [Nodes -> [command : Commands, txn : Nat \cup {None}] \cup {None}]
      /\ reply \in [Nodes -> {"applied", "rejected", None}]
      /\ \A m \in Nodes : Owner(m) \in Owners
  BY <1>0, OwnerOfNode, Zenon DEF TypeOK
<1>1a. \A m \in Nodes : clock[m] \in Nat /\ next_timestamp[m] \in Nat
  BY <1>1, Zenon
<1>1b. incarnation \in [Nodes -> 0..MaxRestarts]
  BY <1>1, Zenon
<1>2. ASSUME ClocksClose', Ownership', \A m \in Nodes : NodeOK(m)' PROVE LeaseInv'
  BY <1>2, Zenon DEF LeaseInv, NodeOK
<1>3. ASSUME UNCHANGED clock PROVE ClocksClose'
  BY <1>0, <1>3, Zenon DEF ClocksClose
\* owners differ
<1>4. ASSUME NEW n \in Nodes, NEW m \in Nodes, Owner(m) = Owner(n) PROVE m = n
  BY <1>4, Zenon DEF Owner
\* a step of node n for another node
<1>5. ASSUME NEW m \in Nodes,
             UNCHANGED <<clock, gc_protections>>, incarnation'[m] = incarnation[m],
             next_timestamp'[m] = next_timestamp[m], asked'[m] = asked[m], reply'[m] = reply[m],
             published'[m] = published[m], lease_healthy'[m] = lease_healthy[m],
             active'[m] = active[m], \A c \in late' : c.owner = Owner(m) => c \in late
      PROVE  NodeOK(m)'
  <2>1. clock[m] <= clock'[m] /\ next_timestamp[m] <= next_timestamp'[m]
    BY <1>1a, <1>5
  <2> QED
    BY <1>0, <1>5, <2>1, LeaseKept, Zenon
<1>6. ASSUME UNCHANGED <<incarnation, gc_protections, late>> PROVE Ownership'
  BY <1>0, <1>6, Zenon DEF Ownership, Unborn
<1>7. ASSUME NEW n \in Nodes, NEW c, NEW txn, Asks(n, c, txn) PROVE LeaseInv'
  <2>1. /\ UNCHANGED <<clock, incarnation, gc_protections, active, published, lease_healthy, reply, late>>
        /\ \A m \in Nodes \ {n} : asked'[m] = asked[m] /\ next_timestamp'[m] = next_timestamp[m]
    BY <1>1, <1>7, Zenon DEF Asks
  <2>2. ASSUME NEW m \in Nodes, m # n PROVE NodeOK(m)'
    BY <1>5, <2>1, <2>2, Zenon
  <2>3. NodeOK(n)'
    BY <1>0, <1>7, LeaseAsks, Zenon
  <2> QED
    BY <1>2, <1>3, <1>6, <2>1, <2>2, <2>3, Zenon
<1>8. ASSUME NEW n \in Nodes, NEW observed \in 0..gc_safe_point,
             BeginRefused(n, observed) \/ BeginCovered(n, observed)
      PROVE  LeaseInv'
  <2> DEFINE txn == Start(n, observed)
  <2>0. txn \in Nat /\ next_timestamp[n] <= txn
    BY <1>0, Started, Zenon
  <2>1. /\ next_timestamp' = [next_timestamp EXCEPT ![n] = txn + 1]
        /\ active' = active \/ active' = [active EXCEPT ![n] = @ \cup {txn}]
        /\ lease_healthy' = lease_healthy \/ lease_healthy' = [lease_healthy EXCEPT ![n] = FALSE]
        /\ UNCHANGED <<clock, incarnation, gc_protections, published, asked, reply, late>>
    BY <1>8, Zenon DEF BeginRefused, BeginCovered, Allocate, metadataVars, flightVars
  <2> HIDE DEF txn
  <2>2. ASSUME NEW m \in Nodes, m # n PROVE NodeOK(m)'
    <3>1. /\ next_timestamp'[m] = next_timestamp[m] /\ active'[m] = active[m]
          /\ lease_healthy'[m] = lease_healthy[m]
      BY <1>1, <2>1, <2>2, Zenon
    <3> QED
      BY <1>5, <2>1, <3>1, Zenon
  <2>3. NodeOK(n)'
    <3>1. /\ clock[n] <= clock'[n] /\ next_timestamp[n] <= next_timestamp'[n]
          /\ lease_healthy'[n] => lease_healthy[n]
          /\ \A t \in active'[n] :
               t \in active[n] \/ (next_timestamp[n] <= t /\ t < next_timestamp'[n])
      BY <1>1, <2>0, <2>1
    <3> QED
      BY <1>0, <2>1, <3>1, LeaseKept, Zenon
  <2> QED
    BY <1>2, <1>3, <1>6, <2>1, <2>2, <2>3, Zenon
<1>9. ASSUME NEW n \in Nodes, NEW t \in active[n], ReleaseLocal(n, t) PROVE LeaseInv'
  <2>1. /\ active' = [active EXCEPT ![n] = @ \ {t}]
        /\ UNCHANGED <<clock, incarnation, next_timestamp, gc_protections, lease_healthy,
                       published, asked, reply, late>>
    BY <1>9, Zenon DEF ReleaseLocal, oracleVars, metadataVars, flightVars
  <2>2. ASSUME NEW m \in Nodes PROVE NodeOK(m)'
    <3>1. /\ clock[m] <= clock'[m] /\ next_timestamp[m] <= next_timestamp'[m]
          /\ \A u \in active'[m] : u \in active[m]
      BY <1>1a, <2>1
    <3> QED
      BY <1>0, <2>1, <3>1, LeaseKept, Zenon
  <2> QED
    BY <1>2, <1>3, <1>6, <2>1, <2>2, Zenon
<1>10. ASSUME NEW n \in Nodes, PublishSucceeds(n) \/ PublishFails(n) PROVE LeaseInv'
  <2>1. /\ asked[n] # None /\ \A d \in late' : d \in late \/ d = asked[n].command
        /\ UNCHANGED <<clock, incarnation, next_timestamp, gc_protections>>
        /\ \A m \in Nodes \ {n} :
             /\ asked'[m] = asked[m] /\ reply'[m] = reply[m] /\ published'[m] = published[m]
             /\ lease_healthy'[m] = lease_healthy[m] /\ active'[m] = active[m]
    <3>1. CASE PublishSucceeds(n)
      BY <1>1, <3>1, Zenon DEF PublishSucceeds, oracleVars, metadataVars
    <3>2. CASE PublishFails(n)
      BY <1>1, <3>2, Zenon DEF PublishFails, oracleVars, metadataVars
    <3> QED
      BY <1>10, <3>1, <3>2, Zenon
  <2>2. ASSUME NEW m \in Nodes, m # n PROVE NodeOK(m)'
    <3>1. asked[n].command.owner # Owner(m)
      BY <1>0, <1>4, <2>1, <2>2 DEF AskOK
    <3> QED
      BY <1>5, <2>1, <2>2, <3>1, Zenon
  <2>3. NodeOK(n)'
    BY <1>0, <1>10, LeaseSucceeds, LeaseFails, Zenon
  <2>4. \A o \in Owners : Unborn(o)' => Unborn(o)
    BY <2>1, Zenon DEF Unborn
  <2>5. Ownership'
    BY <1>0, <2>1, <2>4, OwnershipKept, Zenon
  <2> QED
    BY <1>2, <1>3, <2>1, <2>2, <2>3, <2>5, Zenon
<1>11. ASSUME NEW n \in Nodes, Restart(n) PROVE LeaseInv'
  <2>1. /\ incarnation' = [incarnation EXCEPT ![n] = @ + 1]
        /\ \A d \in late' : d \in late \/ (asked[n] # None /\ d = asked[n].command)
        /\ UNCHANGED <<clock, gc_protections>>
        /\ \A m \in Nodes \ {n} :
             /\ asked'[m] = asked[m] /\ reply'[m] = reply[m] /\ published'[m] = published[m]
             /\ lease_healthy'[m] = lease_healthy[m] /\ active'[m] = active[m]
             /\ next_timestamp'[m] = next_timestamp[m] /\ incarnation'[m] = incarnation[m]
    BY <1>1, <1>11, Zenon DEF Restart, metadataVars
  <2>2. ASSUME NEW m \in Nodes, m # n PROVE NodeOK(m)'
    <3>1. asked[n] # None => asked[n].command.owner # Owner(m)
      BY <1>0, <1>4, <2>2, Zenon DEF AskOK
    <3> QED
      BY <1>5, <2>1, <2>2, <3>1, Zenon
  <2>3. NodeOK(n)'
    BY <1>0, <1>11, LeaseRestarts, Zenon
  <2>4. \A o \in Owners : Unborn(o)' => Unborn(o)
    BY <1>1b, <2>1 DEF Unborn, Owners
  <2>5. Ownership'
    BY <1>0, <2>1, <2>4, OwnershipKept, Zenon
  <2> QED
    BY <1>2, <1>3, <2>1, <2>2, <2>3, <2>5, Zenon
<1>12. ASSUME NEW n \in Nodes, Reserve(n) PROVE LeaseInv'
  <2>1. /\ next_timestamp' = [next_timestamp EXCEPT ![n] = Max2(@, frontier + 1)]
        /\ UNCHANGED <<clock, incarnation, gc_protections, active, published, lease_healthy, asked,
                       reply, late>>
    BY <1>12, Zenon DEF Reserve, metadataVars, trackerVars, flightVars
  <2>2. ASSUME NEW m \in Nodes PROVE NodeOK(m)'
    <3>1. clock[m] <= clock'[m] /\ next_timestamp[m] <= next_timestamp'[m]
      BY <1>0, <1>1, <2>1 DEF Max2, TypeOK
    <3> QED
      BY <1>0, <2>1, <3>1, LeaseKept, Zenon
  <2> QED
    BY <1>2, <1>3, <1>6, <2>1, <2>2, Zenon
<1>13. ASSUME NEW n \in Nodes, Tick(n) PROVE LeaseInv'
  <2>1. /\ clock' = [clock EXCEPT ![n] = @ + 1] /\ \A m \in Nodes : clock[n] + 1 <= clock[m] + Skew
        /\ UNCHANGED <<incarnation, next_timestamp, gc_protections, active, published,
                       lease_healthy, asked, reply, late>>
    BY <1>13, Zenon DEF Tick, oracleVars, metadataVars, trackerVars, flightVars
  <2>2. ClocksClose'
    BY <1>0, <1>1, <2>1, GcAssumption DEF ClocksClose
  <2>3. ASSUME NEW m \in Nodes PROVE NodeOK(m)'
    <3>1. clock[m] <= clock'[m] /\ next_timestamp[m] <= next_timestamp'[m]
      BY <1>1a, <2>1
    <3> QED
      BY <1>0, <2>1, <3>1, LeaseKept, Zenon
  <2> QED
    BY <1>2, <1>6, <2>1, <2>2, <2>3, Zenon
<1>14. ASSUME AdvanceGcSafePoint PROVE LeaseInv'
  <2>1. PICK now \in SweepTimes :
           /\ gc_protections' = [o \in Owners |-> IF o \in Unexpired(now)
                                                  THEN gc_protections[o] ELSE None]
           /\ UNCHANGED <<clock, incarnation, frontier, next_timestamp, reserved_until, active,
                          published, lease_healthy, idle_since, asked, reply, late>>
    BY <1>0, <1>14, Sweep, Zenon
  <2>2. ASSUME NEW m \in Nodes PROVE NodeOK(m)'
    <3>1. now <= clock[m] /\ now \in Int
      BY <1>0, <1>1, GcAssumption DEF SweepTimes, ClocksClose, Max2
    <3>2. gc_protections[Owner(m)] # None => gc_protections[Owner(m)].deadline \in Nat
      BY <1>0, TypesOfNode, Zenon
    <3>3. gc_protections'[Owner(m)] = gc_protections[Owner(m)] \/ Swept(m)
      <4>1. PICK o : o = Owner(m) /\ o \in Owners
        BY <1>1, Zenon
      <4>2. gc_protections'[o] = IF o \in Unexpired(now) THEN gc_protections[o] ELSE None
        BY <2>1, <4>1, Zenon
      <4>3. PICK g : g = gc_protections[o]
        BY Zenon
      <4>4. o \in Unexpired(now) \/ g = None \/ ~(g.deadline > now)
        BY <4>1, <4>3, Zenon DEF Unexpired
      <4>5. g # None => g.deadline \in Nat
        BY <3>2, <4>1, <4>3, Zenon
      <4>6. clock[m] \in Nat
        BY <1>1a
      <4>7. g # None /\ ~(g.deadline > now) => g.deadline <= clock[m]
        BY <3>1, <4>5, <4>6
      <4> QED
        BY <4>1, <4>2, <4>3, <4>4, <4>7, Zenon DEF Swept
    <3>4. clock[m] <= clock'[m] /\ next_timestamp[m] <= next_timestamp'[m]
      BY <1>1a, <2>1
    <3> QED
      BY <1>0, <2>1, <3>3, <3>4, LeaseKept, Zenon
  <2>3. Ownership'
    BY <1>0, <2>1, Zenon DEF Ownership, Unborn
  <2> QED
    BY <1>2, <1>3, <2>1, <2>2, <2>3, Zenon
\* a command is applied
<1>15. ASSUME NEW n \in Nodes, NEW c \in Commands, c.owner # Owner(n), ApplyCommand(c),
              \A d \in late' : d \in late, reply'[n] = reply[n],
              UNCHANGED <<clock, incarnation, oracleVars, trackerVars, asked>>
       PROVE  NodeOK(n)'
  <2>1. gc_protections'[Owner(n)] = gc_protections[Owner(n)]
    BY <1>0, <1>1, <1>15, CommandEffect, Zenon
  <2>2. clock[n] <= clock'[n] /\ next_timestamp[n] <= next_timestamp'[n]
    BY <1>1a, <1>15 DEF oracleVars
  <2> QED
    BY <1>0, <1>15, <2>1, <2>2, LeaseKept, Zenon DEF trackerVars
<1>16. ASSUME NEW c \in Commands, ~Unborn(c.owner), ApplyCommand(c), \A d \in late' : d \in late,
              UNCHANGED incarnation, NEW n \in Nodes
       PROVE  Ownership'
  <2>1. \A o \in Owners : Unborn(o)' => Unborn(o)
    BY <1>16, Zenon DEF Unborn
  <2>2. \A o \in Owners : o # c.owner => gc_protections'[o] = gc_protections[o]
    BY <1>0, <1>16, CommandEffect, Zenon
  <2> QED
    BY <1>0, <1>16, <2>1, <2>2, OwnershipKept, Zenon
<1>17. ASSUME NEW n \in Nodes, ApplyAsked(n) PROVE LeaseInv'
  <2> DEFINE c == asked[n].command
  <2>1. /\ asked[n] # None /\ reply[n] = None /\ ApplyCommand(c) /\ c \in Commands
        /\ c.owner = Owner(n)
        /\ reply' = [reply EXCEPT ![n] = IF Accepts(c) THEN "applied" ELSE "rejected"]
        /\ late' = {d \in late : d.owner # Owner(n)}
        /\ UNCHANGED <<clock, incarnation, oracleVars, trackerVars, asked>>
    BY <1>0, <1>1, <1>17 DEF ApplyAsked, AskOK
  <2>2. SetsFloor(c) => Below(n, c.floor)
    BY <1>0, <2>1, Zenon DEF NodeOK, FloorsBelow
  <2>3. reply'[n] = IF Accepts(c) THEN "applied" ELSE "rejected"
    BY <1>1, <2>1, Zenon
  <2>4. NodeOK(n)'
    BY <1>0, <2>1, <2>2, <2>3, LeaseApplied, Zenon
  <2>5. ASSUME NEW m \in Nodes, m # n PROVE NodeOK(m)'
    <3>1. c.owner # Owner(m) /\ reply'[m] = reply[m]
      BY <1>1, <1>4, <2>1, <2>5, Zenon
    <3> QED
      BY <1>15, <2>1, <3>1, Zenon
  <2>6. Ownership'
    <3>1. ~Unborn(c.owner)
      BY <1>1b, <2>1 DEF Unborn, Owner
    <3> QED
      BY <1>16, <2>1, <3>1, Zenon
  <2> QED
    BY <1>2, <1>3, <2>1, <2>4, <2>5, <2>6, Zenon
<1>18. ASSUME NEW c \in late, ApplyLate(c), Nodes # {} PROVE LeaseInv'
  <2>1. /\ ApplyCommand(c) /\ c \in Commands /\ late' = late \ {c} /\ reply' = reply
        /\ UNCHANGED <<clock, incarnation, oracleVars, trackerVars, asked>>
    BY <1>0, <1>18, Zenon DEF ApplyLate, TypeOK
  <2>2. ASSUME NEW m \in Nodes, c.owner = Owner(m) PROVE NodeOK(m)'
    <3>1. reply[m] = None /\ (c.kind = "Release" => ~lease_healthy[m])
          /\ (SetsFloor(c) => Below(m, c.floor))
      BY <1>0, <2>2, Zenon DEF NodeOK, ReleasesKnown, FloorsBelow
    <3> QED
      BY <1>0, <2>1, <2>2, <3>1, LeaseApplied, Zenon
  <2>3. ASSUME NEW m \in Nodes, c.owner # Owner(m) PROVE NodeOK(m)'
    BY <1>15, <2>1, <2>3, Zenon
  <2>4. Ownership'
    BY <1>0, <1>16, <1>18, <2>1, Zenon DEF Ownership
  <2> QED
    BY <1>2, <1>3, <2>1, <2>2, <2>3, <2>4, Zenon
<1>19. ASSUME UNCHANGED vars PROVE LeaseInv'
  <2>1. UNCHANGED <<clock, incarnation, next_timestamp, gc_protections, active, published,
                    lease_healthy, asked, reply, late>>
    BY <1>19, Zenon DEF vars, oracleVars, metadataVars, trackerVars, flightVars
  <2> QED
    BY <1>2, <1>3, <1>5, <1>6, <2>1, Zenon
<1>20. ASSUME NEW n \in Nodes, Begin(n) PROVE LeaseInv'
  <2>1. PICK observed \in 0..gc_safe_point :
          BeginRefused(n, observed) \/ BeginCovered(n, observed) \/ BeginPublishes(n, observed)
    BY <1>20, Zenon DEF Begin
  <2>2. CASE BeginPublishes(n, observed)
    BY <1>0, <1>7, <2>2, AskBegin, Zenon
  <2> QED
    BY <1>8, <2>1, <2>2, Zenon
<1>21. ASSUME NEW n \in Nodes, ReconcileActive(n) \/ ReconcileIdle(n) \/ HeartbeatRenews(n)
       PROVE  LeaseInv'
  BY <1>0, <1>7, <1>21, AskReconcile, Zenon
<1>22. \A c \in late : Nodes # {}
  BY <1>0, Zenon DEF TypeOK, Commands, Owners
<1> QED
  BY <1>9, <1>10, <1>11, <1>12, <1>13, <1>14, <1>17, <1>18, <1>19, <1>20, <1>21, <1>22, Zenon DEF Next

\* While a node serves the statements of an open transaction the safe point has not
\* passed its snapshot, provided the commands of one process are applied in the
\* order it sent them; a command may still be lost, or applied after its sender gave
\* it up (`GcProtectionTracker`, `remaining_timeout`, `apply_advance_gc_safe_point`).
THEOREM ServedReadersAreProtected ==
  ASSUME ~Overtaking PROVE Spec => []ReaderProtected
<1>1. ASSUME BaseInv, LeaseInv, NEW n \in Nodes, NEW t \in active[n], ServesStatements(n)
      PROVE  gc_safe_point <= t
  <2> DEFINE g == gc_protections[Owner(n)]
  <2>1. TypeOK /\ NodeOK(n) /\ AskOK(n) /\ t \in Snapshots(n) /\ clock[n] \in Nat /\ Skew \in Nat
        /\ t \in Nat /\ gc_safe_point \in Nat
    BY <1>1, GcAssumption, Zenon DEF BaseInv, LeaseInv, NodeOK, Snapshots, TypeOK
  <2>2. Owner(n) \in Owners /\ (g # None => g.floor \in Nat) /\ published[n].deadline \in Nat
    BY <1>1, <2>1, TypesOfNode, Zenon DEF ServesStatements
  <2>3. ~Released(n)
    BY <1>1, <2>1, GcAssumption, Zenon DEF AskOK, Released
  <2>4. g # None
    BY <1>1, <2>1, <2>2, <2>3 DEF ServesStatements, NodeOK, LeaseHeld, Held
  <2>5. g.floor <= t
    <3>1. Below(n, g.floor)
      BY <2>1, <2>4, Zenon DEF NodeOK, FloorsBelow
    <3> QED
      BY <2>1, <3>1, Zenon DEF Below
  <2>6. gc_safe_point <= g.floor
    BY <1>1, <2>2, <2>4, Zenon DEF BaseInv, SafeFloors
  <2> QED
    BY <2>1, <2>2, <2>4, <2>5, <2>6
<1>2. BaseInv /\ LeaseInv => ReaderProtected
  BY <1>1, Zenon DEF ReaderProtected
<1>3. BaseInv /\ BaseInv' /\ LeaseInv /\ [Next]_vars => LeaseInv'
  BY LeaseStep, Zenon
<1> QED
  BY <1>2, <1>3, LeaseInit, Base, PTL DEF Spec
=============================================================================
