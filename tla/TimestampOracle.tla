--------------------------- MODULE TimestampOracle ---------------------------
(***************************************************************************)
(* Allocation of transaction timestamps by the SQL nodes.                  *)
(*                                                                         *)
(* Every node runs one ConcurrentTimestampOracle: an atomic cursor         *)
(* (next_timestamp) under an atomic limit (reserved_until).  The limit is  *)
(* raised through the metadata Raft group, whose state machine keeps one   *)
(* durable frontier (timestamp_reserved_until).  Each atomic instruction   *)
(* of the oracle is an action, because the request handlers share it       *)
(* without a lock; only the refill takes the refill mutex.                 *)
(*                                                                         *)
(* u64 exhaustion is represented by MaxFrontier: a reservation beyond it   *)
(* fails, as the checked additions of the code do.                         *)
(***************************************************************************)
EXTENDS Integers, Sequences

CONSTANTS Nodes,             \* SQL nodes, one oracle each
          Threads,           \* request handlers and Raft appliers
          Home,              \* the node a thread runs on
          MetadataLeader,    \* the node whose metadata replica applies first
          ReservationSize,   \* timestamps asked for by one refill
          PrefetchThreshold, \* refill when so few are left
          MaxFrontier,       \* bound on the durable frontier
          None               \* no thread holds the refill mutex

\* What the proofs assume of the constants, as a hypothesis of each theorem.
OracleAssumption ==
    /\ MetadataLeader \in Nodes
    /\ Home \in [Threads -> Nodes]
    /\ ReservationSize \in Nat \ {0}
    /\ PrefetchThreshold \in Nat
    /\ PrefetchThreshold < ReservationSize
    /\ MaxFrontier \in Nat
    /\ None \notin Threads

VARIABLES
    frontier,       \* timestamp_reserved_until of the committed metadata state
    view,           \* the same field in each node's applied metadata replica
    next_timestamp, \* atomic cursor of each oracle
    reserved_until, \* atomic limit of each oracle
    refill_lock,    \* holder of each oracle's refill mutex
    current,        \* reserved_until as the holder of the mutex loaded it
    requested,      \* requested_until of the holder of the mutex
    from,           \* first timestamp of the interval it was granted
    pc,             \* the instruction each thread executes next
    held,           \* the timestamp each thread works with: the cursor it loaded,
                    \* the target or end of its refill, an observed high water
    issued          \* every timestamp handed out, in allocation order

vars == <<frontier, view, next_timestamp, reserved_until, refill_lock,
          current, requested, from, pc, held, issued>>

Max2(a, b) == IF a >= b THEN a ELSE b

IssuedSet == {issued[i] : i \in 1..Len(issued)}

Init ==
    /\ frontier = 0
    /\ view = [n \in Nodes |-> 0]
    /\ next_timestamp = [n \in Nodes |-> 1]
    /\ reserved_until = [n \in Nodes |-> 0]
    /\ refill_lock = [n \in Nodes |-> None]
    /\ current = [n \in Nodes |-> 0]
    /\ requested = [n \in Nodes |-> 0]
    /\ from = [n \in Nodes |-> 0]
    /\ pc = [t \in Threads |-> "idle"]
    /\ held = [t \in Threads |-> 0]
    /\ issued = << >>

Goto(t, label, ts) ==
    /\ pc' = [pc EXCEPT ![t] = label]
    /\ held' = [held EXCEPT ![t] = ts]

UnlockRefill(n) ==
    /\ refill_lock' = [refill_lock EXCEPT ![n] = None]
    /\ current' = [current EXCEPT ![n] = 0]
    /\ requested' = [requested EXCEPT ![n] = 0]
    /\ from' = [from EXCEPT ![n] = 0]

(***************************************************************************)
(* allocate_timestamp                                                      *)
(***************************************************************************)
LoadNext(t) ==
    /\ pc[t] = "idle"
    /\ Goto(t, "load_reserved", next_timestamp[Home[t]])
    /\ UNCHANGED <<frontier, view, next_timestamp, reserved_until,
                   refill_lock, current, requested, from, issued>>

\* saturating_sub followed by saturating_add(1)
Remaining(reserved, next) == (IF reserved >= next THEN reserved - next ELSE 0) + 1

LoadReserved(t) ==
    LET reserved == reserved_until[Home[t]]
    IN /\ pc[t] = "load_reserved"
       /\ \/ /\ held[t] > reserved
             /\ Goto(t, "refill", held[t])
          \/ /\ held[t] <= reserved
             /\ Remaining(reserved, held[t]) <= PrefetchThreshold
             /\ Goto(t, "refill", reserved + 1)
          \/ /\ held[t] <= reserved
             /\ Remaining(reserved, held[t]) > PrefetchThreshold
             /\ Goto(t, "cas", held[t])
       /\ UNCHANGED <<frontier, view, next_timestamp, reserved_until,
                      refill_lock, current, requested, from, issued>>

CompareExchange(t) ==
    /\ pc[t] = "cas"
    /\ \/ /\ next_timestamp[Home[t]] = held[t]
          /\ next_timestamp' = [next_timestamp EXCEPT ![Home[t]] = held[t] + 1]
          /\ issued' = Append(issued, held[t])
       \/ /\ next_timestamp[Home[t]] # held[t]
          /\ UNCHANGED <<next_timestamp, issued>>
    /\ Goto(t, "idle", 0)
    /\ UNCHANGED <<frontier, view, reserved_until, refill_lock, current,
                   requested, from>>

(***************************************************************************)
(* allocate_commit_timestamp lifts the cursor above the start timestamp    *)
(* and then allocates like any other caller.                               *)
(***************************************************************************)
LiftAboveStart(t) ==
    /\ pc[t] = "idle"
    /\ \E start \in IssuedSet :
         next_timestamp' = [next_timestamp EXCEPT ![Home[t]] = Max2(@, start + 1)]
    /\ UNCHANGED <<frontier, view, reserved_until, refill_lock, current,
                   requested, from, pc, held, issued>>

(***************************************************************************)
(* ensure_reserved_through, under the refill mutex.                        *)
(***************************************************************************)
LockRefill(t) ==
    LET n     == Home[t]
        until == reserved_until[n] + Max2(ReservationSize,
                                          held[t] - reserved_until[n])
    IN /\ pc[t] = "refill"
       /\ refill_lock[n] = None
       /\ IF held[t] <= reserved_until[n]
          THEN Goto(t, "idle", 0) /\ UNCHANGED <<refill_lock, current, requested>>
          ELSE /\ refill_lock' = [refill_lock EXCEPT ![n] = t]
               /\ current' = [current EXCEPT ![n] = reserved_until[n]]
               /\ requested' = [requested EXCEPT ![n] = until]
               /\ Goto(t, "reserve", until)
       /\ UNCHANGED <<frontier, view, next_timestamp, reserved_until, from,
                      issued>>

\* apply_reserve_timestamps by the metadata state machine, and the provider's
\* retry one above the frontier that rejected it
ReserveTimestamps(t) ==
    /\ pc[t] = "reserve"
    /\ IF held[t] <= frontier
       THEN Goto(t, "reserve", frontier + 1) /\ UNCHANGED <<frontier, view,
                                                            from>>
       ELSE /\ held[t] <= MaxFrontier
            /\ frontier' = held[t]
            /\ view' = [view EXCEPT ![MetadataLeader] = held[t]]
            /\ from' = [from EXCEPT ![Home[t]] = frontier + 1]
            /\ Goto(t, "store", held[t])
    /\ UNCHANGED <<refill_lock, current, requested, next_timestamp,
                   reserved_until, issued>>

\* the proposal fails, the retries run out, its reply is lost after it applied
\* or names an invalid interval: the caller gets an error, the mutex is released
ReserveFails(t) ==
    /\ pc[t] \in {"reserve", "store"}
    /\ UnlockRefill(Home[t])
    /\ Goto(t, "idle", 0)
    /\ UNCHANGED <<frontier, view, next_timestamp, reserved_until, issued>>

StoreReserved(t) ==
    LET n == Home[t]
    IN /\ pc[t] = "store"
       /\ from[n] > current[n] /\ held[t] >= requested[n]
       /\ reserved_until' = [reserved_until EXCEPT ![n] = held[t]]
       /\ UnlockRefill(n)
       /\ Goto(t, "idle", 0)
       /\ UNCHANGED <<frontier, view, next_timestamp, issued>>

(***************************************************************************)
(* observe_replicated_high_water: called with the commit timestamp of an   *)
(* applied command and with the GC safe point, which is at most a frontier *)
(* the metadata group reached.                                             *)
(***************************************************************************)
ObserveReserved(t) ==
    /\ pc[t] = "idle"
    /\ \E ts \in IssuedSet \cup {view[Home[t]]} :
         /\ reserved_until' = [reserved_until EXCEPT ![Home[t]] = Max2(@, ts)]
         /\ Goto(t, "observe_next", ts)
    /\ UNCHANGED <<frontier, view, next_timestamp, refill_lock, current,
                   requested, from, issued>>

ObserveNext(t) ==
    /\ pc[t] = "observe_next"
    /\ next_timestamp' = [next_timestamp EXCEPT ![Home[t]] = Max2(@, held[t] + 1)]
    /\ Goto(t, "idle", 0)
    /\ UNCHANGED <<frontier, view, reserved_until, refill_lock, current,
                   requested, from, issued>>

(***************************************************************************)
(* The node's metadata replica applies committed entries; the process      *)
(* restarts and builds its oracle with from_durable_frontier.              *)
(***************************************************************************)
ReplicateFrontier(n) ==
    /\ view[n] < frontier
    /\ view' = [view EXCEPT ![n] = frontier]
    /\ UNCHANGED <<frontier, next_timestamp, reserved_until, refill_lock,
                   current, requested, from, pc, held, issued>>

StopThreads(n) ==
    /\ pc' = [t \in Threads |-> IF Home[t] = n THEN "idle" ELSE pc[t]]
    /\ held' = [t \in Threads |-> IF Home[t] = n THEN 0 ELSE held[t]]
    /\ UnlockRefill(n)

Restart(n) ==
    /\ next_timestamp' = [next_timestamp EXCEPT ![n] = view[n] + 1]
    /\ reserved_until' = [reserved_until EXCEPT ![n] = view[n]]
    /\ StopThreads(n)
    /\ UNCHANGED <<frontier, view, issued>>

Next ==
    \/ \E t \in Threads :
         \/ LoadNext(t) \/ LoadReserved(t) \/ CompareExchange(t)
         \/ LiftAboveStart(t)
         \/ LockRefill(t) \/ ReserveTimestamps(t) \/ ReserveFails(t)
         \/ StoreReserved(t)
         \/ ObserveReserved(t) \/ ObserveNext(t)
    \/ \E n \in Nodes : ReplicateFrontier(n) \/ Restart(n)

Spec == Init /\ [][Next]_vars

(***************************************************************************)
(* Properties                                                              *)
(***************************************************************************)
\* Every oracle field holds a timestamp, every thread is at an instruction.
TypeOK ==
    /\ frontier \in Nat
    /\ view \in [Nodes -> Nat]
    /\ next_timestamp \in [Nodes -> Nat]
    /\ reserved_until \in [Nodes -> Nat]
    /\ refill_lock \in [Nodes -> Threads \cup {None}]
    /\ current \in [Nodes -> Nat]
    /\ requested \in [Nodes -> Nat]
    /\ from \in [Nodes -> Nat]
    /\ pc \in [Threads -> {"idle", "load_reserved", "cas", "refill", "reserve",
                           "store", "observe_next"}]
    /\ held \in [Threads -> Nat]
    /\ issued \in Seq(Nat)

\* A timestamp is never handed out twice, to any transaction on any node, even
\* across restarts (`ConcurrentTimestampOracle::allocate_timestamp`; transaction
\* IDs reuse the start timestamp, so a repeat is also a repeated TxnId).
NeverReused ==
    \A i, j \in 1..Len(issued) : i # j => issued[i] # issued[j]

\* One oracle hands timestamps out in increasing order, whatever its threads,
\* refills, observed high-waters and restarts do.
StrictlyIncreasing ==
    \A i, j \in 1..Len(issued) : i < j => issued[i] < issued[j]

\* No oracle hands out a timestamp the metadata group has not made durable: this
\* is what a restart from the durable frontier relies on.
IssuedIsReserved == \A i \in 1..Len(issued) : issued[i] <= frontier
=============================================================================
