------------------------ MODULE TimestampOracleProofs ------------------------
(***************************************************************************)
(* Proofs about TimestampOracle for every number of nodes and threads and  *)
(* every reservation policy.                                               *)
(***************************************************************************)
EXTENDS TimestampOracle, TLAPS

\* What makes IssuedIsReserved inductive: every limit an oracle holds, and every
\* value a thread is about to use, is covered by the durable frontier.
ReservedInv ==
    /\ TypeOK
    /\ \A n \in Nodes : view[n] <= frontier /\ reserved_until[n] <= frontier
    /\ \A t \in Threads : pc[t] \in {"cas", "store"} => held[t] <= frontier
    /\ IssuedIsReserved

\* What makes StrictlyIncreasing inductive when there is one oracle: its cursor
\* is above everything it handed out, and its metadata replica is current.
OwnerInv ==
    /\ view[MetadataLeader] = frontier
    /\ \A i \in 1..Len(issued) : issued[i] < next_timestamp[MetadataLeader]
    /\ StrictlyIncreasing

\* Every timestamp handed out is a natural number.
LEMMA IssuedNat == ASSUME TypeOK PROVE IssuedSet \subseteq Nat
  BY DEF TypeOK, IssuedSet

LEMMA IssuedElements == ASSUME TypeOK PROVE \A i \in 1..Len(issued) : issued[i] \in Nat
  BY DEF TypeOK

\* A step of allocate_timestamp that hands out ts extends the history by ts.
LEMMA IssuedAppend ==
    ASSUME TypeOK, NEW ts \in Nat, issued' = Append(issued, ts)
    PROVE  /\ issued' \in Seq(Nat)
           /\ Len(issued') = Len(issued) + 1
           /\ Len(issued) \in Nat
           /\ \A i \in 1..Len(issued) : issued'[i] = issued[i]
           /\ issued'[Len(issued) + 1] = ts
  BY DEF TypeOK

\* TypeOK is preserved by every step of the oracles and the metadata group.
LEMMA TypeStep == ASSUME OracleAssumption PROVE TypeOK /\ [Next]_vars => TypeOK'
<1> SUFFICES ASSUME TypeOK, [Next]_vars PROVE TypeOK'
  OBVIOUS
<1>0. /\ \A t \in Threads : Home[t] \in Nodes /\ held[t] \in Nat
      /\ \A n \in Nodes : next_timestamp[n] \in Nat /\ reserved_until[n] \in Nat
      /\ ReservationSize \in Nat
  BY Zenon DEF OracleAssumption, TypeOK
<1>1. ASSUME NEW t \in Threads, LoadNext(t) PROVE TypeOK'
  BY <1>0, <1>1, Zenon DEF LoadNext, Goto, TypeOK
<1>2. ASSUME NEW t \in Threads, LoadReserved(t) PROVE TypeOK'
  <2> PICK label \in {"refill", "cas"}, ts \in Nat : Goto(t, label, ts)
    BY <1>0, <1>2 DEF LoadReserved
  <2> QED
    BY <1>2, Zenon DEF LoadReserved, Goto, TypeOK
<1>3. ASSUME NEW t \in Threads, CompareExchange(t) PROVE TypeOK'
  <2>1. CASE next_timestamp[Home[t]] = held[t]
    <3>1. /\ next_timestamp' = [next_timestamp EXCEPT ![Home[t]] = held[t] + 1]
          /\ Goto(t, "idle", 0)
          /\ UNCHANGED <<frontier, view, reserved_until, refill_lock, current,
                         requested, from>>
      BY <1>3, <2>1, Zenon DEF CompareExchange
    <3>2. issued' \in Seq(Nat)
      <4>1. issued' = Append(issued, held[t])
        BY <1>3, <2>1, Zenon DEF CompareExchange
      <4> QED
        BY <1>0, <4>1, IssuedAppend, Zenon
    <3>3. next_timestamp' \in [Nodes -> Nat]
      BY <1>0, <3>1 DEF TypeOK
    <3>4. pc' \in [Threads -> {"idle", "load_reserved", "cas", "refill", "reserve", "store",
                               "observe_next"}]
      BY <3>1, Zenon DEF Goto, TypeOK
    <3>5. held' \in [Threads -> Nat]
      BY <3>1, Zenon DEF Goto, TypeOK
    <3> QED
      BY <3>1, <3>2, <3>3, <3>4, <3>5, Zenon DEF TypeOK
  <2>2. CASE next_timestamp[Home[t]] # held[t]
    BY <1>3, <2>2, Zenon DEF CompareExchange, Goto, TypeOK
  <2> QED
    BY <2>1, <2>2, Zenon
<1>4. ASSUME NEW t \in Threads, LiftAboveStart(t) PROVE TypeOK'
  <2>1. PICK start \in Nat : next_timestamp' =
              [next_timestamp EXCEPT ![Home[t]] = Max2(@, start + 1)]
    BY <1>4, IssuedNat, Zenon DEF LiftAboveStart
  <2>2. next_timestamp' \in [Nodes -> Nat]
    BY <1>0, <2>1 DEF Max2, TypeOK
  <2> QED
    BY <1>4, <2>2, Zenon DEF LiftAboveStart, TypeOK
<1>5. ASSUME NEW t \in Threads, LockRefill(t) PROVE TypeOK'
  <2>1. CASE held[t] <= reserved_until[Home[t]]
    <3>1. /\ Goto(t, "idle", 0)
          /\ UNCHANGED <<refill_lock, current, requested, frontier, view,
                         next_timestamp, reserved_until, from, issued>>
      BY <1>0, <1>5, <2>1, Zenon DEF LockRefill
    <3> QED
      BY <3>1, Zenon DEF Goto, TypeOK
  <2>2. CASE held[t] > reserved_until[Home[t]]
    <3> DEFINE until == reserved_until[Home[t]]
                          + Max2(ReservationSize, held[t] - reserved_until[Home[t]])
    <3>1. until \in Nat
      BY <1>0, <2>2 DEF Max2
    <3>2. /\ refill_lock' = [refill_lock EXCEPT ![Home[t]] = t]
          /\ current' = [current EXCEPT ![Home[t]] = reserved_until[Home[t]]]
          /\ requested' = [requested EXCEPT ![Home[t]] = until]
          /\ Goto(t, "reserve", until)
          /\ UNCHANGED <<frontier, view, next_timestamp, reserved_until, from,
                         issued>>
      BY <1>0, <1>5, <2>2 DEF LockRefill
    <3> HIDE DEF until
    <3> QED
      BY <1>0, <3>1, <3>2, Zenon DEF Goto, TypeOK
  <2> QED
    BY <1>0, <2>1, <2>2
<1>6. ASSUME NEW t \in Threads, ReserveTimestamps(t) PROVE TypeOK'
  <2>1. CASE held[t] <= frontier
    <3>1. /\ Goto(t, "reserve", frontier + 1)
          /\ UNCHANGED <<frontier, view, from, refill_lock, current, requested,
                         next_timestamp, reserved_until, issued>>
      BY <1>0, <1>6, <2>1, Zenon DEF ReserveTimestamps, TypeOK
    <3> QED
      BY <3>1 DEF Goto, TypeOK
  <2>2. CASE held[t] > frontier
    <3>1. /\ frontier' = held[t]
          /\ view' = [view EXCEPT ![MetadataLeader] = held[t]]
          /\ from' = [from EXCEPT ![Home[t]] = frontier + 1]
          /\ Goto(t, "store", held[t])
          /\ UNCHANGED <<refill_lock, current, requested, next_timestamp,
                         reserved_until, issued>>
      <4>1. ~(held[t] <= frontier)
        BY <1>0, <2>2 DEF TypeOK
      <4> QED
        BY <1>6, <4>1, Zenon DEF ReserveTimestamps
    <3>2. /\ view' \in [Nodes -> Nat] /\ from' \in [Nodes -> Nat]
          /\ frontier' \in Nat
      <4>1. /\ held[t] \in Nat /\ frontier + 1 \in Nat
            /\ view \in [Nodes -> Nat] /\ from \in [Nodes -> Nat]
        BY <1>0 DEF TypeOK
      <4> QED
        BY <3>1, <4>1, Zenon
    <3> QED
      BY <1>0, <3>1, <3>2, Zenon DEF Goto, TypeOK
  <2> QED
    <3>1. frontier \in Nat /\ held[t] \in Nat
      BY <1>0, Zenon DEF TypeOK
    <3> QED
      BY <2>1, <2>2, <3>1
<1>7. ASSUME NEW t \in Threads, ReserveFails(t) PROVE TypeOK'
  BY <1>0, <1>7, Zenon DEF ReserveFails, UnlockRefill, Goto, TypeOK
<1>8. ASSUME NEW t \in Threads, StoreReserved(t) PROVE TypeOK'
  BY <1>0, <1>8, Zenon DEF StoreReserved, UnlockRefill, Goto, TypeOK
<1>9. ASSUME NEW t \in Threads, ObserveReserved(t) PROVE TypeOK'
  <2> PICK ts \in Nat : /\ reserved_until' =
                              [reserved_until EXCEPT ![Home[t]] = Max2(@, ts)]
                        /\ Goto(t, "observe_next", ts)
    <3>1. IssuedSet \cup {view[Home[t]]} \subseteq Nat
      BY <1>0, IssuedNat, Zenon DEF TypeOK
    <3> QED
      BY <1>9, <3>1, Zenon DEF ObserveReserved
  <2> QED
    BY <1>0, <1>9, Zenon DEF ObserveReserved, Goto, Max2, TypeOK
<1>10. ASSUME NEW t \in Threads, ObserveNext(t) PROVE TypeOK'
  BY <1>0, <1>10 DEF ObserveNext, Goto, Max2, TypeOK
<1>11. ASSUME NEW n \in Nodes, ReplicateFrontier(n) PROVE TypeOK'
  BY <1>11, Zenon DEF ReplicateFrontier, TypeOK
<1>12. ASSUME NEW n \in Nodes, Restart(n) PROVE TypeOK'
  BY <1>12 DEF Restart, StopThreads, UnlockRefill, TypeOK
<1>13. CASE UNCHANGED vars
  BY <1>13, Zenon DEF vars, TypeOK
<1> QED
  BY <1>1, <1>2, <1>3, <1>4, <1>5, <1>6, <1>7, <1>8, <1>9, <1>10, <1>11,
     <1>12, <1>13 DEF Next

\* The durable frontier covers every timestamp handed out: each step of the
\* oracles keeps ReservedInv.
LEMMA ReservedStep == ASSUME OracleAssumption PROVE ReservedInv /\ [Next]_vars => ReservedInv'
<1> SUFFICES ASSUME ReservedInv, [Next]_vars PROVE ReservedInv'
  OBVIOUS
<1> DEFINE Limits == \A n \in Nodes : view[n] <= frontier /\ reserved_until[n] <= frontier
           InUse  == \A t \in Threads : pc[t] \in {"cas", "store"} => held[t] <= frontier
<1>0. TypeOK /\ TypeOK' /\ Limits /\ InUse /\ IssuedIsReserved
  BY TypeStep, Zenon DEF ReservedInv
<1>a. /\ \A t \in Threads : Home[t] \in Nodes /\ held[t] \in Nat
      /\ \A n \in Nodes : reserved_until[n] \in Nat /\ view[n] \in Nat
      /\ frontier \in Nat
  BY <1>0, Zenon DEF OracleAssumption, TypeOK
<1>b. SUFFICES Limits' /\ InUse' /\ IssuedIsReserved'
  BY <1>0, Zenon DEF ReservedInv
<1>c. ASSUME UNCHANGED <<frontier, view, reserved_until, issued>>
      PROVE  Limits' /\ IssuedIsReserved'
  BY <1>0, <1>c, Zenon DEF IssuedIsReserved
<1>d. ASSUME NEW t \in Threads, NEW label, NEW ts, Goto(t, label, ts),
             frontier' = frontier,
             label \in {"cas", "store"} => ts <= frontier
      PROVE  InUse'
  BY <1>0, <1>d, Zenon DEF Goto, TypeOK
<1>1. ASSUME NEW t \in Threads, LoadNext(t) PROVE Limits' /\ InUse' /\ IssuedIsReserved'
  BY <1>1, <1>c, <1>d, Zenon DEF LoadNext
<1>2. ASSUME NEW t \in Threads, LoadReserved(t) PROVE Limits' /\ InUse' /\ IssuedIsReserved'
  <2>1. PICK label, ts : /\ Goto(t, label, ts)
                         /\ label \in {"cas", "store"} => ts <= frontier
    BY <1>0, <1>2, <1>a DEF LoadReserved
  <2> QED
    BY <1>2, <1>c, <1>d, <2>1, Zenon DEF LoadReserved
<1>3. ASSUME NEW t \in Threads, CompareExchange(t) PROVE Limits' /\ InUse' /\ IssuedIsReserved'
  <2>1. Limits' /\ InUse'
    BY <1>0, <1>3, <1>d, Zenon DEF CompareExchange
  <2>2. CASE issued' = issued
    <3>1. frontier' = frontier
      BY <1>3, Zenon DEF CompareExchange
    <3> QED
      BY <1>0, <2>1, <2>2, <3>1, Zenon DEF IssuedIsReserved
  <2>3. CASE issued' = Append(issued, held[t])
    <3>1. held[t] <= frontier /\ frontier' = frontier
      BY <1>0, <1>3, Zenon DEF CompareExchange
    <3>2. /\ Len(issued') = Len(issued) + 1
          /\ Len(issued) \in Nat
          /\ \A i \in 1..Len(issued) : issued'[i] = issued[i]
          /\ issued'[Len(issued) + 1] = held[t]
      BY <1>0, <1>a, <2>3, IssuedAppend, Zenon
    <3>3. ASSUME NEW i \in 1..Len(issued') PROVE issued'[i] <= frontier
      <4>1. CASE i = Len(issued) + 1
        BY <3>1, <3>2, <4>1, Zenon
      <4>2. CASE i \in 1..Len(issued)
        BY <1>0, <3>2, <4>2, Zenon DEF IssuedIsReserved
      <4> QED
        BY <3>2, <3>3, <4>1, <4>2
    <3> QED
      BY <2>1, <3>1, <3>3, Zenon DEF IssuedIsReserved
  <2> QED
    BY <1>3, <2>1, <2>2, <2>3, Zenon DEF CompareExchange
<1>4. ASSUME NEW t \in Threads, LiftAboveStart(t) PROVE Limits' /\ InUse' /\ IssuedIsReserved'
  BY <1>0, <1>4, <1>c, Zenon DEF LiftAboveStart
<1>5. ASSUME NEW t \in Threads, LockRefill(t) PROVE Limits' /\ InUse' /\ IssuedIsReserved'
  <2>1. PICK ts : Goto(t, "idle", 0) \/ Goto(t, "reserve", ts)
    BY <1>5, Zenon DEF LockRefill
  <2> QED
    BY <1>5, <1>c, <1>d, <2>1, Zenon DEF LockRefill
<1>6. ASSUME NEW t \in Threads, ReserveTimestamps(t) PROVE Limits' /\ InUse' /\ IssuedIsReserved'
  <2>1. CASE held[t] <= frontier
    BY <1>6, <1>a, <1>c, <1>d, <2>1, Zenon DEF ReserveTimestamps
  <2>2. CASE frontier < held[t]
    <3>1. /\ frontier' = held[t]
          /\ view' = [view EXCEPT ![MetadataLeader] = held[t]]
          /\ Goto(t, "store", held[t])
          /\ UNCHANGED <<reserved_until, issued>>
      BY <1>6, <1>a, <2>2 DEF ReserveTimestamps
    <3>2. Limits'
      <4> SUFFICES ASSUME NEW n \in Nodes
                   PROVE  view'[n] <= held[t] /\ reserved_until[n] <= held[t]
        BY <3>1, Zenon
      <4>1. view'[n] = view[n] \/ view'[n] = held[t]
        BY <1>0, <3>1, Zenon DEF TypeOK
      <4> QED
        BY <1>0, <1>a, <2>2, <4>1
    <3>3. InUse'
      BY <1>0, <1>a, <2>2, <3>1 DEF Goto, TypeOK
    <3>4. IssuedIsReserved'
      <4>1. \A i \in 1..Len(issued) : issued[i] \in Nat
        BY <1>0 DEF TypeOK
      <4> QED
        BY <1>0, <1>a, <2>2, <3>1, <4>1 DEF IssuedIsReserved
    <3> QED
      BY <3>2, <3>3, <3>4, Zenon
  <2> QED
    BY <1>a, <2>1, <2>2
<1>7. ASSUME NEW t \in Threads, ReserveFails(t) PROVE Limits' /\ InUse' /\ IssuedIsReserved'
  BY <1>7, <1>c, <1>d, Zenon DEF ReserveFails
<1>8. ASSUME NEW t \in Threads, StoreReserved(t) PROVE Limits' /\ InUse' /\ IssuedIsReserved'
  <2>1. InUse'
    BY <1>8, <1>d, Zenon DEF StoreReserved
  <2>2. /\ reserved_until' = [reserved_until EXCEPT ![Home[t]] = held[t]]
        /\ UNCHANGED <<frontier, view, issued>>
        /\ held[t] <= frontier
    BY <1>0, <1>8, Zenon DEF StoreReserved
  <2> QED
    BY <1>0, <1>a, <2>1, <2>2, Zenon DEF TypeOK, IssuedIsReserved
<1>9. ASSUME NEW t \in Threads, ObserveReserved(t) PROVE Limits' /\ InUse' /\ IssuedIsReserved'
  <2>1. PICK ts \in IssuedSet \cup {view[Home[t]]} :
          /\ reserved_until' = [reserved_until EXCEPT ![Home[t]] = Max2(@, ts)]
          /\ Goto(t, "observe_next", ts)
    BY <1>9, Zenon DEF ObserveReserved
  <2>2. UNCHANGED <<frontier, view, issued>>
    BY <1>9, Zenon DEF ObserveReserved
  <2>3. ts \in Nat /\ ts <= frontier
    BY <1>0, <1>a, IssuedNat, Zenon DEF IssuedSet, IssuedIsReserved
  <2>4. InUse'
    BY <1>d, <2>1, <2>2, Zenon
  <2> QED
    BY <1>0, <1>a, <2>1, <2>2, <2>3, <2>4, Zenon DEF TypeOK, IssuedIsReserved, Max2
<1>10. ASSUME NEW t \in Threads, ObserveNext(t) PROVE Limits' /\ InUse' /\ IssuedIsReserved'
  BY <1>10, <1>c, <1>d, Zenon DEF ObserveNext
<1>11. ASSUME NEW n \in Nodes, ReplicateFrontier(n) PROVE Limits' /\ InUse' /\ IssuedIsReserved'
  BY <1>0, <1>11, <1>a DEF ReplicateFrontier, TypeOK, IssuedIsReserved
<1>12. ASSUME NEW n \in Nodes, Restart(n) PROVE Limits' /\ InUse' /\ IssuedIsReserved'
  <2>1. Limits' /\ IssuedIsReserved'
    BY <1>0, <1>12, <1>a, Zenon DEF Restart, TypeOK, IssuedIsReserved
  <2>2. InUse'
    BY <1>0, <1>12, <1>a, Zenon DEF Restart, StopThreads, TypeOK
  <2> QED
    BY <2>1, <2>2, Zenon
<1>13. CASE UNCHANGED vars
  BY <1>0, <1>13, <1>c, Zenon DEF vars
<1> QED
  BY <1>1, <1>2, <1>3, <1>4, <1>5, <1>6, <1>7, <1>8, <1>9, <1>10, <1>11,
     <1>12, <1>13 DEF Next

\* The initial oracles satisfy both invariants.
LEMMA InitInv == ASSUME OracleAssumption PROVE Init => ReservedInv /\ OwnerInv
  BY DEF OracleAssumption, Init, ReservedInv, OwnerInv, TypeOK, IssuedIsReserved, StrictlyIncreasing

\* Whatever the number of SQL nodes, no oracle hands out a timestamp beyond the
\* durable metadata frontier, so a restart from that frontier skips all of them.
THEOREM IssuedReserved ==
    ASSUME OracleAssumption
    PROVE  Spec => []IssuedIsReserved
<1>1. Init => ReservedInv
  BY InitInv, Zenon
<1>2. ReservedInv => IssuedIsReserved
  BY Zenon DEF ReservedInv
<1> QED
  BY <1>1, <1>2, ReservedStep, PTL DEF Spec

\* A step that hands nothing out may move the cursor, not below what was handed out.
LEMMA CursorAbove ==
    ASSUME OwnerInv, UNCHANGED issued, view'[MetadataLeader] = frontier',
           \A i \in 1..Len(issued) : issued[i] < next_timestamp'[MetadataLeader]
    PROVE  OwnerInv'
  BY Zenon DEF OwnerInv, StrictlyIncreasing

LEMMA CursorRaised ==
    ASSUME OracleAssumption, TypeOK, OwnerInv, UNCHANGED issued, view'[MetadataLeader] = frontier',
           next_timestamp'[MetadataLeader] \in Nat,
           next_timestamp'[MetadataLeader] >= next_timestamp[MetadataLeader]
    PROVE  OwnerInv'
<1>1. ASSUME NEW i \in 1..Len(issued)
      PROVE  issued[i] < next_timestamp'[MetadataLeader]
  <2>1. issued[i] \in Nat /\ next_timestamp[MetadataLeader] \in Nat
    BY DEF OracleAssumption, TypeOK
  <2>2. issued[i] < next_timestamp[MetadataLeader]
    BY Zenon DEF OwnerInv
  <2> QED
    BY <2>1, <2>2
<1> QED
  BY <1>1, CursorAbove, Zenon

\* The cursor's value is handed out and the cursor moves past it.
LEMMA CursorIssued ==
    ASSUME TypeOK, OwnerInv, NEW ts \in Nat, issued' = Append(issued, ts),
           ts = next_timestamp[MetadataLeader],
           next_timestamp'[MetadataLeader] = ts + 1,
           view'[MetadataLeader] = frontier'
    PROVE  OwnerInv'
<1>1. /\ Len(issued') = Len(issued) + 1
      /\ Len(issued) \in Nat
      /\ \A i \in 1..Len(issued) : issued'[i] = issued[i]
      /\ issued'[Len(issued) + 1] = ts
  BY IssuedAppend, Zenon
<1>2. \A i \in 1..Len(issued) : issued[i] \in Nat
  BY IssuedElements, Zenon
<1>3. \A i \in 1..Len(issued) : issued[i] < ts
  BY Zenon DEF OwnerInv
<1>4. \A i \in 1..Len(issued') : i \in 1..Len(issued) \/ i = Len(issued) + 1
  BY <1>1
<1>5. ASSUME NEW i \in 1..Len(issued') PROVE issued'[i] < ts + 1
  <2>1. CASE i \in 1..Len(issued)
    <3>1. issued'[i] = issued[i] /\ issued[i] \in Nat /\ issued[i] < ts
      BY <1>1, <1>2, <1>3, <2>1, Zenon
    <3> QED
      BY <3>1
  <2>2. CASE i = Len(issued) + 1
    BY <1>1, <2>2
  <2> QED
    BY <1>4, <2>1, <2>2, Zenon
<1>6. ASSUME NEW i \in 1..Len(issued'), NEW j \in 1..Len(issued'), i < j
      PROVE  issued'[i] < issued'[j]
  <2>1. i \in 1..Len(issued)
    BY <1>1, <1>6
  <2>2. CASE j \in 1..Len(issued)
    <3>1. issued[i] < issued[j]
      BY <1>6, <2>1, <2>2, Zenon DEF OwnerInv, StrictlyIncreasing
    <3> QED
      BY <1>1, <2>1, <2>2, <3>1, Zenon
  <2>3. CASE j = Len(issued) + 1
    BY <1>1, <1>3, <2>1, <2>3, Zenon
  <2> QED
    BY <1>4, <2>2, <2>3, Zenon
<1> QED
  BY <1>5, <1>6, Zenon DEF OwnerInv, StrictlyIncreasing

\* With one oracle, each step keeps the cursor above everything handed out.
LEMMA OwnerStep ==
    ASSUME OracleAssumption, Nodes = {MetadataLeader}
    PROVE  ReservedInv /\ OwnerInv /\ [Next]_vars => OwnerInv'
<1> SUFFICES ASSUME TypeOK, IssuedIsReserved, OwnerInv, [Next]_vars PROVE OwnerInv'
  BY Zenon DEF ReservedInv
<1>0. /\ \A t \in Threads : Home[t] = MetadataLeader /\ held[t] \in Nat
      /\ next_timestamp \in [{MetadataLeader} -> Nat] /\ view \in [{MetadataLeader} -> Nat]
      /\ frontier \in Nat /\ view[MetadataLeader] = frontier
  BY Zenon DEF OracleAssumption, TypeOK, OwnerInv
<1>a. next_timestamp[MetadataLeader] \in Nat
  BY <1>0, Zenon
<1>1. ASSUME UNCHANGED <<frontier, view, next_timestamp, issued>> PROVE OwnerInv'
  BY <1>0, <1>a, <1>1, CursorRaised
<1>2. ASSUME NEW t \in Threads,
             LoadNext(t) \/ LoadReserved(t) \/ LockRefill(t) \/ ReserveFails(t)
               \/ StoreReserved(t) \/ ObserveReserved(t)
      PROVE  OwnerInv'
  BY <1>1, <1>2, Zenon DEF LoadNext, LoadReserved, LockRefill, ReserveFails, StoreReserved,
     ObserveReserved
<1>3. ASSUME NEW t \in Threads, CompareExchange(t) PROVE OwnerInv'
  <2>1. CASE next_timestamp[Home[t]] # held[t]
    BY <1>1, <1>3, <2>1, Zenon DEF CompareExchange
  <2>2. CASE next_timestamp[Home[t]] = held[t]
    <3>1. issued' = Append(issued, held[t])
      BY <1>3, <2>2, Zenon DEF CompareExchange
    <3>2. /\ next_timestamp' = [next_timestamp EXCEPT ![MetadataLeader] = held[t] + 1]
          /\ UNCHANGED <<frontier, view>>
      BY <1>0, <1>3, <2>2, Zenon DEF CompareExchange
    <3>3. /\ held[t] \in Nat /\ held[t] = next_timestamp[MetadataLeader]
          /\ next_timestamp'[MetadataLeader] = held[t] + 1
          /\ view'[MetadataLeader] = frontier'
      BY <1>0, <2>2, <3>2, Zenon
    <3> QED
      BY <3>1, <3>3, CursorIssued, Zenon
  <2> QED
    BY <2>1, <2>2, Zenon
<1>4. ASSUME NEW t \in Threads, LiftAboveStart(t) PROVE OwnerInv'
  <2>1. PICK start \in Nat : next_timestamp' =
              [next_timestamp EXCEPT ![MetadataLeader] = Max2(@, start + 1)]
    BY <1>0, <1>4, IssuedNat, Zenon DEF LiftAboveStart
  <2>2. next_timestamp'[MetadataLeader] \in Nat
        /\ next_timestamp'[MetadataLeader] >= next_timestamp[MetadataLeader]
    BY <1>0, <1>a, <2>1 DEF Max2
  <2>3. UNCHANGED <<frontier, view, issued>>
    BY <1>4, Zenon DEF LiftAboveStart
  <2> QED
    BY <1>0, <2>2, <2>3, CursorRaised, Zenon
<1>5. ASSUME NEW t \in Threads, ReserveTimestamps(t) PROVE OwnerInv'
  <2>1. UNCHANGED <<next_timestamp, issued>>
    BY <1>5, Zenon DEF ReserveTimestamps
  <2>2. view'[MetadataLeader] = frontier'
    BY <1>0, <1>5, Zenon DEF ReserveTimestamps
  <2> QED
    BY <1>a, <2>1, <2>2, CursorRaised
<1>6. ASSUME NEW t \in Threads, ObserveNext(t) PROVE OwnerInv'
  <2>1. /\ next_timestamp' = [next_timestamp EXCEPT ![MetadataLeader] = Max2(@, held[t] + 1)]
        /\ UNCHANGED <<frontier, view, issued>>
    BY <1>0, <1>6, Zenon DEF ObserveNext
  <2>2. next_timestamp'[MetadataLeader] \in Nat
        /\ next_timestamp'[MetadataLeader] >= next_timestamp[MetadataLeader]
    BY <1>0, <1>a, <2>1 DEF Max2
  <2> QED
    BY <1>0, <2>1, <2>2, CursorRaised, Zenon
<1>7. ASSUME NEW n \in Nodes, ReplicateFrontier(n) PROVE OwnerInv'
  BY <1>0, <1>7 DEF ReplicateFrontier
<1>8. ASSUME NEW n \in Nodes, Restart(n) PROVE OwnerInv'
  <2>1. /\ next_timestamp' = [next_timestamp EXCEPT ![MetadataLeader] = frontier + 1]
        /\ UNCHANGED <<frontier, view, issued>>
    BY <1>0, <1>8, Zenon DEF Restart
  <2>2. \A i \in 1..Len(issued) : issued[i] \in Nat /\ issued[i] <= frontier
    BY DEF TypeOK, IssuedIsReserved
  <2>3. next_timestamp'[MetadataLeader] = frontier + 1
    BY <1>0, <2>1, Zenon
  <2>4. ASSUME NEW i \in 1..Len(issued)
        PROVE  issued[i] < next_timestamp'[MetadataLeader]
    <3>1. issued[i] \in Nat /\ issued[i] <= frontier
      BY <2>2, Zenon
    <3> QED
      BY <1>0, <2>3, <3>1
  <2> QED
    BY <1>0, <2>1, <2>4, CursorAbove, Zenon
<1>9. CASE UNCHANGED vars
  BY <1>1, <1>9, Zenon DEF vars
<1> QED
  BY <1>2, <1>3, <1>4, <1>5, <1>6, <1>7, <1>8, <1>9, Zenon DEF Next

\* One SQL node, with any number of request handlers, refills, lost replies,
\* observed high-waters and restarts, never hands a timestamp out twice and hands
\* them out in increasing order.
THEOREM SingleOwnerIncreasing ==
    ASSUME OracleAssumption, Nodes = {MetadataLeader}
    PROVE  Spec => []StrictlyIncreasing
<1>1. ReservedInv /\ OwnerInv /\ [Next]_vars => (ReservedInv /\ OwnerInv)'
  BY OwnerStep, ReservedStep, Zenon
<1>2. ReservedInv /\ OwnerInv => StrictlyIncreasing
  BY Zenon DEF OwnerInv
<1> QED
  BY <1>1, <1>2, InitInv, PTL DEF Spec
=============================================================================
