----------------------- MODULE TabletSnapshotsProofs -----------------------
(***************************************************************************)
(* Snapshots, for any replicas, log, permits and any history of refused    *)
(* batches, lost offers, broken streams and restarts: what a replica has   *)
(* acknowledged can be recovered, the install under way is the accepted    *)
(* one, and no turn takes a tablet back.                                   *)
(***************************************************************************)
EXTENDS TabletSnapshots, WellFoundedInduction, TLAPS

(***************************************************************************)
(* Types.                                                                  *)
(***************************************************************************)
Image == [id : Nat, index : Nat]
Phases == {"none", "Received", "BoundaryPending", "ReadyPending"}

NodeState ==
    [status : {"up", "failed"}, applied : Nat, tablet : Nat, boundary : Image, latest : Image,
     expected : Image, pending : [phase : Phases, image : Image], candidate : Image,
     waiting : Image, ready : Image]

Bounded(S) == S \subseteq Nat /\ \E b \in Nat : \A i \in S : i <= b

IsStore(s) ==
    /\ s = [files |-> s.files, next |-> s.next]
    /\ s.next \in Nat
    /\ Bounded(DOMAIN s.files)
    /\ s.files = [i \in DOMAIN s.files |-> s.files[i]]

TypeOK ==
    /\ leader \in Replicas \cup {Outside}
    /\ node \in [Replicas -> NodeState]
    /\ store = [r \in Replicas |-> store[r]]
    /\ \A r \in Replicas : IsStore(store[r])
    /\ offers \subseteq [to : Replicas, image : Image]
    /\ streams \subseteq [from : Replicas, to : Replicas, image : Image,
                          sent : BOOLEAN, open : BOOLEAN]
    /\ inbound \in [Replicas -> Seq(Image)]
    /\ acked \in [Replicas -> Nat]

(***************************************************************************)
(* The inductive invariant, of one replica: a is the index it acknowledged. *)
(* The files of the durable boundary and of a candidate that waits for its  *)
(* boundary are there, a candidate never lies below the boundary, and the  *)
(* state machine covers the boundary unless an install is completing.      *)
(***************************************************************************)
Recoverable(n, s, a) ==
    /\ a <= n.boundary.index
    /\ n.boundary # NoImage => load_verified(s, n.boundary)
    /\ n.candidate # NoImage =>
         /\ load_verified(s, n.candidate)
         /\ n.boundary.index <= n.candidate.index
         /\ n.candidate.index <= n.applied

Consistent(n) ==
    /\ n.tablet = n.applied
    /\ n.status = "up" /\ n.ready = NoImage => n.boundary.index <= n.applied
    /\ n.waiting # NoImage => n.applied < n.waiting.index
    /\ n.status = "up" /\ n.pending # NoInstall => n.pending.image = n.expected

SnapshotInv ==
    /\ TypeOK
    /\ \A r \in Replicas : Recoverable(node[r], store[r], acked[r]) /\ Consistent(node[r])

(***************************************************************************)
(* The same of a turn in progress, and how far its stages have come.       *)
(***************************************************************************)
IsTurn(T) ==
    /\ T = [node |-> T.node, store |-> T.store, inbound |-> T.inbound, out |-> T.out,
            done |-> T.done, refusals |-> T.refusals]
    /\ T.node \in NodeState /\ IsStore(T.store) /\ T.inbound \in Seq(Image)
    /\ T.out \in Nat /\ T.done \in BOOLEAN

TurnInv(T, a) ==
    /\ IsTurn(T)
    /\ Recoverable(T.node, T.store, a) /\ Consistent(T.node)
    /\ ~T.done => T.node.status = "up"
    /\ T.out <= T.node.boundary.index

Clear(T) == T.done \/ T.node.candidate = NoImage

\* U is T with another node, and perhaps its inbound images taken
Rebuilt(T, U, n) ==
    /\ U = [node |-> U.node, store |-> U.store, inbound |-> U.inbound, out |-> U.out,
            done |-> U.done, refusals |-> U.refusals]
    /\ U.node = n /\ U.store = T.store /\ U.inbound \in Seq(Image)
    /\ U.out = T.out /\ U.done = T.done

WithPending(n, p) == [n EXCEPT !.pending = p]
Installs == [phase : Phases, image : Image]

\* what Raft messages do to a node
Advances(n, m) ==
    /\ m \in NodeState /\ Consistent(m)
    /\ n.applied <= m.applied
    /\ m.boundary = n.boundary /\ m.candidate = n.candidate /\ m.status = n.status

\* after install_received: the file of an install that goes on is published
Received(T) ==
    ~T.done =>
        /\ T.node.pending.phase # "ReadyPending"
        /\ T.node.pending.phase = "BoundaryPending" =>
              /\ load_verified(T.store, T.node.pending.image)
              /\ T.node.pending.image # NoImage

\* after install_boundary: the pointer of an install that goes on is durable
Bound(T) ==
    ~T.done /\ T.node.pending.phase = "ReadyPending" =>
        /\ T.node.boundary = T.node.pending.image
        /\ T.node.boundary # NoImage
        /\ T.node.applied <= T.node.boundary.index
        /\ T.node.waiting = NoImage

(***************************************************************************)
(* Smallest and largest elements.                                          *)
(***************************************************************************)
LEMMA LeastElement ==
  ASSUME NEW S \in SUBSET Nat, S # {}
  PROVE  \E x \in S : \A y \in S : x <= y
<1> DEFINE R == OpToRel(<, Nat)
<1>1. IsWellFoundedOn(R, Nat)
  BY NatLessThanWellFounded, Zenon
<1>2. \A x, y \in Nat : x < y => <<x, y>> \in R
  BY Zenon DEF OpToRel
<1> HIDE DEF R
<1>3. PICK x \in S : \A y \in S : <<y, x>> \notin R
  BY <1>1, WFMin, Zenon
<1>4. ASSUME NEW y \in S PROVE x <= y
  <2>1. x \in Nat /\ y \in Nat
    OBVIOUS
  <2>2. ~(y < x)
    BY <1>2, <1>3, <2>1, Zenon
  <2> QED
    BY <2>1, <2>2
<1> QED
  BY <1>4, Zenon

LEMMA MinIsElement == ASSUME NEW S \in SUBSET Nat, S # {} PROVE Min(S) \in S
  BY LeastElement, Zenon DEF Min

LEMMA MaxOfTwo ==
  ASSUME NEW a \in Nat, NEW b \in Nat
  PROVE  Max({a, b}) \in Nat /\ Max({a, b}) >= a /\ Max({a, b}) >= b /\ Max({a, b}) \in {a, b}
<1>1. \E x \in {a, b} : \A y \in {a, b} : x >= y
  <2>1. CASE a >= b
    BY <2>1
  <2>2. CASE b >= a
    BY <2>2
  <2> QED
    BY <2>1, <2>2
<1>2. Max({a, b}) \in {a, b} /\ \A y \in {a, b} : Max({a, b}) >= y
  BY <1>1, Zenon DEF Max
<1> QED
  BY <1>2, Zenon

\* The allocator's first identity is a number, whatever files there are.
LEMMA MaxIsNatural ==
  ASSUME NEW S, Bounded(S), S # {}
  PROVE  Max(S) \in Nat
<1> DEFINE U == {b \in Nat : \A i \in S : i <= b}
<1>1. U \in SUBSET Nat /\ U # {}
  BY Zenon DEF Bounded
<1>2. PICK b \in U : \A y \in U : b <= y
  BY <1>1, LeastElement, Zenon
<1>3. S \subseteq Nat
  BY Zenon DEF Bounded
<1>4. b \in S
  <2>1. SUFFICES ASSUME b \notin S PROVE FALSE
    OBVIOUS
  <2>2. PICK i \in S : TRUE
    OBVIOUS
  <2>3. \A j \in S : j <= b - 1
    BY <2>1, <1>2, <1>3
  <2>4. b - 1 \in Nat
    BY <2>2, <2>1, <1>2, <1>3
  <2>5. b - 1 \in U
    BY <2>3, <2>4, Zenon
  <2> QED
    BY <2>5, <1>2, <2>4
<1>5. \A i \in S : b >= i
  BY <1>2, <1>3, Zenon
<1>6. Max(S) \in S
  BY <1>4, <1>5, Zenon DEF Max
<1> QED
  BY <1>6, <1>3, Zenon

(***************************************************************************)
(* The directory.                                                          *)
(***************************************************************************)
LEMMA BoundedPlus ==
  ASSUME NEW S, Bounded(S), NEW i \in Nat
  PROVE  Bounded(S \cup {i})
<1>1. PICK b \in Nat : \A j \in S : j <= b
  BY Zenon DEF Bounded
<1>2. S \subseteq Nat
  BY Zenon DEF Bounded
<1>3. b + i \in Nat /\ \A j \in S \cup {i} : j <= b + i
  BY <1>1, <1>2
<1> QED
  BY <1>2, <1>3, Zenon DEF Bounded

LEMMA AllocatedId ==
  ASSUME NEW s, IsStore(s)
  PROVE  LET id == allocate_snapshot_id(s)
         IN  id.id \in Nat /\ IsStore(id.store) /\ id.store.files = s.files
<1>1. next_id_after_published_snapshots(s) \in Nat
  <2>1. Bounded({0} \cup DOMAIN s.files)
    <3>1. {0} \cup DOMAIN s.files = DOMAIN s.files \cup {0}
      OBVIOUS
    <3> QED
      BY <3>1, BoundedPlus, Zenon DEF IsStore
  <2>2. Max({0} \cup DOMAIN s.files) \in Nat
    BY <2>1, MaxIsNatural, Zenon
  <2> QED
    BY <2>2 DEF next_id_after_published_snapshots
<1> DEFINE id == IF s.next = 0 THEN next_id_after_published_snapshots(s) ELSE s.next
<1>2. id \in Nat
  BY <1>1, Zenon DEF IsStore
<1> HIDE DEF id
<1>3. PICK t : t = [s EXCEPT !.next = id + 1]
  BY Zenon
<1>4. t.files = s.files /\ t.next = id + 1 /\ t = [files |-> t.files, next |-> t.next]
  BY <1>3, Zenon DEF IsStore
<1>5. IsStore(t)
  BY <1>2, <1>4 DEF IsStore
<1>6. allocate_snapshot_id(s) = [id |-> id, store |-> t]
  BY <1>3, Zenon DEF allocate_snapshot_id, id
<1>7. PICK a : a = allocate_snapshot_id(s)
  OBVIOUS
<1>8. a.id = id /\ a.store = t
  BY <1>6, <1>7
<1> QED
  BY <1>2, <1>4, <1>5, <1>7, <1>8, Zenon

\* Publishing keeps the images that are there, and adds the new one.
LEMMA Published ==
  ASSUME NEW s, IsStore(s), NEW image \in Image, CanPublish(s, image)
  PROVE  /\ IsStore(publish(s, image))
         /\ load_verified(publish(s, image), image)
         /\ \A i \in Image : load_verified(s, i) => load_verified(publish(s, image), i)
<1>1. PICK f : f = [i \in DOMAIN s.files \cup {image.id} |-> IF i = image.id THEN image ELSE s.files[i]]
  BY Zenon
<1>2. publish(s, image) = [s EXCEPT !.files = f]
  BY <1>1, Zenon DEF publish
<1>3. PICK t : t = publish(s, image)
  OBVIOUS
<1>4. t.files = f /\ t.next = s.next /\ t = [files |-> t.files, next |-> t.next]
  BY <1>2, <1>3 DEF IsStore
<1>5. image.id \in Nat
  BY Zenon DEF Image
<1>6. DOMAIN f = DOMAIN s.files \cup {image.id}
  BY <1>1, Zenon
<1>7. Bounded(DOMAIN f)
  <2>1. Bounded(DOMAIN s.files)
    BY Zenon DEF IsStore
  <2>2. Bounded(DOMAIN s.files \cup {image.id})
    BY <1>5, <2>1, BoundedPlus, Zenon
  <2> QED
    BY <2>2, <1>6, Zenon
<1>8. IsStore(t)
  BY <1>1, <1>4, <1>7, <1>6 DEF IsStore
<1>9. load_verified(t, image)
  BY <1>1, <1>4, <1>6 DEF load_verified
<1>10. ASSUME NEW i \in Image, load_verified(s, i) PROVE load_verified(t, i)
  <2>1. i.id \in DOMAIN f /\ f[i.id] = IF i.id = image.id THEN image ELSE s.files[i.id]
    BY <1>1, <1>6, <1>10, Zenon DEF load_verified
  <2>2. f[i.id] = i
    BY <2>1, <1>10, Zenon DEF load_verified, CanPublish
  <2> QED
    BY <2>1, <2>2, <1>4, Zenon DEF load_verified
<1> QED
  BY <1>3, <1>8, <1>9, <1>10, Zenon

\* Pruning keeps the image it is done for.
LEMMA Pruned ==
  ASSUME NEW s, IsStore(s), NEW image \in Image, load_verified(s, image)
  PROVE  IsStore(prune_older_snapshots(s, image)) /\ load_verified(prune_older_snapshots(s, image), image)
<1>1. PICK D : D = {i \in DOMAIN s.files : i >= image.id}
  BY Zenon
<1>2. PICK t : t = prune_older_snapshots(s, image)
  OBVIOUS
<1>3. t = [s EXCEPT !.files = [x \in D |-> s.files[x]]]
  BY <1>1, <1>2, Zenon DEF prune_older_snapshots, PruneOlder, Restrict
<1>4. t.files = [x \in D |-> s.files[x]] /\ t.next = s.next /\ t = [files |-> t.files, next |-> t.next]
  BY <1>3, Zenon DEF IsStore
<1>5. Bounded(D)
  BY <1>1, Zenon DEF IsStore, Bounded
<1>6. image.id \in D
  BY <1>1 DEF load_verified, Image
<1> QED
  BY <1>2, <1>4, <1>5, <1>6 DEF IsStore, load_verified

(***************************************************************************)
(* The stages of a turn, one lemma each.                                   *)
(***************************************************************************)
LEMMA NoImageType == NoImage \in Image /\ NoImage.id = 0 /\ NoImage.index = 0
  BY Zenon DEF NoImage, Image

LEMMA ImageParts == ASSUME NEW i \in Image PROVE i.id \in Nat /\ i.index \in Nat
  BY Zenon DEF Image

LEMMA NodeParts ==
  ASSUME NEW n \in NodeState
  PROVE  /\ n.applied \in Nat /\ n.tablet \in Nat
         /\ n.boundary \in Image /\ n.latest \in Image /\ n.expected \in Image
         /\ n.candidate \in Image /\ n.waiting \in Image /\ n.ready \in Image
         /\ n.pending \in [phase : Phases, image : Image]
         /\ n.pending.phase \in Phases /\ n.pending.image \in Image
  BY Zenon DEF NodeState

LEMMA TurnParts ==
  ASSUME NEW T, NEW a, TurnInv(T, a)
  PROVE  /\ T = [node |-> T.node, store |-> T.store, inbound |-> T.inbound, out |-> T.out,
                 done |-> T.done, refusals |-> T.refusals]
         /\ T.node \in NodeState /\ IsStore(T.store) /\ T.inbound \in Seq(Image)
         /\ T.out \in Nat /\ T.done \in BOOLEAN
  BY Zenon DEF TurnInv, IsTurn

LEMMA Stopped ==
  ASSUME NEW T, NEW a \in Nat, TurnInv(T, a),
         NEW U, U \in {Done(T), Fail(T), Refused(T)}
  PROVE  TurnInv(U, a) /\ U.done /\ U.node.applied = T.node.applied
<1>1. T.node \in NodeState /\ T.node.boundary \in Image
  BY Zenon DEF TurnInv, IsTurn, NodeState
<1>2. U.store = T.store /\ U.inbound = T.inbound /\ U.out = T.out /\ U.done = TRUE
  BY Zenon DEF TurnInv, IsTurn, Done, Fail, Refused
<1>3. U = [node |-> U.node, store |-> U.store, inbound |-> U.inbound, out |-> U.out,
           done |-> U.done, refusals |-> U.refusals]
  BY Zenon DEF TurnInv, IsTurn, Done, Fail, Refused
<1>4. U.node \in {T.node, [T.node EXCEPT !.status = "failed"]}
  BY Zenon DEF TurnInv, IsTurn, Done, Fail, Refused
<1>5. PICK n : n = U.node
  OBVIOUS
<1>6. /\ n \in NodeState
      /\ n.status \in {T.node.status, "failed"}
      /\ n.applied = T.node.applied /\ n.tablet = T.node.tablet
      /\ n.boundary = T.node.boundary /\ n.expected = T.node.expected
      /\ n.pending = T.node.pending /\ n.candidate = T.node.candidate
      /\ n.waiting = T.node.waiting /\ n.ready = T.node.ready
  BY <1>1, <1>4, <1>5 DEF NodeState
<1>7. IsTurn(U)
  BY <1>2, <1>3, <1>5, <1>6, Zenon DEF TurnInv, IsTurn
<1>8. Recoverable(n, U.store, a)
  BY <1>2, <1>6, Zenon DEF TurnInv, Recoverable
<1>9. Consistent(n)
  BY <1>6, Zenon DEF TurnInv, Consistent
<1> QED
  BY <1>2, <1>5, <1>6, <1>7, <1>8, <1>9, Zenon DEF TurnInv

\* A candidate becomes the boundary, and its file survives the pruning.
LEMMA CandidatePublished ==
  ASSUME NEW T, NEW a \in Nat, TurnInv(T, a), NEW refused,
         T.done \/ T.node.candidate # NoImage
  PROVE  LET U == publish_candidate(T, refused)
         IN  TurnInv(U, a) /\ Clear(U) /\ U.node.applied = T.node.applied
<1>1. CASE T.done
  BY <1>1, Zenon DEF publish_candidate, Clear
<1>2. CASE ~T.done /\ refused = "boundary"
  BY <1>2, Stopped, Zenon DEF publish_candidate, Clear
<1>3. CASE ~T.done /\ refused # "boundary"
  <2>1. PICK c : c = T.node.candidate
    OBVIOUS
  <2>2. c \in Image /\ c # NoImage /\ raft_pointer_for_tablet(c) = c
    BY <1>3, <2>1, Zenon DEF TurnInv, IsTurn, NodeState, Image, raft_pointer_for_tablet
  <2>3. load_verified(T.store, c) /\ T.node.boundary.index <= c.index /\ c.index <= T.node.applied
    BY <2>1, <2>2, Zenon DEF TurnInv, Recoverable
  <2>4. PICK U : U = publish_candidate(T, refused)
    OBVIOUS
  <2>5. U = restore_persisted_snapshot([T EXCEPT !.node.boundary = c], c)
    BY <1>3, <2>1, <2>2, <2>4, Zenon
    DEF publish_candidate, persist_snapshot_boundary, persist_external_snapshot_boundary
  <2>6. /\ U.node = [T.node EXCEPT !.boundary = c, !.latest = c, !.candidate = NoImage]
        /\ U.store = prune_older_snapshots(T.store, c)
        /\ U.inbound = T.inbound /\ U.out = T.out /\ U.done = T.done
        /\ U = [node |-> U.node, store |-> U.store, inbound |-> U.inbound, out |-> U.out,
                done |-> U.done, refusals |-> U.refusals]
    BY <2>5, Zenon DEF restore_persisted_snapshot, TurnInv, IsTurn, NodeState
  <2>7. PICK n : n = U.node
    OBVIOUS
  <2>8. /\ n \in NodeState
        /\ n.status = T.node.status
        /\ n.applied = T.node.applied /\ n.tablet = T.node.tablet
        /\ n.boundary = c /\ n.expected = T.node.expected
        /\ n.pending = T.node.pending /\ n.candidate = NoImage
        /\ n.waiting = T.node.waiting /\ n.ready = T.node.ready
    BY <2>2, <2>6, <2>7, TurnParts, NoImageType, ZenonT(60) DEF NodeState
  <2>9. IsStore(U.store) /\ load_verified(U.store, c)
    <3>1. IsStore(T.store)
      BY TurnParts, Zenon
    <3>2. PICK t : t = prune_older_snapshots(T.store, c)
      OBVIOUS
    <3>3. IsStore(t) /\ load_verified(t, c)
      BY <2>2, <2>3, <3>1, <3>2, Pruned, Zenon
    <3> QED
      BY <2>6, <3>2, <3>3, Zenon
  <2>10. IsTurn(U)
    BY <2>6, <2>7, <2>8, <2>9 DEF TurnInv, IsTurn
  <2>11. a <= c.index /\ U.out <= c.index
    <3>1. T.out \in Nat /\ T.node.boundary.index \in Nat /\ c.index \in Nat
      BY <2>2, TurnParts, NodeParts, ImageParts, Zenon
    <3>2. a <= T.node.boundary.index /\ U.out <= T.node.boundary.index
      BY <2>6, Zenon DEF TurnInv, Recoverable
    <3>3. U.out \in Nat
      BY <2>6, <3>1, Zenon
    <3> QED
      BY <2>3, <3>1, <3>2, <3>3
  <2>12. Recoverable(n, U.store, a)
    BY <2>8, <2>9, <2>11, Zenon DEF Recoverable
  <2>13. Consistent(n)
    BY <2>3, <2>8, Zenon DEF TurnInv, Consistent
  <2>14. TurnInv(U, a)
    BY <2>6, <2>7, <2>8, <2>10, <2>11, <2>12, <2>13, Zenon DEF TurnInv
  <2> QED
    BY <2>4, <2>7, <2>8, <2>14, Zenon DEF Clear
<1> QED
  BY <1>1, <1>2, <1>3, Zenon

\* A new candidate is an image of the applied state, which covers the boundary.
LEMMA CandidatePrepared ==
  ASSUME NEW T, NEW a \in Nat, TurnInv(T, a), ~T.done,
         T.node.candidate = NoImage, T.node.ready = NoImage
  PROVE  LET U == prepare_local_snapshot(T)
         IN  /\ TurnInv(U, a) /\ (U.done \/ U.node.candidate # NoImage)
             /\ U.node.applied = T.node.applied
<1>1. PICK id : id = allocate_snapshot_id(T.store)
  OBVIOUS
<1>2. id.id \in Nat /\ IsStore(id.store) /\ id.store.files = T.store.files
  BY <1>1, AllocatedId, Zenon DEF TurnInv, IsTurn
<1>3. PICK image : image = generate_from_ready_loop(T.node, id.id)
  OBVIOUS
<1>4. image \in Image /\ image.index = T.node.applied
  BY <1>2, <1>3, Zenon
  DEF generate_from_ready_loop, generate_local_snapshot, TurnInv, IsTurn, NodeState, Image
<1>5. \A i \in Image : load_verified(T.store, i) => load_verified(id.store, i)
  BY <1>2, Zenon DEF load_verified
<1>6. T.node.boundary \in Image /\ T.node.boundary.index <= T.node.applied
  BY Zenon DEF TurnInv, Consistent, IsTurn, NodeState
<1>7. CASE CanPublish(id.store, image)
  <2>1. PICK U : U = [T EXCEPT !.store = publish(id.store, image), !.node.candidate = image]
    OBVIOUS
  <2>2. U = prepare_local_snapshot(T)
    BY <1>1, <1>3, <1>7, <2>1, Zenon DEF prepare_local_snapshot
  <2>3. /\ U.node = [T.node EXCEPT !.candidate = image]
        /\ U.store = publish(id.store, image)
        /\ U.inbound = T.inbound /\ U.out = T.out /\ U.done = T.done
        /\ U = [node |-> U.node, store |-> U.store, inbound |-> U.inbound, out |-> U.out,
                done |-> U.done, refusals |-> U.refusals]
    BY <2>1, Zenon DEF TurnInv, IsTurn, NodeState
  <2>4. PICK n : n = U.node
    OBVIOUS
  <2>5. /\ n \in NodeState
        /\ n.status = T.node.status
        /\ n.applied = T.node.applied /\ n.tablet = T.node.tablet
        /\ n.boundary = T.node.boundary /\ n.expected = T.node.expected
        /\ n.pending = T.node.pending /\ n.candidate = image
        /\ n.waiting = T.node.waiting /\ n.ready = T.node.ready
    BY <1>4, <2>3, <2>4 DEF TurnInv, IsTurn, NodeState
  <2>6. /\ IsStore(U.store) /\ load_verified(U.store, image)
        /\ \A i \in Image : load_verified(id.store, i) => load_verified(U.store, i)
    <3>1. PICK t : t = publish(id.store, image)
      OBVIOUS
    <3>2. /\ IsStore(t) /\ load_verified(t, image)
          /\ \A i \in Image : load_verified(id.store, i) => load_verified(t, i)
      BY <1>2, <1>4, <1>7, <3>1, Published, Zenon
    <3> QED
      BY <2>3, <3>1, <3>2, Zenon
  <2>7. IsTurn(U)
    BY <2>3, <2>4, <2>5, <2>6 DEF TurnInv, IsTurn
  <2>8. n.candidate.index <= n.applied
    BY <1>4, <2>5 DEF TurnInv, IsTurn, NodeState
  <2>9. Recoverable(n, U.store, a)
    BY <1>4, <1>5, <1>6, <2>5, <2>6, <2>8, Zenon DEF TurnInv, Recoverable
  <2>10. Consistent(n)
    BY <2>5, Zenon DEF TurnInv, Consistent
  <2>11. TurnInv(U, a)
    BY <2>3, <2>4, <2>5, <2>7, <2>9, <2>10, Zenon DEF TurnInv
  <2>12. image # NoImage
    BY <1>7 DEF CanPublish, ValidMetadata, NoImage
  <2> QED
    BY <2>2, <2>4, <2>5, <2>11, <2>12, Zenon
<1>8. CASE ~CanPublish(id.store, image)
  <2>1. PICK V : V = [T EXCEPT !.store = id.store]
    BY Zenon
  <2>2. prepare_local_snapshot(T) = Fail(V)
    BY <1>1, <1>3, <1>8, <2>1, Zenon DEF prepare_local_snapshot
  <2>3. /\ V.node = T.node /\ V.store = id.store
        /\ V.inbound = T.inbound /\ V.out = T.out /\ V.done = T.done
        /\ V = [node |-> V.node, store |-> V.store, inbound |-> V.inbound, out |-> V.out,
                done |-> V.done, refusals |-> V.refusals]
    BY <2>1, Zenon DEF TurnInv, IsTurn
  <2>4. IsTurn(V)
    BY <1>2, <2>3 DEF TurnInv, IsTurn
  <2>5. Recoverable(V.node, V.store, a)
    BY <1>5, <1>6, <2>3, Zenon DEF TurnInv, Recoverable
  <2>6. TurnInv(V, a)
    BY <2>3, <2>4, <2>5, Zenon DEF TurnInv
  <2>7. Fail(V) \in {Done(V), Fail(V), Refused(V)}
    OBVIOUS
  <2>8. TurnInv(Fail(V), a) /\ Fail(V).done /\ Fail(V).node.applied = V.node.applied
    BY <2>6, <2>7, Stopped, Zenon
  <2> QED
    BY <2>2, <2>3, <2>8, Zenon
<1> QED
  BY <1>7, <1>8, Zenon

\* Raft messages: an offer is taken beyond the applied index only, and an accepted
\* offer drops the install under way.
LEMMA Stepped ==
  ASSUME NEW n \in NodeState, NEW image \in Image, Consistent(n),
         NEW m, m \in {n, StepInstall(n, image), StepAppend(n)}
  PROVE  Advances(n, m)
<1>1. CASE m = n
  BY <1>1, NodeParts DEF Advances
<1>2. CASE m = StepInstall(n, image)
  <2>1. CASE image.index > n.applied
    <3>1. m = [n EXCEPT !.waiting = image, !.expected = image, !.pending = NoInstall]
      BY <1>2, <2>1, Zenon DEF StepInstall, expect_snapshot_install, ExpectInstall, NodeState
    <3>2. NoInstall \in [phase : Phases, image : Image]
      BY NoImageType, Zenon DEF NoInstall, Phases
    <3>3. /\ m \in NodeState /\ m.status = n.status
          /\ m.applied = n.applied /\ m.tablet = n.tablet
          /\ m.boundary = n.boundary /\ m.expected = image
          /\ m.pending = NoInstall /\ m.candidate = n.candidate
          /\ m.waiting = image /\ m.ready = n.ready
      BY <3>1, <3>2, Zenon DEF NodeState
    <3>4. n.applied < image.index /\ n.applied <= m.applied
      BY <2>1, <3>3, NodeParts, ImageParts
    <3> QED
      BY <3>3, <3>4, Zenon DEF Consistent, Advances
  <2>2. CASE ~(image.index > n.applied)
    BY <1>2, <2>2, NodeParts DEF StepInstall, Advances
  <2> QED
    BY <2>1, <2>2, Zenon
<1>3. CASE m = StepAppend(n)
  <2>1. PICK w : w = IF n.waiting.index <= n.applied + 1 THEN NoImage ELSE n.waiting
    OBVIOUS
  <2>2. w \in Image /\ (w # NoImage => n.applied + 1 < w.index)
    <3>1. n.waiting \in Image /\ n.waiting.index \in Nat /\ n.applied \in Nat
      BY NodeParts, ImageParts, Zenon
    <3> QED
      BY <2>1, <3>1, NoImageType
  <2>3. m = [n EXCEPT !.applied = @ + 1, !.tablet = @ + 1, !.waiting = w]
    BY <1>3, <2>1, Zenon DEF StepAppend
  <2>3a. PICK x, y \in Nat : x = n.applied + 1 /\ y = n.tablet + 1
    BY NodeParts
  <2>3b. m = [n EXCEPT !.applied = x, !.tablet = y, !.waiting = w]
    BY <2>3, <2>3a, Zenon
  <2>4. /\ m \in NodeState /\ m.status = n.status
        /\ m.applied = n.applied + 1 /\ m.tablet = n.tablet + 1
        /\ m.boundary = n.boundary /\ m.expected = n.expected
        /\ m.pending = n.pending /\ m.candidate = n.candidate
        /\ m.waiting = w /\ m.ready = n.ready
    BY <2>2, <2>3a, <2>3b, Zenon DEF NodeState
  <2>5. n.applied <= n.applied + 1
        /\ (n.boundary.index <= n.applied => n.boundary.index <= n.applied + 1)
    <3>1. n.applied \in Nat /\ n.boundary.index \in Nat
      BY NodeParts, ImageParts, Zenon
    <3> QED
      BY <3>1
  <2> QED
    BY <2>2, <2>4, <2>5, Zenon DEF Consistent, Advances
<1> QED
  BY <1>1, <1>2, <1>3, Zenon

\* A change of the node alone that keeps its files' owners keeps the invariant.
LEMMA NodeReplaced ==
  ASSUME NEW T, NEW a \in Nat, TurnInv(T, a), NEW n, Advances(T.node, n),
         NEW U, Rebuilt(T, U, n)
  PROVE  TurnInv(U, a)
<1> n \in NodeState
  BY Zenon DEF Advances
<1>2. IsTurn(U)
  BY TurnParts, Zenon DEF IsTurn, Rebuilt
<1>3. n.candidate # NoImage => n.candidate.index <= n.applied
  <2>1. n.candidate.index \in Nat /\ n.applied \in Nat /\ T.node.applied \in Nat
    BY TurnParts, NodeParts, ImageParts, Zenon
  <2>2. n.candidate # NoImage => n.candidate.index <= T.node.applied
    BY Zenon DEF TurnInv, Recoverable, Advances
  <2>3. T.node.applied <= n.applied
    BY Zenon DEF Advances
  <2> QED
    BY <2>1, <2>2, <2>3
<1>4. Recoverable(n, U.store, a)
  BY <1>3, Zenon DEF TurnInv, Recoverable, Advances, Rebuilt
<1> QED
  BY <1>2, <1>4, Zenon DEF TurnInv, Advances, Rebuilt

\* The fields of a turn whose node is replaced.
LEMMA Rebuilding ==
  ASSUME NEW T, NEW a, TurnInv(T, a), NEW n
  PROVE  /\ Rebuilt(T, T, T.node)
         /\ Rebuilt(T, [T EXCEPT !.node = n], n)
         /\ Rebuilt(T, [T EXCEPT !.inbound = <<>>, !.node = n], n)
<1>1. T = [node |-> T.node, store |-> T.store, inbound |-> T.inbound, out |-> T.out,
           done |-> T.done, refusals |-> T.refusals]
  BY TurnParts, Zenon
<1>1a. T.inbound \in Seq(Image)
  BY TurnParts, Zenon
<1>2a. <<>> \in Seq(Image)
  OBVIOUS
<1>2. PICK e : e = <<>> /\ e \in Seq(Image)
  BY <1>2a, Zenon
<1>3. Rebuilt(T, T, T.node)
  BY <1>1, <1>1a, Zenon DEF Rebuilt
<1>4. PICK U : U = [T EXCEPT !.node = n]
  BY Zenon
<1>5. /\ U.node = n /\ U.store = T.store /\ U.inbound = T.inbound /\ U.out = T.out /\ U.done = T.done
      /\ U = [node |-> U.node, store |-> U.store, inbound |-> U.inbound, out |-> U.out,
              done |-> U.done, refusals |-> U.refusals]
  BY <1>1, <1>4, Zenon
<1>6. PICK V : V = [T EXCEPT !.inbound = e, !.node = n]
  BY Zenon
<1>7. /\ V.node = n /\ V.store = T.store /\ V.inbound = e /\ V.out = T.out /\ V.done = T.done
      /\ V = [node |-> V.node, store |-> V.store, inbound |-> V.inbound, out |-> V.out,
              done |-> V.done, refusals |-> V.refusals]
  <2>1. V = [node |-> n, store |-> T.store, inbound |-> e, out |-> T.out,
             done |-> T.done, refusals |-> T.refusals]
    BY <1>1, <1>6, Zenon
  <2> QED
    BY <2>1, Zenon
<1>8. Rebuilt(T, U, n)
  BY <1>1a, <1>5, Zenon DEF Rebuilt
<1>9. Rebuilt(T, V, n)
  BY <1>2, <1>7, Zenon DEF Rebuilt
<1> QED
  BY <1>2, <1>3, <1>4, <1>6, <1>8, <1>9, Zenon

LEMMA ControlStage ==
  ASSUME NEW T, NEW a \in Nat, TurnInv(T, a), Clear(T), NEW control, control.image \in Image
  PROVE  LET U == Control(T, control)
         IN  TurnInv(U, a) /\ Clear(U) /\ T.node.applied <= U.node.applied
<1>1. PICK U : U = Control(T, control)
  BY Zenon
<1>2. T.node \in NodeState /\ Consistent(T.node)
  BY TurnParts, Zenon DEF TurnInv
<1>3. \E n \in {T.node, StepInstall(T.node, control.image), StepAppend(T.node)} : Rebuilt(T, U, n)
  <2>1. CASE snapshot_phase_blocks_host_control(T.node.pending.phase)
    BY <1>1, <2>1, Rebuilding, Zenon DEF Control
  <2>2. CASE ~snapshot_phase_blocks_host_control(T.node.pending.phase)
    <3>1. CASE control.kind = "install"
      <4>1. U = [T EXCEPT !.node = StepInstall(T.node, control.image)]
        BY <1>1, <2>2, <3>1 DEF Control
      <4> QED
        BY <4>1, Rebuilding, Zenon
    <3>2. CASE control.kind = "append"
      <4>1. U = [T EXCEPT !.node = StepAppend(T.node)]
        BY <1>1, <2>2, <3>2, Zenon DEF Control
      <4> QED
        BY <4>1, Rebuilding, Zenon
    <3>3. CASE control.kind # "install" /\ control.kind # "append"
      <4>1. U = T
        BY <1>1, <2>2, <3>3 DEF Control
      <4> QED
        BY <4>1, Rebuilding, Zenon
    <3> QED
      BY <3>1, <3>2, <3>3, Zenon
  <2> QED
    BY <2>1, <2>2, Zenon
<1>4. PICK n : Advances(T.node, n) /\ Rebuilt(T, U, n)
  BY <1>2, <1>3, Stepped, Zenon
<1>5. TurnInv(U, a)
  BY <1>4, NodeReplaced, Zenon
<1> QED
  BY <1>1, <1>4, <1>5, Zenon DEF Clear, Advances, Rebuilt

\* The install under way may end, or be one with the expected metadata.
LEMMA PendingSet ==
  ASSUME NEW n \in NodeState, Consistent(n), NEW p \in Installs,
         p = NoInstall \/ p.image = n.expected
  PROVE  Advances(n, WithPending(n, p)) /\ WithPending(n, p).pending = p
<1>1. PICK m : m = WithPending(n, p)
  OBVIOUS
<1>2. /\ m \in NodeState /\ m.status = n.status
      /\ m.applied = n.applied /\ m.tablet = n.tablet
      /\ m.boundary = n.boundary /\ m.expected = n.expected
      /\ m.pending = p /\ m.candidate = n.candidate
      /\ m.waiting = n.waiting /\ m.ready = n.ready
  BY <1>1, Zenon DEF WithPending, NodeState, Installs
<1>3. n.applied <= m.applied
  BY <1>2, NodeParts
<1>4. Consistent(m)
  BY <1>2, Zenon DEF Consistent
<1> QED
  BY <1>1, <1>2, <1>3, <1>4, Zenon DEF Advances

LEMMA FilePublished ==
  ASSUME NEW T, NEW a \in Nat, TurnInv(T, a), NEW image \in Image, CanPublish(T.store, image)
  PROVE  LET U == [T EXCEPT !.store = publish(T.store, image)]
         IN  TurnInv(U, a) /\ U.node = T.node /\ U.done = T.done /\ load_verified(U.store, image)
<1>1. PICK s : s = publish(T.store, image)
  BY Zenon
<1>2. IsStore(T.store)
  BY TurnParts, Zenon
<1>3. /\ IsStore(s) /\ load_verified(s, image)
      /\ \A i \in Image : load_verified(T.store, i) => load_verified(s, i)
  BY <1>1, <1>2, Published, Zenon
<1>4. PICK U : U = [T EXCEPT !.store = s]
  BY Zenon
<1>5. /\ U.node = T.node /\ U.store = s /\ U.inbound = T.inbound /\ U.out = T.out /\ U.done = T.done
      /\ U = [node |-> U.node, store |-> U.store, inbound |-> U.inbound, out |-> U.out,
              done |-> U.done, refusals |-> U.refusals]
  BY <1>4, TurnParts
<1>6. IsTurn(U)
  BY <1>3, <1>5, TurnParts, Zenon DEF IsTurn
<1>7. T.node.boundary \in Image /\ T.node.candidate \in Image
  BY TurnParts, NodeParts, Zenon
<1>8. Recoverable(U.node, U.store, a)
  BY <1>3, <1>5, <1>7, Zenon DEF TurnInv, Recoverable
<1>9. TurnInv(U, a)
  BY <1>5, <1>6, <1>8, Zenon DEF TurnInv
<1> QED
  BY <1>1, <1>3, <1>4, <1>5, <1>9, Zenon

\* Bytes count only with the metadata the reactor expects.
LEMMA CorrelateStage ==
  ASSUME NEW T, NEW a \in Nat, TurnInv(T, a), Clear(T), ~T.done
  PROVE  LET U == correlate_inbound(T)
         IN  TurnInv(U, a) /\ Clear(U) /\ T.node.applied <= U.node.applied
<1>1. PICK K : K = {k \in DOMAIN T.inbound : raft_metadata_for_tablet(T.inbound[k]) = T.node.expected}
  BY Zenon
<1>2. PICK p : p = IF K = {} \/ T.node.pending # NoInstall THEN T.node.pending
                   ELSE [phase |-> "Received", image |-> T.inbound[Min(K)]]
  BY Zenon
<1>3. PICK U : U = correlate_inbound(T)
  BY Zenon
<1>4. T.node \in NodeState /\ Consistent(T.node) /\ T.inbound \in Seq(Image) /\ T.node.pending \in Installs
  BY TurnParts, NodeParts, Zenon DEF TurnInv, Installs
<1>5. Rebuilt(T, U, WithPending(T.node, p))
  <2>1. U = [T EXCEPT !.inbound = <<>>, !.node.pending = p]
    BY <1>1, <1>2, <1>3, Zenon DEF correlate_inbound
  <2>2. [T EXCEPT !.inbound = <<>>, !.node.pending = p]
          = [T EXCEPT !.inbound = <<>>, !.node = WithPending(T.node, p)]
    <3>1. T = [node |-> T.node, store |-> T.store, inbound |-> T.inbound, out |-> T.out,
               done |-> T.done, refusals |-> T.refusals]
      BY TurnParts, Zenon
    <3> QED
      BY <3>1, Zenon DEF WithPending
  <2> QED
    BY <2>1, <2>2, Rebuilding, Zenon
<1>6. K # {} => T.inbound[Min(K)] = T.node.expected /\ T.inbound[Min(K)] \in Image
  <2>1. SUFFICES ASSUME K # {} PROVE T.inbound[Min(K)] = T.node.expected /\ T.inbound[Min(K)] \in Image
    BY Zenon
  <2>2. K \in SUBSET Nat
    BY <1>1, <1>4
  <2>3. Min(K) \in K
    BY <2>1, <2>2, MinIsElement, Zenon
  <2>4. PICK k : k = Min(K)
    BY Zenon
  <2>5. k \in DOMAIN T.inbound /\ raft_metadata_for_tablet(T.inbound[k]) = T.node.expected
    BY <1>1, <2>3, <2>4, Zenon
  <2>6. T.inbound[k] \in Image
    BY <1>4, <2>5
  <2>7. raft_metadata_for_tablet(T.inbound[k]) = T.inbound[k]
    BY <2>6, Zenon DEF raft_metadata_for_tablet, Image
  <2> QED
    BY <2>4, <2>5, <2>6, <2>7, Zenon
<1>7. p \in Installs
  <2>1. CASE K = {} \/ T.node.pending # NoInstall
    BY <1>2, <1>4, <2>1, Zenon
  <2>2. CASE ~(K = {} \/ T.node.pending # NoInstall)
    BY <1>2, <1>6, <2>2 DEF Installs, Phases
  <2> QED
    BY <2>1, <2>2, Zenon
<1>8. p = NoInstall \/ p.image = T.node.expected
  <2>1. CASE K = {} \/ T.node.pending # NoInstall
    BY <1>2, <2>1, Zenon DEF TurnInv, Consistent
  <2>2. CASE ~(K = {} \/ T.node.pending # NoInstall)
    BY <1>2, <1>6, <2>2
  <2> QED
    BY <2>1, <2>2, Zenon
<1>9. Advances(T.node, WithPending(T.node, p))
  BY <1>4, <1>7, <1>8, PendingSet, Zenon
<1>10. TurnInv(U, a)
  BY <1>5, <1>9, NodeReplaced, Zenon
<1> QED
  BY <1>3, <1>5, <1>9, <1>10, Zenon DEF Clear, Advances, Rebuilt

\* The file is there before the install goes on.
LEMMA ReceivedStage ==
  ASSUME NEW T, NEW a \in Nat, TurnInv(T, a), Clear(T), ~T.done, NEW no_permit
  PROVE  LET U == install_received(T, no_permit)
         IN  TurnInv(U, a) /\ Clear(U) /\ Received(U) /\ T.node.applied <= U.node.applied
<1>1. /\ T.node \in NodeState /\ Consistent(T.node) /\ T.node.pending \in Installs
      /\ T.node.status = "up"
  BY TurnParts, NodeParts, Zenon DEF TurnInv, Installs
<1>2. T.node.applied <= T.node.applied
  BY <1>1, NodeParts
<1>3. NoInstall \in Installs /\ NoInstall.phase = "none"
  BY NoImageType, Zenon DEF NoInstall, Installs, Phases
<1>4. CASE T.node.pending.phase # "Received"
  <2>1. [T EXCEPT !.node.pending = NoInstall] = [T EXCEPT !.node = WithPending(T.node, NoInstall)]
    BY Zenon DEF WithPending
  <2>2. PICK U : U = install_received(T, no_permit)
    BY Zenon
  <2>3. U = [T EXCEPT !.node.pending = NoInstall]
    BY <1>4, <2>2, Zenon DEF install_received
  <2>4. Rebuilt(T, U, WithPending(T.node, NoInstall))
    BY <2>1, <2>3, Rebuilding, Zenon
  <2>5. Advances(T.node, WithPending(T.node, NoInstall)) /\ WithPending(T.node, NoInstall).pending = NoInstall
    BY <1>1, <1>3, PendingSet, Zenon
  <2>6. TurnInv(U, a)
    BY <2>4, <2>5, NodeReplaced, Zenon
  <2>7. U.node.pending.phase = "none"
    BY <1>3, <2>4, <2>5, Zenon DEF Rebuilt
  <2> QED
    BY <2>2, <2>4, <2>5, <2>6, <2>7, Zenon DEF Clear, Advances, Rebuilt, Received
<1>5. CASE T.node.pending.phase = "Received" /\ no_permit
  <2>1. install_received(T, no_permit) = Done(T)
    BY <1>5, Zenon DEF install_received
  <2>2. TurnInv(Done(T), a) /\ Done(T).done /\ Done(T).node.applied = T.node.applied
    BY Stopped, Zenon
  <2> QED
    BY <1>2, <2>1, <2>2, Zenon DEF Clear, Received
<1>6. CASE T.node.pending.phase = "Received" /\ ~no_permit /\ ~CanPublish(T.store, T.node.pending.image)
  <2>1. install_received(T, no_permit) = Fail(T)
    BY <1>6, Zenon DEF install_received, prepare_incoming_snapshot
  <2>2. TurnInv(Fail(T), a) /\ Fail(T).done /\ Fail(T).node.applied = T.node.applied
    BY Stopped, Zenon
  <2> QED
    BY <1>2, <2>1, <2>2, Zenon DEF Clear, Received
<1>7. CASE T.node.pending.phase = "Received" /\ ~no_permit /\ CanPublish(T.store, T.node.pending.image)
  <2>1. PICK image : image = T.node.pending.image
    BY Zenon
  <2>2. image \in Image /\ image # NoImage
    BY <1>1, <1>7, <2>1 DEF Installs, CanPublish, ValidMetadata, NoImage
  <2>3. PICK V : V = [T EXCEPT !.store = publish(T.store, image)]
    BY Zenon
  <2>4. TurnInv(V, a) /\ V.node = T.node /\ V.done = T.done /\ load_verified(V.store, image)
    BY <1>7, <2>1, <2>2, <2>3, FilePublished, Zenon
  <2>5. PICK p : p = [phase |-> "BoundaryPending", image |-> image]
    BY Zenon
  <2>6. p \in Installs /\ p.phase = "BoundaryPending" /\ p.image = image
    BY <2>2, <2>5 DEF Installs, Phases
  <2>7. p.image = T.node.expected
    <3>1. T.node.pending # NoInstall
      BY <1>3, <1>7
    <3> QED
      BY <1>1, <2>1, <2>6, <3>1, Zenon DEF Consistent
  <2>8. Advances(T.node, WithPending(T.node, p)) /\ WithPending(T.node, p).pending = p
    BY <1>1, <2>6, <2>7, PendingSet, Zenon
  <2>9. PICK U : U = install_received(T, no_permit)
    BY Zenon
  <2>10. U = [V EXCEPT !.node = WithPending(V.node, p)]
    <3>1. U = [T EXCEPT !.store = publish(T.store, image), !.node.pending.phase = "BoundaryPending"]
      BY <1>7, <2>1, <2>9, Zenon DEF install_received, prepare_incoming_snapshot
    <3>2. T = [node |-> T.node, store |-> T.store, inbound |-> T.inbound, out |-> T.out,
               done |-> T.done, refusals |-> T.refusals]
      BY TurnParts, Zenon
    <3>3. WithPending(T.node, p) = [T.node EXCEPT !.pending.phase = "BoundaryPending"]
      BY <1>1, <2>1, <2>5 DEF WithPending, Installs, NodeState
    <3>4. U = [T EXCEPT !.store = publish(T.store, image), !.node = WithPending(T.node, p)]
      BY <3>1, <3>3, Zenon
    <3> QED
      BY <2>3, <2>4, <3>2, <3>4
  <2>11. Rebuilt(V, U, WithPending(V.node, p))
    BY <2>4, <2>10, Rebuilding, Zenon
  <2>12. TurnInv(U, a)
    BY <2>4, <2>8, <2>11, NodeReplaced, Zenon
  <2>13. U.store = V.store /\ U.node.pending = p /\ U.done = T.done /\ U.node.candidate = T.node.candidate
         /\ T.node.applied <= U.node.applied
    BY <2>4, <2>8, <2>11, Zenon DEF Rebuilt, Advances
  <2>14. Received(U)
    BY <2>2, <2>4, <2>6, <2>13 DEF Received
  <2> QED
    BY <2>9, <2>12, <2>13, <2>14, Zenon DEF Clear
<1> QED
  BY <1>4, <1>5, <1>6, <1>7, Zenon

\* The pointer becomes durable, and the core takes the image it waits for.
LEMMA BoundaryStage ==
  ASSUME NEW T, NEW a \in Nat, TurnInv(T, a), Clear(T), Received(T), NEW refused
  PROVE  LET U == install_boundary(T, refused)
         IN  TurnInv(U, a) /\ Clear(U) /\ Bound(U) /\ T.node.applied <= U.node.applied
<1>1. T.node \in NodeState /\ T.node.applied <= T.node.applied
  BY TurnParts, NodeParts
<1>2. PICK image : image = T.node.pending.image
  BY Zenon
<1>3. CASE T.done \/ T.node.pending.phase # "BoundaryPending"
  <2>1. install_boundary(T, refused) = T
    BY <1>3, Zenon DEF install_boundary
  <2> QED
    BY <1>1, <1>3, <2>1, Zenon DEF Received, Bound
<1>4. CASE ~T.done /\ T.node.pending.phase = "BoundaryPending" /\ ~BoundaryAccepted(T.node, image)
  <2>1. install_boundary(T, refused) = Fail(T)
    BY <1>2, <1>4, Zenon DEF install_boundary
  <2>2. TurnInv(Fail(T), a) /\ Fail(T).done /\ Fail(T).node.applied = T.node.applied
    BY Stopped, Zenon
  <2> QED
    BY <1>1, <2>1, <2>2, Zenon DEF Clear, Bound
<1>5. CASE ~T.done /\ T.node.pending.phase = "BoundaryPending" /\ BoundaryAccepted(T.node, image)
           /\ refused = "boundary"
  <2>1. install_boundary(T, refused) = Refused(T)
    BY <1>2, <1>5, Zenon DEF install_boundary
  <2>2. TurnInv(Refused(T), a) /\ Refused(T).done /\ Refused(T).node.applied = T.node.applied
    BY Stopped, Zenon
  <2> QED
    BY <1>1, <2>1, <2>2, Zenon DEF Clear, Bound
<1>6. CASE ~T.done /\ T.node.pending.phase = "BoundaryPending" /\ BoundaryAccepted(T.node, image)
           /\ refused # "boundary"
  <2>1. /\ image \in Image /\ image # NoImage /\ load_verified(T.store, image)
        /\ raft_pointer_for_tablet(image) = image
    <3>1. image \in Image /\ image # NoImage /\ load_verified(T.store, image)
      BY <1>1, <1>2, <1>6, NodeParts, Zenon DEF Received
    <3>2. raft_pointer_for_tablet(image) = image
      BY <3>1, Zenon DEF raft_pointer_for_tablet, Image
    <3> QED
      BY <3>1, <3>2, Zenon
  <2>2. T.node.candidate = NoImage
    BY <1>6, Zenon DEF Clear
  <2>3. a <= image.index /\ T.out <= image.index
    <3>1. /\ T.out \in Nat /\ T.node.boundary.index \in Nat /\ image.index \in Nat
          /\ a <= T.node.boundary.index /\ T.out <= T.node.boundary.index
      BY <1>1, <2>1, TurnParts, NodeParts, ImageParts, Zenon DEF TurnInv, Recoverable
    <3>2. T.node.boundary.index <= image.index
      BY <1>6, <3>1 DEF BoundaryAccepted
    <3> QED
      BY <3>1, <3>2
  <2>4. PICK V : V = [T EXCEPT !.node.boundary = image]
    BY Zenon
  <2>5. install_boundary(T, refused) =
           IF complete_snapshot_install(V.node, image)
           THEN [V EXCEPT !.node.waiting = NoImage, !.node.ready = image,
                          !.node.pending.phase = "ReadyPending"]
           ELSE Fail(V)
    <3>1. persist_snapshot_boundary(T, image) = V
      BY <2>1, <2>4, Zenon DEF persist_snapshot_boundary, persist_external_snapshot_boundary
    <3>2. install_boundary(T, refused) =
             LET W == persist_snapshot_boundary(T, image)
             IN  IF complete_snapshot_install(W.node, image)
                 THEN [W EXCEPT !.node.waiting = NoImage, !.node.ready = image,
                                !.node.pending.phase = "ReadyPending"]
                 ELSE Fail(W)
      BY <1>2, <1>6, ZenonT(60) DEF install_boundary
    <3> QED
      BY <3>1, <3>2, Zenon
  <2>6. /\ V.node = [T.node EXCEPT !.boundary = image] /\ V.store = T.store
        /\ V.inbound = T.inbound /\ V.out = T.out /\ V.done = T.done
        /\ V = [node |-> V.node, store |-> V.store, inbound |-> V.inbound, out |-> V.out,
                done |-> V.done, refusals |-> V.refusals]
    BY <2>4, TurnParts
  <2>6a. PICK v : v = V.node
    BY Zenon
  <2>6b. /\ v \in NodeState /\ v.status = T.node.status
         /\ v.applied = T.node.applied /\ v.tablet = T.node.tablet
         /\ v.boundary = image /\ v.expected = T.node.expected
         /\ v.pending = T.node.pending /\ v.candidate = T.node.candidate
         /\ v.waiting = T.node.waiting
    BY <1>1, <2>1, <2>6, <2>6a DEF NodeState
  <2>7. CASE complete_snapshot_install(V.node, image)
    <3>3. PICK U : U = install_boundary(T, refused)
      BY Zenon
    <3>4. U = [V EXCEPT !.node.waiting = NoImage, !.node.ready = image,
                        !.node.pending.phase = "ReadyPending"]
      BY <2>5, <2>7, <3>3, Zenon
    <3>5. U.node = [v EXCEPT !.waiting = NoImage, !.ready = image, !.pending.phase = "ReadyPending"]
      BY <2>6, <2>6a, <3>4, Zenon
    <3>6. /\ U.store = T.store /\ U.inbound = T.inbound /\ U.out = T.out /\ U.done = T.done
          /\ U = [node |-> U.node, store |-> U.store, inbound |-> U.inbound, out |-> U.out,
                  done |-> U.done, refusals |-> U.refusals]
      BY <2>6, <3>4, Zenon
    <3>7. PICK n : U.node = n
      BY Zenon
    <3>1. PICK p : p = [T.node.pending EXCEPT !.phase = "ReadyPending"]
      BY Zenon
    <3>1a. p \in Installs /\ p.phase = "ReadyPending" /\ p.image = image
      BY <1>1, <1>2, <3>1, NodeParts DEF Phases, Installs
    <3>1b. n = [v EXCEPT !.waiting = NoImage, !.ready = image, !.pending = p]
      BY <2>6b, <3>1, <3>5, <3>7, Zenon
    <3>2. /\ n \in NodeState /\ n.status = T.node.status
          /\ n.applied = T.node.applied /\ n.tablet = T.node.tablet
          /\ n.boundary = image /\ n.expected = T.node.expected
          /\ n.pending = p /\ n.candidate = T.node.candidate
          /\ n.waiting = NoImage /\ n.ready = image
      BY <2>1, <2>6b, <3>1a, <3>1b, NoImageType, Zenon DEF NodeState, Installs
    <3>8. T.node.waiting = image /\ T.node.applied < image.index
      <4>1. T.node.waiting = image
        BY <2>6a, <2>6b, <2>7, Zenon DEF complete_snapshot_install, CoreWaitsFor
      <4> QED
        BY <4>1, <2>1, Zenon DEF TurnInv, Consistent
    <3>9. IsTurn(U)
      BY <3>2, <3>6, <3>7, TurnParts, Zenon DEF IsTurn
    <3>10. Recoverable(n, U.store, a)
      BY <2>1, <2>2, <2>3, <3>2, <3>6, Zenon DEF Recoverable
    <3>11. T.node.pending # NoInstall
      BY <1>6 DEF NoInstall
    <3>12. T.node.tablet = T.node.applied /\ image = T.node.expected
      BY <1>2, <1>6, <3>11, Zenon DEF TurnInv, Consistent
    <3>13. Consistent(n)
      BY <2>1, <3>1a, <3>2, <3>12, Zenon DEF Consistent
    <3>14. TurnInv(U, a)
      BY <2>3, <3>2, <3>6, <3>7, <3>9, <3>10, <3>13, Zenon DEF TurnInv
    <3>15. T.node.applied <= image.index
      BY <1>1, <2>1, <3>8, NodeParts, ImageParts
    <3>16. Bound(U)
      BY <2>1, <3>1a, <3>2, <3>7, <3>15, Zenon DEF Bound
    <3> QED
      BY <1>1, <2>2, <3>2, <3>3, <3>7, <3>14, <3>16, Zenon DEF Clear
  <2>8. CASE ~complete_snapshot_install(V.node, image)
    <3>1. PICK U : U = install_boundary(T, refused)
      BY Zenon
    <3>2. U = Fail(V)
      BY <2>5, <2>8, <3>1, Zenon
    <3>3. /\ U.node = [V.node EXCEPT !.status = "failed"]
          /\ U.store = T.store /\ U.inbound = T.inbound /\ U.out = T.out /\ U.done = TRUE
          /\ U = [node |-> U.node, store |-> U.store, inbound |-> U.inbound, out |-> U.out,
                  done |-> U.done, refusals |-> U.refusals]
      BY <2>6, <3>2, Zenon DEF Fail
    <3>4. PICK n : n = U.node
      BY Zenon
    <3>5. /\ n \in NodeState /\ n.status = "failed"
          /\ n.applied = T.node.applied /\ n.tablet = T.node.tablet
          /\ n.boundary = image /\ n.candidate = T.node.candidate /\ n.waiting = T.node.waiting
      <4>1. n = [v EXCEPT !.status = "failed"]
        BY <2>6a, <3>3, <3>4, Zenon
      <4> QED
        BY <2>6b, <4>1 DEF NodeState
    <3>6. IsTurn(U)
      BY <3>3, <3>4, <3>5, TurnParts, Zenon DEF IsTurn
    <3>7. Recoverable(n, U.store, a)
      BY <2>1, <2>2, <2>3, <3>3, <3>5, Zenon DEF Recoverable
    <3>8. Consistent(n)
      <4>1. n.status # "up"
        BY <3>5
      <4> QED
        BY <3>5, <4>1, Zenon DEF TurnInv, Consistent
    <3>9. TurnInv(U, a)
      BY <2>3, <3>3, <3>4, <3>5, <3>6, <3>7, <3>8, Zenon DEF TurnInv
    <3> QED
      BY <1>1, <3>1, <3>3, <3>4, <3>5, <3>9, Zenon DEF Clear, Bound
  <2> QED
    BY <2>7, <2>8, Zenon
<1> QED
  BY <1>3, <1>4, <1>5, <1>6, Zenon

\* The restored state machine goes live, and the leader is answered.
LEMMA ReadyStage ==
  ASSUME NEW T, NEW a \in Nat, TurnInv(T, a), Clear(T), Bound(T), NEW refused
  PROVE  LET U == install_ready(T, refused)
         IN  TurnInv(U, a) /\ Clear(U) /\ T.node.applied <= U.node.applied
<1>1. T.node \in NodeState /\ T.node.applied <= T.node.applied
  BY TurnParts, NodeParts
<1>2. CASE T.done \/ T.node.pending.phase # "ReadyPending"
  <2>1. install_ready(T, refused) = T
    BY <1>2, Zenon DEF install_ready
  <2> QED
    BY <1>1, <2>1, Zenon
<1>3. CASE ~T.done /\ T.node.pending.phase = "ReadyPending" /\ refused = "ready"
  <2>1. install_ready(T, refused) = Refused(T)
    BY <1>3, Zenon DEF install_ready
  <2>2. TurnInv(Refused(T), a) /\ Refused(T).done /\ Refused(T).node.applied = T.node.applied
    BY Stopped, Zenon
  <2> QED
    BY <1>1, <2>1, <2>2, Zenon DEF Clear
<1>4. CASE ~T.done /\ T.node.pending.phase = "ReadyPending" /\ refused # "ready"
  <2>1. PICK image : image = T.node.pending.image
    BY Zenon
  <2>2. /\ T.node.boundary = image /\ image # NoImage /\ T.node.applied <= image.index
        /\ T.node.waiting = NoImage /\ T.node.candidate = NoImage
    BY <1>4, <2>1, Zenon DEF Bound, Clear
  <2>3. image \in Image /\ image.index \in Nat /\ load_verified(T.store, image) /\ a <= image.index
    BY <1>1, <2>2, NodeParts, ImageParts, Zenon DEF TurnInv, Recoverable
  <2>4. PICK U : U = install_ready(T, refused)
    BY Zenon
  <2>5. U = publish_install(T, image)
    BY <1>4, <2>1, <2>4, Zenon DEF install_ready
  <2>6. T = [node |-> T.node, store |-> T.store, inbound |-> T.inbound, out |-> T.out,
             done |-> T.done, refusals |-> T.refusals]
    BY TurnParts, Zenon
  <2>7. /\ U.store = prune_older_snapshots(T.store, image) /\ U.inbound = T.inbound
        /\ U.out = image.index /\ U.done = T.done
        /\ U = [node |-> U.node, store |-> U.store, inbound |-> U.inbound, out |-> U.out,
                done |-> U.done, refusals |-> U.refusals]
    BY <2>5, <2>6, Zenon DEF publish_install
  <2>8. U.node = [T.node EXCEPT !.tablet = image.index, !.applied = image.index, !.ready = NoImage,
                                !.latest = image, !.expected = NoImage, !.pending = NoInstall]
    BY <2>5, <2>6 DEF publish_install, restore_verified_snapshot
  <2>9. PICK n : n = U.node
    BY Zenon
  <2>10. NoInstall \in Installs
    BY NoImageType, Zenon DEF NoInstall, Installs, Phases
  <2>11. /\ n \in NodeState /\ n.status = T.node.status
         /\ n.applied = image.index /\ n.tablet = image.index
         /\ n.boundary = image /\ n.pending = NoInstall /\ n.candidate = NoImage
         /\ n.waiting = NoImage
    BY <1>1, <2>2, <2>3, <2>8, <2>9, <2>10, NoImageType, ZenonT(60) DEF NodeState, Installs
  <2>12. IsStore(U.store) /\ load_verified(U.store, image)
    <3>1. IsStore(T.store)
      BY TurnParts, Zenon
    <3>2. PICK t : t = prune_older_snapshots(T.store, image)
      BY Zenon
    <3>3. IsStore(t) /\ load_verified(t, image)
      BY <2>3, <3>1, <3>2, Pruned, Zenon
    <3> QED
      BY <2>7, <3>2, <3>3, Zenon
  <2>13. IsTurn(U)
    BY <2>3, <2>7, <2>9, <2>11, <2>12, TurnParts, Zenon DEF IsTurn
  <2>14. Recoverable(n, U.store, a)
    BY <2>3, <2>11, <2>12, Zenon DEF Recoverable
  <2>15. image.index <= image.index
    BY <2>3
  <2>16. Consistent(n)
    BY <2>11, <2>15, Zenon DEF Consistent
  <2>17. TurnInv(U, a)
    BY <2>7, <2>9, <2>11, <2>13, <2>14, <2>15, <2>16, Zenon DEF TurnInv
  <2> QED
    BY <2>2, <2>4, <2>9, <2>11, <2>17, Zenon DEF Clear
<1> QED
  BY <1>2, <1>3, <1>4, Zenon

LEMMA DrainStage ==
  ASSUME NEW T, NEW a \in Nat, TurnInv(T, a), Clear(T)
  PROVE  LET U == drain_ready(T)
         IN  /\ TurnInv(U, a) /\ Clear(U) /\ T.node.applied <= U.node.applied
             /\ U.done \/ U.node.ready = NoImage
<1>1. T.node.applied <= T.node.applied
  BY TurnParts, NodeParts
<1>2. CASE T.node.ready = NoImage
  BY <1>1, <1>2, Zenon DEF drain_ready
<1>3. CASE T.node.ready # NoImage
  <2>1. drain_ready(T) = Fail(T)
    BY <1>3, Zenon DEF drain_ready
  <2>2. TurnInv(Fail(T), a) /\ Fail(T).done /\ Fail(T).node.applied = T.node.applied
    BY Stopped, Zenon
  <2> QED
    BY <1>1, <2>1, <2>2, Zenon DEF Clear
<1> QED
  BY <1>2, <1>3, Zenon

LEMMA PublishStage ==
  ASSUME NEW T, NEW a \in Nat, TurnInv(T, a), ~T.done, NEW refused,
         T.node.candidate # NoImage \/ T.node.ready = NoImage
  PROVE  LET U == maybe_publish_snapshot(T, refused)
         IN  TurnInv(U, a) /\ Clear(U) /\ T.node.applied <= U.node.applied
<1>1. T.node.applied <= T.node.applied
  BY TurnParts, NodeParts
<1>2. CASE T.node.candidate # NoImage
  <2>1. maybe_publish_snapshot(T, refused) = publish_candidate(T, refused)
    BY <1>2, Zenon DEF maybe_publish_snapshot
  <2> QED
    BY <1>1, <1>2, <2>1, CandidatePublished, Zenon
<1>3. CASE T.node.candidate = NoImage /\ is_due(T.node)
  <2>1. PICK V : V = prepare_local_snapshot(T)
    BY Zenon
  <2>2. maybe_publish_snapshot(T, refused) = publish_candidate(V, refused)
    BY <1>3, <2>1, Zenon DEF maybe_publish_snapshot
  <2>3. /\ TurnInv(V, a) /\ (V.done \/ V.node.candidate # NoImage)
        /\ V.node.applied = T.node.applied
    BY <1>3, <2>1, CandidatePrepared, Zenon
  <2>4. /\ TurnInv(publish_candidate(V, refused), a) /\ Clear(publish_candidate(V, refused))
        /\ publish_candidate(V, refused).node.applied = V.node.applied
    BY <2>3, CandidatePublished, Zenon
  <2> QED
    BY <1>1, <2>2, <2>3, <2>4, Zenon
<1>4. CASE T.node.candidate = NoImage /\ ~is_due(T.node)
  BY <1>1, <1>4, Zenon DEF maybe_publish_snapshot, Clear
<1> QED
  BY <1>2, <1>3, <1>4, Zenon

(***************************************************************************)
(* A whole turn, and the other actions.                                    *)
(***************************************************************************)
Reaches(T, U, a) == TurnInv(U, a) /\ Clear(U) /\ T.node.applied <= U.node.applied

LEMMA Chained ==
  ASSUME NEW T, NEW U, NEW V, NEW a, TurnInv(T, a), Reaches(T, U, a), Reaches(U, V, a)
  PROVE  Reaches(T, V, a)
<1>1. T.node.applied \in Nat /\ U.node.applied \in Nat /\ V.node.applied \in Nat
  BY TurnParts, NodeParts, Zenon DEF Reaches
<1>2. T.node.applied <= U.node.applied /\ U.node.applied <= V.node.applied
  BY Zenon DEF Reaches
<1>3. T.node.applied <= V.node.applied
  BY <1>1, <1>2
<1> QED
  BY <1>3, Zenon DEF Reaches

LEMMA Reached ==
  ASSUME NEW T, NEW a, TurnInv(T, a), Clear(T)
  PROVE  Reaches(T, T, a)
<1>1. T.node.applied <= T.node.applied
  BY TurnParts, NodeParts
<1> QED
  BY <1>1, Zenon DEF Reaches

LEMMA WholeTurn ==
  ASSUME NEW r \in Replicas, SnapshotInv, Up(r), NEW control, control.image \in Image, NEW refused
  PROVE  LET T == run_turn(r, control, refused)
         IN  TurnInv(T, acked[r]) /\ node[r].applied <= T.node.applied
<1>1. PICK a \in Nat : a = acked[r]
  BY Zenon DEF SnapshotInv, TypeOK
<1> DEFINE T0 == [node |-> node[r], store |-> store[r], inbound |-> inbound[r], out |-> 0,
                  done |-> FALSE, refusals |-> 0]
           T1 == IF T0.node.candidate # NoImage THEN maybe_publish_snapshot(T0, refused) ELSE T0
           T2 == Then(T1, Control(T1, control))
           T3 == Then(T2, correlate_inbound(T2))
           T4 == Then(T3, install_received(T3, busy[r]))
           T5a == install_boundary(T4, refused)
           T5 == install_ready(T5a, refused)
           T6 == Then(T5, drain_ready(T5))
           T7 == Then(T6, IF leader = r THEN maybe_publish_snapshot(T6, refused) ELSE T6)
<1> HIDE DEF T0, T1, T2, T3, T4, T5a, T5, T6, T7
<1>3. /\ T0.node = node[r] /\ T0.store = store[r] /\ T0.inbound = inbound[r]
      /\ T0.out = 0 /\ T0.done = FALSE
      /\ T0 = [node |-> T0.node, store |-> T0.store, inbound |-> T0.inbound, out |-> T0.out,
               done |-> T0.done, refusals |-> T0.refusals]
  BY Zenon DEF T0
<1>4. node[r] \in NodeState /\ IsStore(store[r]) /\ inbound[r] \in Seq(Image)
  BY Zenon DEF SnapshotInv, TypeOK
<1>5. 0 \in Nat /\ 0 <= node[r].boundary.index
  <2>1. node[r].boundary.index \in Nat
    BY <1>4, NodeParts, ImageParts, Zenon
  <2> QED
    BY <2>1
<1>6. IsTurn(T0)
  BY <1>3, <1>4, <1>5, Zenon DEF IsTurn
<1>7. TurnInv(T0, a)
  BY <1>1, <1>3, <1>5, <1>6, Zenon DEF TurnInv, SnapshotInv, Up
<1>9. Reaches(T0, T1, a)
  <2>1. CASE T0.node.candidate # NoImage
    BY <1>3, <1>7, <2>1, PublishStage, Zenon DEF Reaches, T1
  <2>2. CASE T0.node.candidate = NoImage
    BY <1>7, <2>2, Reached, Zenon DEF Clear, T1
  <2> QED
    BY <2>1, <2>2, Zenon
<1>11. Reaches(T1, T2, a)
  BY <1>9, ControlStage, Reached, Zenon DEF Then, Reaches, T2
<1>13. Reaches(T2, T3, a)
  BY <1>11, CorrelateStage, Reached, Zenon DEF Then, Reaches, T3
<1>15. Reaches(T3, T4, a) /\ Received(T4)
  <2>1. CASE T3.done
    BY <1>13, <2>1, Reached, Zenon DEF Then, Reaches, Received, T4
  <2>2. CASE ~T3.done
    BY <1>13, <2>2, ReceivedStage, Zenon DEF Then, Reaches, T4
  <2> QED
    BY <2>1, <2>2, Zenon
<1>17. Reaches(T4, T5a, a) /\ Bound(T5a)
  BY <1>15, BoundaryStage, Zenon DEF Reaches, T5a
<1>19. Reaches(T5a, T5, a)
  BY <1>17, ReadyStage, Zenon DEF Reaches, T5
<1>21. Reaches(T5, T6, a) /\ (T6.done \/ T6.node.ready = NoImage)
  <2>1. CASE T5.done
    BY <1>19, <2>1, Reached, Zenon DEF Then, Reaches, T6
  <2>2. CASE ~T5.done
    BY <1>19, <2>2, DrainStage, Zenon DEF Then, Reaches, T6
  <2> QED
    BY <2>1, <2>2, Zenon
<1>23. Reaches(T6, T7, a)
  <2>1. CASE T6.done \/ leader # r
    BY <1>21, <2>1, Reached, Zenon DEF Then, Reaches, T7
  <2>2. CASE ~T6.done /\ leader = r
    BY <1>21, <2>2, PublishStage, Zenon DEF Then, Reaches, T7
  <2> QED
    BY <2>1, <2>2, Zenon
<1>24. Reaches(T0, T7, a)
  <2>1. Reaches(T0, T2, a)
    BY <1>7, <1>9, <1>11, Chained, Zenon
  <2>2. Reaches(T0, T3, a)
    BY <1>7, <2>1, <1>13, Chained, Zenon
  <2>3. Reaches(T0, T4, a)
    BY <1>7, <2>2, <1>15, Chained, Zenon
  <2>4. Reaches(T0, T5a, a)
    BY <1>7, <2>3, <1>17, Chained, Zenon
  <2>5. Reaches(T0, T5, a)
    BY <1>7, <2>4, <1>19, Chained, Zenon
  <2>6. Reaches(T0, T6, a)
    BY <1>7, <2>5, <1>21, Chained, Zenon
  <2> QED
    BY <1>7, <2>6, <1>23, Chained, Zenon
<1>25. run_turn(r, control, refused) = T7
  BY Zenon DEF run_turn, T0, T1, T2, T3, T4, T5a, T5, T6, T7
<1> QED
  BY <1>1, <1>3, <1>24, <1>25, Zenon DEF Reaches

LEMMA SnapshotInit == Init => SnapshotInv
<1>1. SUFFICES ASSUME Init PROVE SnapshotInv
  OBVIOUS
<1>2. NoInstall \in [phase : Phases, image : Image]
  BY NoImageType, Zenon DEF NoInstall, Phases
<1>3. PICK n : n = FreshNode
  BY Zenon
<1>4. /\ n \in NodeState /\ n.status = "up" /\ n.applied = 0 /\ n.tablet = 0 /\ n.boundary = NoImage
      /\ n.pending = NoInstall /\ n.candidate = NoImage /\ n.waiting = NoImage
  BY <1>2, <1>3, NoImageType DEF FreshNode, NodeState
<1>5. PICK s : s = EmptyStore
  BY Zenon
<1>6. IsStore(s)
  <2>1. s = [files |-> <<>>, next |-> 0] /\ s.files = <<>> /\ s.next = 0
    BY <1>5, Zenon DEF EmptyStore
  <2>2. DOMAIN <<>> = {}
    OBVIOUS
  <2>3. Bounded({})
    BY Zenon DEF Bounded
  <2>4. <<>> = [i \in {} |-> s.files[i]]
    OBVIOUS
  <2>5. s = [files |-> s.files, next |-> s.next] /\ s.next \in Nat
    BY <2>1, Zenon
  <2>6. Bounded(DOMAIN s.files)
    BY <2>1, <2>2, <2>3, Zenon
  <2>7. s.files = [i \in DOMAIN s.files |-> s.files[i]]
    BY <2>1, <2>2, <2>4
  <2> QED
    BY <2>5, <2>6, <2>7, Zenon DEF IsStore
<1>7. Recoverable(n, s, 0) /\ Consistent(n)
  BY <1>4, NoImageType DEF Recoverable, Consistent
<1>8. /\ leader = Outside /\ offers = {} /\ streams = {}
      /\ node = [r \in Replicas |-> n] /\ store = [r \in Replicas |-> s]
      /\ inbound = [r \in Replicas |-> <<>>] /\ acked = [r \in Replicas |-> 0]
  BY <1>1, <1>3, <1>5, Zenon DEF Init
<1>9. \A r \in Replicas : node[r] = n /\ store[r] = s /\ acked[r] = 0
  BY <1>8, Zenon
<1>10. TypeOK
  <2>1. store = [r \in Replicas |-> store[r]] /\ \A r \in Replicas : IsStore(store[r])
    BY <1>6, <1>8, <1>9
  <2>2. leader \in Replicas \cup {Outside} /\ node \in [Replicas -> NodeState]
        /\ inbound \in [Replicas -> Seq(Image)] /\ acked \in [Replicas -> Nat]
    BY <1>4, <1>8
  <2>3. offers \subseteq [to : Replicas, image : Image]
        /\ streams \subseteq [from : Replicas, to : Replicas, image : Image,
                              sent : BOOLEAN, open : BOOLEAN]
    BY <1>8, Zenon
  <2> QED
    BY <2>1, <2>2, <2>3, Zenon DEF TypeOK
<1> QED
  BY <1>7, <1>9, <1>10, Zenon DEF SnapshotInv

\* The replica a step is about, and the others.
OfReplica(n, s, i, a) ==
    /\ n \in NodeState /\ IsStore(s) /\ i \in Seq(Image) /\ a \in Nat
    /\ Recoverable(n, s, a) /\ Consistent(n)

LEMMA ReplicasKept ==
  ASSUME SnapshotInv, NEW r \in Replicas, NEW n, NEW s, NEW i, NEW a, OfReplica(n, s, i, a),
         node' = [node EXCEPT ![r] = n], store' = [store EXCEPT ![r] = s],
         inbound' = [inbound EXCEPT ![r] = i], acked' = [acked EXCEPT ![r] = a]
  PROVE  /\ node' \in [Replicas -> NodeState]
         /\ store' = [q \in Replicas |-> store'[q]] /\ \A q \in Replicas : IsStore(store'[q])
         /\ inbound' \in [Replicas -> Seq(Image)] /\ acked' \in [Replicas -> Nat]
         /\ \A q \in Replicas : Recoverable(node'[q], store'[q], acked'[q]) /\ Consistent(node'[q])
<1>1. /\ node \in [Replicas -> NodeState] /\ store = [q \in Replicas |-> store[q]]
      /\ inbound \in [Replicas -> Seq(Image)] /\ acked \in [Replicas -> Nat]
  BY Zenon DEF SnapshotInv, TypeOK
<1>2. node' \in [Replicas -> NodeState] /\ node'[r] = n /\ \A q \in Replicas : q # r => node'[q] = node[q]
  BY <1>1, Zenon DEF OfReplica
<1>3. inbound' \in [Replicas -> Seq(Image)]
  BY <1>1, Zenon DEF OfReplica
<1>4. acked' \in [Replicas -> Nat] /\ acked'[r] = a /\ \A q \in Replicas : q # r => acked'[q] = acked[q]
  BY <1>1, Zenon DEF OfReplica
<1>5. /\ store' = [q \in Replicas |-> store'[q]] /\ store'[r] = s
      /\ \A q \in Replicas : q # r => store'[q] = store[q]
  BY <1>1, Zenon
<1>6. ASSUME NEW q \in Replicas
      PROVE  IsStore(store'[q]) /\ Recoverable(node'[q], store'[q], acked'[q]) /\ Consistent(node'[q])
  <2>1. CASE q = r
    BY <1>2, <1>4, <1>5, <2>1, Zenon DEF OfReplica
  <2>2. CASE q # r
    BY <1>2, <1>4, <1>5, <2>2, Zenon DEF SnapshotInv, TypeOK
  <2> QED
    BY <2>1, <2>2, Zenon
<1> QED
  BY <1>2, <1>3, <1>4, <1>5, <1>6, Zenon

\* What every action keeps: the invariant, and how far each replica has applied.
Preserved == SnapshotInv' /\ \A r \in Replicas : node[r].applied <= node'[r].applied

LEMMA AppliedIsNat == ASSUME SnapshotInv, NEW r \in Replicas PROVE node[r].applied \in Nat
<1>1. node[r] \in NodeState
  BY Zenon DEF SnapshotInv, TypeOK
<1> QED
  BY <1>1, NodeParts, Zenon

LEMMA TurnKeeps ==
  ASSUME SnapshotInv, NEW r \in Replicas, Turn(r)
  PROVE  Preserved
<1>1. PICK control \in Controls(r), refused \in {"none", "boundary", "ready"} :
         LET T == run_turn(r, control, refused)
         IN  /\ node' = [node EXCEPT ![r] = T.node]
             /\ store' = [store EXCEPT ![r] = T.store]
             /\ acked' = [acked EXCEPT ![r] = Max({acked[r], T.out})]
             /\ inbound' = [inbound EXCEPT ![r] = T.inbound]
  BY Zenon DEF Turn
<1>2. control.image \in Image
  <2>1. offers \subseteq [to : Replicas, image : Image]
    BY Zenon DEF SnapshotInv, TypeOK
  <2>2. \A o \in offers : o.image \in Image
    BY <2>1, Zenon
  <2>3. \/ control = [kind |-> "none", image |-> NoImage]
        \/ \E o \in offers : control = [kind |-> "install", image |-> o.image]
        \/ control = [kind |-> "append", image |-> NoImage]
    BY Zenon DEF Controls
  <2> QED
    BY <2>2, <2>3, NoImageType
<1>3. Up(r)
  BY Zenon DEF Turn
<1>4. PICK T : T = run_turn(r, control, refused)
  BY Zenon
<1>5. TurnInv(T, acked[r]) /\ node[r].applied <= T.node.applied
  BY <1>2, <1>3, <1>4, WholeTurn, Zenon
<1>6. PICK a : a = Max({acked[r], T.out})
  BY Zenon
<1>7. acked[r] \in Nat /\ T.out \in Nat
  BY <1>5, TurnParts, Zenon DEF SnapshotInv, TypeOK
<1>8. a \in Nat /\ a \in {acked[r], T.out}
  BY <1>6, <1>7, MaxOfTwo, Zenon
<1>9. a <= T.node.boundary.index
  BY <1>5, <1>8, Zenon DEF TurnInv, Recoverable
<1>10. OfReplica(T.node, T.store, T.inbound, a)
  BY <1>5, <1>8, <1>9, TurnParts, Zenon DEF OfReplica, TurnInv, Recoverable
<1>11. /\ node' = [node EXCEPT ![r] = T.node] /\ store' = [store EXCEPT ![r] = T.store]
       /\ inbound' = [inbound EXCEPT ![r] = T.inbound] /\ acked' = [acked EXCEPT ![r] = a]
  BY <1>1, <1>4, <1>6, Zenon
<1>12. /\ node' \in [Replicas -> NodeState]
       /\ store' = [q \in Replicas |-> store'[q]] /\ \A q \in Replicas : IsStore(store'[q])
       /\ inbound' \in [Replicas -> Seq(Image)] /\ acked' \in [Replicas -> Nat]
       /\ \A q \in Replicas : Recoverable(node'[q], store'[q], acked'[q]) /\ Consistent(node'[q])
  BY <1>10, <1>11, ReplicasKept, Zenon
<1>13. UNCHANGED <<leader, offers, streams>>
  BY Zenon DEF Turn
<1>14. TypeOK'
  BY <1>12, <1>13, Zenon DEF TypeOK, SnapshotInv
<1>15. ASSUME NEW q \in Replicas PROVE node[q].applied <= node'[q].applied
  <2>1. node \in [Replicas -> NodeState]
    BY Zenon DEF SnapshotInv, TypeOK
  <2>2. CASE q = r
    BY <1>5, <1>11, <2>1, <2>2, Zenon
  <2>3. CASE q # r
    <3>1. node'[q] = node[q]
      BY <1>11, <2>1, <2>3, Zenon
    <3>2. node[q].applied \in Nat
      BY AppliedIsNat, Zenon
    <3> QED
      BY <3>1, <3>2
  <2> QED
    BY <2>2, <2>3, Zenon
<1> QED
  BY <1>12, <1>14, <1>15, Zenon DEF Preserved, SnapshotInv

\* A step that leaves nodes, files and acknowledgements alone.
LEMMA NetworkKeeps ==
  ASSUME SnapshotInv, UNCHANGED <<node, store, acked>>,
         (leader \in Replicas \cup {Outside})',
         (offers \subseteq [to : Replicas, image : Image])',
         (streams \subseteq [from : Replicas, to : Replicas, image : Image,
                             sent : BOOLEAN, open : BOOLEAN])',
         (inbound \in [Replicas -> Seq(Image)])'
  PROVE  Preserved
<1>1. SnapshotInv'
  BY Zenon DEF SnapshotInv, TypeOK
<1>2. \A r \in Replicas : node[r].applied <= node'[r].applied
  <2>1. \A r \in Replicas : node[r].applied \in Nat
    BY AppliedIsNat, Zenon
  <2>2. \A r \in Replicas : node'[r].applied = node[r].applied
    BY Zenon
  <2> QED
    BY <2>1, <2>2
<1> QED
  BY <1>1, <1>2, Zenon DEF Preserved

LEMMA OneReplica ==
  ASSUME SnapshotInv, NEW r \in Replicas
  PROVE  OfReplica(node[r], store[r], inbound[r], acked[r])
  BY Zenon DEF SnapshotInv, TypeOK, OfReplica

\* Startup finds the image of the durable pointer, and resumes at or beyond it.
LEMMA RecoveredReplica ==
  ASSUME SnapshotInv, NEW r \in Replicas
  PROVE  OfReplica(Recovered(r), store[r], <<>>, acked[r]) /\ node[r].applied <= Recovered(r).applied
<1>1. PICK n : n = node[r]
  BY Zenon
<1>2. n \in NodeState /\ Recoverable(n, store[r], acked[r]) /\ IsStore(store[r]) /\ acked[r] \in Nat
  BY <1>1, OneReplica, Zenon DEF OfReplica
<1>3. n.applied \in Nat /\ n.boundary \in Image /\ n.boundary.index \in Nat
  BY <1>2, NodeParts, ImageParts, Zenon
<1>4. PICK applied : applied = Max({n.applied, n.boundary.index})
  BY Zenon
<1>5. applied \in Nat /\ applied >= n.applied /\ applied >= n.boundary.index
  BY <1>3, <1>4, MaxOfTwo, Zenon
<1>6. n.boundary = NoImage \/ load_verified(store[r], n.boundary)
  BY <1>2, Zenon DEF Recoverable
<1>7. (IF n.boundary = NoImage \/ ~(n.boundary = NoImage \/ load_verified(store[r], n.boundary))
       THEN NoImage ELSE load_verified_by_name(store[r], n.boundary)) = n.boundary
  BY <1>6, Zenon DEF load_verified, load_verified_by_name
<1>8. restore_verified_snapshot(n.boundary) + (applied - n.boundary.index) = applied
  BY <1>3, <1>5 DEF restore_verified_snapshot
<1>9. PICK m : m = [status |-> "up", applied |-> applied, tablet |-> applied,
                    boundary |-> n.boundary, latest |-> n.boundary, expected |-> NoImage,
                    pending |-> NoInstall, candidate |-> NoImage, waiting |-> NoImage, ready |-> NoImage]
  BY Zenon
<1>10. m = Recovered(r)
  BY <1>1, <1>4, <1>6, <1>7, <1>8, <1>9, Zenon DEF Recovered
<1>11. NoInstall \in [phase : Phases, image : Image]
  BY NoImageType, Zenon DEF NoInstall, Phases
<1>12. /\ m \in NodeState /\ m.applied = applied /\ m.tablet = applied /\ m.boundary = n.boundary
       /\ m.pending = NoInstall /\ m.candidate = NoImage /\ m.waiting = NoImage
  BY <1>3, <1>5, <1>9, <1>11, NoImageType DEF NodeState
<1>13. Recoverable(m, store[r], acked[r])
  BY <1>2, <1>12, Zenon DEF Recoverable
<1>14. n.boundary.index <= applied /\ n.applied <= applied
  BY <1>3, <1>5
<1>15. Consistent(m)
  BY <1>12, <1>14, Zenon DEF Consistent
<1>16. <<>> \in Seq(Image)
  OBVIOUS
<1> QED
  BY <1>1, <1>2, <1>10, <1>12, <1>13, <1>14, <1>15, <1>16, Zenon DEF OfReplica

\* A step that replaces one replica's node, and perhaps its inbound images.
LEMMA NodeKeeps ==
  ASSUME SnapshotInv, NEW r \in Replicas, NEW n, NEW i, OfReplica(n, store[r], i, acked[r]),
         node[r].applied <= n.applied,
         node' = [node EXCEPT ![r] = n], inbound' = [inbound EXCEPT ![r] = i],
         UNCHANGED <<store, acked, offers>>, leader' \in {leader, Outside}, streams' \subseteq streams
  PROVE  Preserved
<1>1. /\ node \in [Replicas -> NodeState] /\ store = [q \in Replicas |-> store[q]]
      /\ acked \in [Replicas -> Nat]
  BY Zenon DEF SnapshotInv, TypeOK
<1>2. store' = [store EXCEPT ![r] = store[r]] /\ acked' = [acked EXCEPT ![r] = acked[r]]
  BY <1>1, Zenon
<1>3. /\ node' \in [Replicas -> NodeState]
      /\ store' = [q \in Replicas |-> store'[q]] /\ \A q \in Replicas : IsStore(store'[q])
      /\ inbound' \in [Replicas -> Seq(Image)] /\ acked' \in [Replicas -> Nat]
      /\ \A q \in Replicas : Recoverable(node'[q], store'[q], acked'[q]) /\ Consistent(node'[q])
  BY <1>2, ReplicasKept, Zenon
<1>4. leader' \in Replicas \cup {Outside}
  BY Zenon DEF SnapshotInv, TypeOK
<1>5. /\ offers' \subseteq [to : Replicas, image : Image]
      /\ streams' \subseteq [from : Replicas, to : Replicas, image : Image,
                             sent : BOOLEAN, open : BOOLEAN]
  BY Zenon DEF SnapshotInv, TypeOK
<1>6. TypeOK'
  BY <1>3, <1>4, <1>5, Zenon DEF TypeOK
<1>7. ASSUME NEW q \in Replicas PROVE node[q].applied <= node'[q].applied
  <2>1. CASE q = r
    BY <1>1, <2>1, Zenon
  <2>2. CASE q # r
    <3>1. node'[q] = node[q]
      BY <1>1, <2>2, Zenon
    <3>2. node[q].applied \in Nat
      BY AppliedIsNat, Zenon
    <3> QED
      BY <3>1, <3>2
  <2> QED
    BY <2>1, <2>2, Zenon
<1> QED
  BY <1>3, <1>6, <1>7, Zenon DEF Preserved, SnapshotInv

LEMMA RestartKeeps ==
  ASSUME SnapshotInv, NEW r \in Replicas, Restart(r)
  PROVE  Preserved
<1>1. /\ node' = [node EXCEPT ![r] = Recovered(r)] /\ inbound' = [inbound EXCEPT ![r] = <<>>]
      /\ UNCHANGED <<store, acked, offers>> /\ leader' \in {leader, Outside} /\ streams' \subseteq streams
  BY Zenon DEF Restart
<1>2. PICK n, i : n = Recovered(r) /\ i = <<>>
  BY Zenon
<1>3. OfReplica(n, store[r], i, acked[r]) /\ node[r].applied <= n.applied
  BY <1>2, RecoveredReplica, Zenon
<1>4. node' = [node EXCEPT ![r] = n] /\ inbound' = [inbound EXCEPT ![r] = i]
  BY <1>1, <1>2, Zenon
<1> QED
  BY <1>1, <1>3, <1>4, NodeKeeps, Zenon

LEMMA CommitKeeps ==
  ASSUME SnapshotInv, Commit
  PROVE  Preserved
<1>1. UNCHANGED <<leader, store, offers, streams, inbound, acked>>
  BY Zenon DEF Commit
<1>2. CASE UNCHANGED node
  BY <1>1, <1>2, NetworkKeeps, Zenon DEF SnapshotInv, TypeOK
<1>3. CASE /\ leader # Outside /\ node[leader].candidate = NoImage
           /\ node' = [node EXCEPT ![leader] = StepAppend(@)]
  <2>1. PICK r \in Replicas : r = leader
    BY <1>3, Zenon DEF SnapshotInv, TypeOK
  <2>2. OfReplica(node[r], store[r], inbound[r], acked[r])
    BY OneReplica, Zenon
  <2>3. PICK n : n = StepAppend(node[r])
    BY Zenon
  <2>4. NoImage \in Image /\ n \in {node[r], StepInstall(node[r], NoImage), StepAppend(node[r])}
    BY <2>3, NoImageType, Zenon
  <2>5. Advances(node[r], n)
    BY <2>2, <2>4, Stepped, Zenon DEF OfReplica
  <2>6. OfReplica(n, store[r], inbound[r], acked[r])
    BY <1>3, <2>1, <2>2, <2>5, Zenon DEF OfReplica, Advances, Recoverable
  <2>7. node' = [node EXCEPT ![r] = n] /\ inbound' = [inbound EXCEPT ![r] = inbound[r]]
    <3>1. inbound = [inbound EXCEPT ![r] = inbound[r]]
      BY Zenon DEF SnapshotInv, TypeOK
    <3> QED
      BY <1>1, <1>3, <2>1, <2>3, <3>1, Zenon
  <2>8. node[r].applied <= n.applied
    BY <2>5, Zenon DEF Advances
  <2>9. UNCHANGED <<store, acked, offers>> /\ leader' \in {leader, Outside} /\ streams' \subseteq streams
    BY <1>1, Zenon
  <2> QED
    BY <2>6, <2>7, <2>8, <2>9, NodeKeeps, Zenon
<1> QED
  BY <1>2, <1>3, Zenon DEF Commit

(***************************************************************************)
(* Offers, streams and leadership touch no node, file or answer.           *)
(***************************************************************************)
LEMMA ElectKeeps ==
  ASSUME SnapshotInv, Elect
  PROVE  Preserved
<1>1. UNCHANGED <<node, store, acked, offers, streams, inbound>> /\ leader' \in Replicas \cup {Outside}
  BY Zenon DEF Elect
<1> QED
  BY <1>1, NetworkKeeps, Zenon DEF SnapshotInv, TypeOK

LEMMA SendKeeps ==
  ASSUME SnapshotInv, NEW l \in Replicas, NEW f \in Replicas, send_install(l, f)
  PROVE  Preserved
<1>1. UNCHANGED <<node, store, acked, leader, inbound>>
  BY Zenon DEF send_install
<1>2. node[l].boundary \in Image /\ node[l].latest \in Image
  BY Zenon DEF SnapshotInv, TypeOK, NodeState
<1>3. offers' \subseteq [to : Replicas, image : Image]
  BY <1>2 DEF SnapshotInv, TypeOK, send_install
<1>4. Stream(l, f) \in [from : Replicas, to : Replicas, image : Image, sent : BOOLEAN, open : BOOLEAN]
  BY <1>2, Zenon DEF Stream
<1>5. streams' \subseteq streams \cup {Stream(l, f)}
  BY Zenon DEF send_install
<1> QED
  BY <1>1, <1>3, <1>4, <1>5, NetworkKeeps, Zenon DEF SnapshotInv, TypeOK

LEMMA StreamKeeps ==
  ASSUME SnapshotInv, NEW s \in streams,
         send_snapshot(s) \/ begin_receive(s) \/ receive_snapshot(s) \/ Break(s)
  PROVE  Preserved
<1> DEFINE Streams == [from : Replicas, to : Replicas, image : Image, sent : BOOLEAN, open : BOOLEAN]
<1>1. UNCHANGED <<node, store, acked, leader, offers>>
  BY Zenon DEF send_snapshot, begin_receive, receive_snapshot, Break
<1>2. s \in Streams /\ s.to \in Replicas /\ s.image \in Image
  BY Zenon DEF SnapshotInv, TypeOK
<1>3. [s EXCEPT !.sent = TRUE] \in Streams /\ BeginSession(s) \in Streams
  BY <1>2, Zenon DEF BeginSession
<1>4. streams' \subseteq streams \cup {[s EXCEPT !.sent = TRUE], BeginSession(s)}
  BY Zenon DEF send_snapshot, begin_receive, receive_snapshot, Break
<1>5. streams' \subseteq Streams
  BY <1>3, <1>4, Zenon DEF SnapshotInv, TypeOK
<1>6. inbound \in [Replicas -> Seq(Image)]
  BY Zenon DEF SnapshotInv, TypeOK
<1>7. inbound[s.to] \in Seq(Image)
  BY <1>2, <1>6, Zenon
<1>8. Append(inbound[s.to], s.image) \in Seq(Image)
  BY <1>2, <1>7
<1>9. inbound' \in {inbound, [inbound EXCEPT ![s.to] = Append(inbound[s.to], s.image)]}
  BY Zenon DEF send_snapshot, begin_receive, receive_snapshot, Break
<1>10. inbound' \in [Replicas -> Seq(Image)]
  BY <1>6, <1>8, <1>9, Zenon
<1> QED
  BY <1>1, <1>5, <1>10, NetworkKeeps, Zenon DEF SnapshotInv, TypeOK

LEMMA StutterKeeps ==
  ASSUME SnapshotInv, UNCHANGED <<node, store, acked, leader, offers, streams, inbound>>
  PROVE  Preserved
  BY NetworkKeeps, Zenon DEF SnapshotInv, TypeOK

LEMMA SnapshotStep ==
  ASSUME SnapshotInv, [Next]_vars
  PROVE  Preserved
<1>1. ASSUME NEW r \in Replicas, OtherInstall(r) PROVE Preserved
  BY <1>1, StutterKeeps, Zenon DEF OtherInstall
<1>2. CASE UNCHANGED vars
  BY <1>2, StutterKeeps, Zenon DEF vars
<1> QED
  BY <1>1, <1>2, CommitKeeps, ElectKeeps, TurnKeeps, RestartKeeps, SendKeeps, StreamKeeps, Zenon DEF Next

(***************************************************************************)
(* The theorems.                                                           *)
(***************************************************************************)
\* The inductive invariant of Ready-loop turns, snapshot files and restarts.
THEOREM SnapshotInvariant == Spec => []SnapshotInv
<1>1. SnapshotInv /\ [Next]_vars => SnapshotInv'
  BY SnapshotStep, Zenon DEF Preserved
<1> QED
  BY <1>1, SnapshotInit, PTL DEF Spec

\* A replica can recover every snapshot it has acknowledged, whatever the order of
\* publications, boundary writes, prunes, refused batches and restarts.
THEOREM AcknowledgedRecoverable == Spec => []AcknowledgedSnapshotsSurvive
<1>1. SnapshotInv => AcknowledgedSnapshotsSurvive
  BY Zenon DEF SnapshotInv, Recoverable, AcknowledgedSnapshotsSurvive
<1> QED
  BY <1>1, SnapshotInvariant, PTL

\* The bytes that are being installed are always the ones Raft has accepted last,
\* also when they waited for the node's Install permit.
THEOREM InstallIsAccepted == Spec => []PendingInstallIsTheAcceptedOne
<1>1. SnapshotInv => PendingInstallIsTheAcceptedOne
  BY Zenon DEF SnapshotInv, Consistent, PendingInstallIsTheAcceptedOne
<1> QED
  BY <1>1, SnapshotInvariant, PTL

\* No turn and no restart takes a tablet or its applied index back.
THEOREM TabletMovesForward == Spec => TabletNeverRegresses
<1>1. SnapshotInv /\ [Next]_vars =>
        [\A r \in Replicas : node'[r].tablet >= node[r].tablet
                             /\ node'[r].applied >= node[r].applied]_vars
  <2> SUFFICES ASSUME SnapshotInv, [Next]_vars, NEW r \in Replicas
               PROVE  node'[r].tablet >= node[r].tablet /\ node'[r].applied >= node[r].applied
    BY Zenon
  <2>1. Preserved
    BY SnapshotStep, Zenon
  <2>2. node[r] \in NodeState /\ node'[r] \in NodeState
    BY <2>1, Zenon DEF Preserved, SnapshotInv, TypeOK
  <2>3. node[r].tablet = node[r].applied /\ node'[r].tablet = node'[r].applied
    BY <2>1, Zenon DEF Preserved, SnapshotInv, Consistent
  <2>4. node[r].applied <= node'[r].applied
    BY <2>1, Zenon DEF Preserved
  <2>5. node[r].applied \in Nat /\ node'[r].applied \in Nat
    BY <2>2, Zenon DEF NodeState
  <2> QED
    BY <2>3, <2>4, <2>5
<1> QED
  BY <1>1, SnapshotInvariant, PTL DEF Spec, TabletNeverRegresses
=============================================================================
