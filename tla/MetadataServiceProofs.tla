----------------------- MODULE MetadataServiceProofs -----------------------
(***************************************************************************)
(* The metadata catalog under any sequence of commands, for any founding   *)
(* nodes, requests and placements: a retried request changes nothing and   *)
(* gets its first answer, and no placement names a node that is gone or a  *)
(* replica lifetime that is retired.                                       *)
(*                                                                         *)
(* CatalogOK is what every command keeps.  Identities are below their      *)
(* high-water marks, so a table created later takes a group no retirement  *)
(* mentions; a group has one tablet, so the tablet a retirement looks at is*)
(* the one whose placement could name the replica.                         *)
(***************************************************************************)
EXTENDS MetadataService, FiniteSetTheorems, WellFoundedInduction, TLAPS

Gone == {"decommissioned", "tombstoned"}
OutcomeKinds == {"applied", "already", "registered", "renewed", "created", "rejected"}

Catalog(cl, nd, ta, tt, pl, rt, al, rq, ss) ==
    [cluster |-> cl, nodes |-> nd, tables |-> ta, tablets |-> tt, placements |-> pl, retired |-> rt,
     alloc |-> al, requests |-> rq, sessions |-> ss]

Marks(a, b, g, r) == [table |-> a, tablet |-> b, group |-> g, replica |-> r]

\* A catalog has its fields.
IsCatalog(s) ==
    /\ s = Catalog(s.cluster, s.nodes, s.tables, s.tablets, s.placements, s.retired, s.alloc,
                   s.requests, s.sessions)
    /\ s.alloc = Marks(s.alloc.table, s.alloc.tablet, s.alloc.group, s.alloc.replica)

NodesOK(nodes) ==
    /\ IsFiniteSet(DOMAIN nodes) /\ DOMAIN nodes \subseteq Nat
    /\ \A n \in DOMAIN nodes : "life" \in DOMAIN nodes[n]

\* Identities are below their marks and a group has one tablet.
TabletsOK(tablets, alloc) ==
    /\ alloc.tablet \in Nat /\ alloc.group \in Nat
    /\ \A b \in DOMAIN tablets : /\ b \in Nat /\ b <= alloc.tablet
                                 /\ tablets[b].group \in Nat /\ tablets[b].group <= alloc.group
    /\ \A a, b \in DOMAIN tablets : tablets[a].group = tablets[b].group => a = b

\* A placement is one of a tablet and names nodes and lifetimes that are not gone.
PlacementsOK(placements, nodes, tablets, retired) ==
    \A b \in DOMAIN placements :
        /\ b \in DOMAIN tablets
        /\ \A r \in placements[b].replicas :
             /\ r.node \in DOMAIN nodes /\ nodes[r.node].life \notin Gone
             /\ <<tablets[b].group, r.id>> \notin DOMAIN retired

\* Lifetimes are retired in the groups of tablets.
RetiredOK(retired, tablets) ==
    \A k \in DOMAIN retired : \E b \in DOMAIN tablets : tablets[b].group = k[1]

CatalogOK(s) ==
    /\ IsCatalog(s)
    /\ NodesOK(s.nodes)
    /\ TabletsOK(s.tablets, s.alloc)
    /\ PlacementsOK(s.placements, s.nodes, s.tablets, s.retired)
    /\ RetiredOK(s.retired, s.tablets)

\* What a command yields: a catalog, the same cached answers, and an outcome.
GoodResult(s, r) ==
    /\ r.outcome.kind \in OutcomeKinds
    /\ CatalogOK(r.state)
    /\ r.state.requests = s.requests

(***************************************************************************)
(* Sets of numbers.                                                        *)
(***************************************************************************)
LEMMA LeastElement ==
  ASSUME NEW S \in SUBSET Nat, S # {}
  PROVE  \E x \in S : \A y \in S : x <= y
<1> DEFINE R == OpToRel(<, Nat)
<1>1. IsWellFoundedOn(R, Nat)
  BY NatLessThanWellFounded, Zenon
<1>2. \A x, y \in Nat : x < y => <<x, y>> \in R
  BY Zenon DEF OpToRel
<1> HIDE DEF R
<1>3. PICK x \in S : \A y \in S : <<y, x>> \notin R
  BY <1>1, WFMin, Zenon
<1>4. ASSUME NEW y \in S PROVE x <= y
  <2>1. x \in Nat /\ y \in Nat
    OBVIOUS
  <2>2. ~(y < x)
    BY <1>2, <1>3, <2>1, Zenon
  <2> QED
    BY <2>1, <2>2
<1> QED
  BY <1>4, Zenon

LEMMA MinExists ==
  ASSUME NEW S \in SUBSET Nat, S # {}
  PROVE  Min(S) \in S /\ \A y \in S : Min(S) <= y
<1>1. PICK x \in S : \A y \in S : x <= y
  BY LeastElement, Zenon
<1> QED
  BY <1>1, Zenon DEF Min

\* The distance to the bound has a least element.
LEMMA MaxExists ==
  ASSUME NEW S \in SUBSET Nat, S # {}, NEW n \in Nat, \A x \in S : x <= n
  PROVE  Max(S) \in S /\ \A y \in S : Max(S) >= y
<1> DEFINE D == {d \in Nat : n - d \in S}
<1>1. D \in SUBSET Nat /\ D # {}
  <2>1. PICK x \in S : TRUE
    OBVIOUS
  <2>2. n - x \in Nat /\ n - (n - x) = x
    OBVIOUS
  <2> QED
    BY <2>1, <2>2
<1>2. PICK d \in D : \A e \in D : d <= e
  BY <1>1, LeastElement, Zenon
<1>3. ASSUME NEW y \in S PROVE n - d >= y
  <2>1. n - y \in Nat /\ n - (n - y) = y
    OBVIOUS
  <2>2. d <= n - y
    BY <1>2, <2>1
  <2> QED
    BY <2>1, <2>2
<1>4. n - d \in S
  OBVIOUS
<1> QED
  BY <1>3, <1>4, Zenon DEF Max

LEMMA MaxOfTwo ==
  ASSUME NEW a \in Nat, NEW b \in Nat
  PROVE  Max({a, b}) \in Nat /\ a <= Max({a, b}) /\ b <= Max({a, b})
<1>1. PICK n \in Nat : a <= n /\ b <= n
  <2>1. a + b \in Nat /\ a <= a + b /\ b <= a + b
    OBVIOUS
  <2> QED
    BY <2>1, Zenon
<1>2. {a, b} \in SUBSET Nat /\ {a, b} # {} /\ \A x \in {a, b} : x <= n
  BY <1>1
<1>3. PICK m : m = Max({a, b})
  BY Zenon
<1>4. m \in {a, b} /\ \A y \in {a, b} : m >= y
  BY <1>2, <1>3, MaxExists, Zenon
<1> QED
  BY <1>3, <1>4

(***************************************************************************)
(* The voters of a new tablet are active nodes: whatever was selected, a   *)
(* best candidate among the others exists.                                 *)
(***************************************************************************)
LEMMA CandidateExists ==
  ASSUME NEW s, NEW C \in SUBSET Nat, C # {}, NEW T
  PROVE  BestCandidate(s, C, T) \in C
<1> DEFINE G == {LocalityGain(s, n, T) : n \in C}
<1>1. ASSUME NEW n \in C PROVE LocalityGain(s, n, T) \in Nat /\ LocalityGain(s, n, T) <= Cardinality(Domains)
  <2>1. PICK E : E = {d \in Domains : /\ s.nodes[n].labels[d] # None
                                      /\ s.nodes[n].labels[d] \notin LabelsOf(s, T, d)}
    BY Zenon
  <2>2. E \in SUBSET Domains
    BY <2>1, Zenon
  <2>3. IsFiniteSet(E) /\ Cardinality(E) <= Cardinality(Domains)
    BY <2>2, DomainAssumption, FS_Subset, Zenon
  <2>4. Cardinality(E) \in Nat
    BY <2>3, FS_CardinalityType, Zenon
  <2> QED
    BY <2>1, <2>3, <2>4, Zenon DEF LocalityGain
<1>2. Cardinality(Domains) \in Nat
  BY DomainAssumption, FS_CardinalityType, Zenon
<1>3. G \in SUBSET Nat /\ G # {} /\ \A x \in G : x <= Cardinality(Domains)
  BY <1>1, Zenon
<1>4. Max(G) \in G
  BY <1>2, <1>3, MaxExists, Zenon
<1>5. PICK B : B = {n \in C : LocalityGain(s, n, T) = Max(G)}
  BY Zenon
<1>6. B \in SUBSET Nat /\ B # {} /\ B \subseteq C
  BY <1>4, <1>5, Zenon
<1>7. Min(B) \in C
  BY <1>6, MinExists, Zenon
<1> QED
  BY <1>5, <1>7, Zenon DEF BestCandidate

\* The first k steps of the loop.
Selected(s, k, v) ==
    /\ v \in [1..k -> ActiveNodes(s)]
    /\ \A i \in 1..k :
         v[i] = BestCandidate(s, ActiveNodes(s) \ {v[j] : j \in 1..(i - 1)}, {v[j] : j \in 1..(i - 1)})

LEMMA LoopContinues ==
  ASSUME NEW s, NEW A, A = ActiveNodes(s), A \in SUBSET Nat, IsFiniteSet(A),
         NEW k \in Nat, k < Cardinality(A), NEW v, Selected(s, k, v)
  PROVE  \E w : Selected(s, k + 1, w)
<1>1. PICK T : T = {v[j] : j \in 1..k}
  BY Zenon
<1>2. v \in [1..k -> A]
  BY Zenon DEF Selected
<1>3. A \ T # {}
  <2>1. ASSUME A \subseteq T PROVE FALSE
    <3>1. v \in Surjection(1..k, T)
      <4>1. v \in [1..k -> T]
        BY <1>1, <1>2
      <4> QED
        BY <1>1, <4>1, Zenon DEF Surjection
    <3>2. IsFiniteSet(1..k) /\ Cardinality(1..k) = k
      <4>1. 1 \in Int /\ k \in Int
        OBVIOUS
      <4>2. IsFiniteSet(1..k)
        BY <4>1, FS_Interval, Zenon
      <4>3. PICK c : c = Cardinality(1..k) /\ c = IF 1 > k THEN 0 ELSE k - 1 + 1
        BY <4>1, FS_Interval, Zenon
      <4>4. c = k
        BY <4>3
      <4> QED
        BY <4>2, <4>3, <4>4, Zenon
    <3>3. IsFiniteSet(T) /\ Cardinality(T) <= k
      <4>1. PICK I : I = 1..k
        BY Zenon
      <4>2. v \in Surjection(I, T) /\ IsFiniteSet(I)
        BY <3>1, <3>2, <4>1, Zenon
      <4>3. IsFiniteSet(T) /\ Cardinality(T) <= Cardinality(I)
        BY <4>2, FS_Surjection, Zenon
      <4> QED
        BY <3>2, <4>1, <4>3, Zenon
    <3>4. Cardinality(A) <= Cardinality(T)
      BY <2>1, <3>3, FS_Subset, Zenon
    <3>5. Cardinality(A) \in Nat /\ Cardinality(T) \in Nat
      BY <3>3, FS_CardinalityType, Zenon
    <3> QED
      BY <3>3, <3>4, <3>5
  <2> QED
    BY <2>1, Zenon
<1>4. PICK c : c = BestCandidate(s, A \ T, T)
  BY Zenon
<1>5. c \in A
  <2>1. A \ T \in SUBSET Nat
    BY Zenon
  <2> QED
    BY <1>3, <1>4, <2>1, CandidateExists, Zenon
<1>6. PICK w : w = [i \in 1..(k + 1) |-> IF i = k + 1 THEN c ELSE v[i]]
  BY Zenon
<1>7. /\ w \in [1..(k + 1) -> A] /\ w[k + 1] = c
      /\ \A i \in 1..k : w[i] = v[i]
  BY <1>2, <1>5, <1>6
<1>8. ASSUME NEW i \in 1..(k + 1)
      PROVE  {w[j] : j \in 1..(i - 1)} = {v[j] : j \in 1..(i - 1)}
  <2>1. \A j \in 1..(i - 1) : j \in 1..k
    OBVIOUS
  <2>2. \A j \in 1..(i - 1) : w[j] = v[j]
    BY <1>7, <2>1, Zenon
  <2> QED
    BY <2>2, Zenon
<1>9. ASSUME NEW i \in 1..(k + 1)
      PROVE  w[i] = BestCandidate(s, A \ {w[j] : j \in 1..(i - 1)}, {w[j] : j \in 1..(i - 1)})
  <2>1. CASE i = k + 1
    <3>1. i - 1 = k
      BY <2>1
    <3>2. {w[j] : j \in 1..(i - 1)} = T
      BY <1>1, <1>8, <3>1, Zenon
    <3> QED
      BY <1>4, <1>7, <2>1, <3>2, Zenon
  <2>2. CASE i # k + 1
    <3>1. i \in 1..k
      BY <2>2
    <3>2. v[i] = BestCandidate(s, A \ {v[j] : j \in 1..(i - 1)}, {v[j] : j \in 1..(i - 1)})
      BY <3>1, Zenon DEF Selected
    <3> QED
      BY <1>7, <1>8, <3>1, <3>2, Zenon
  <2> QED
    BY <2>1, <2>2, Zenon
<1> QED
  BY <1>7, <1>9, Zenon DEF Selected

LEMMA VotersAreActive ==
  ASSUME NEW s, IsFiniteSet(ActiveNodes(s)), ActiveNodes(s) \in SUBSET Nat,
         NEW count \in Nat, count <= Cardinality(ActiveNodes(s))
  PROVE  SelectVoters(s, count) \in [1..count -> ActiveNodes(s)]
<1>1. PICK A : A = ActiveNodes(s)
  BY Zenon
<1>2. Cardinality(A) \in Nat
  BY <1>1, FS_CardinalityType, Zenon
<1> DEFINE U == {k \in Nat : k <= count /\ ~\E v : Selected(s, k, v)}
<1>3. ASSUME U # {} PROVE FALSE
  <2>1. U \in SUBSET Nat
    BY Zenon
  <2>2. PICK k \in U : \A y \in U : k <= y
    BY <1>3, <2>1, LeastElement, Zenon
  <2>3. CASE k = 0
    <3>1. PICK v : v = [i \in 1..0 |-> None]
      BY Zenon
    <3>2. \A i \in 1..0 : FALSE
      OBVIOUS
    <3>3. v \in [1..0 -> ActiveNodes(s)]
      BY <3>1, <3>2
    <3>4. Selected(s, 0, v)
      BY <3>2, <3>3, Zenon DEF Selected
    <3> QED
      BY <2>3, <3>4, Zenon
  <2>4. CASE k # 0
    <3>1. k - 1 \in Nat /\ k - 1 <= count /\ ~(k <= k - 1) /\ k = (k - 1) + 1
      BY <2>4
    <3>2. k - 1 < Cardinality(A)
      BY <1>1, <1>2
    <3>3. PICK v : Selected(s, k - 1, v)
      BY <2>2, <3>1, Zenon
    <3>4. \E w : Selected(s, (k - 1) + 1, w)
      BY <1>1, <3>1, <3>2, <3>3, LoopContinues, Zenon
    <3> QED
      BY <3>1, <3>4, Zenon
  <2> QED
    BY <2>3, <2>4, Zenon
<1>4. PICK v : Selected(s, count, v)
  <2>1. count <= count
    OBVIOUS
  <2> QED
    BY <1>3, <2>1, Zenon
<1> QED
  BY <1>4, Zenon DEF Selected, SelectVoters

(***************************************************************************)
(* The commands, one by one.                                               *)
(***************************************************************************)

\* A refused or repeated command.
LEMMA NothingChanges ==
  ASSUME NEW s, CatalogOK(s), NEW r, r = AlreadyApplied(s) \/ \E why : r = Rejected(s, why)
  PROVE  GoodResult(s, r)
<1>1. r.state = s /\ r.outcome.kind \in {"already", "rejected"}
  BY DEF AlreadyApplied, Rejected
<1> QED
  BY <1>1, Zenon DEF GoodResult, OutcomeKinds

LEMMA CatalogChanges ==
  ASSUME NEW s, NEW t, CatalogOK(t), t.requests = s.requests, NEW o, o.kind \in OutcomeKinds,
         NEW r, r = Answer(t, o)
  PROVE  GoodResult(s, r)
<1>1. r.state = t /\ r.outcome = o
  BY DEF Answer
<1> QED
  BY <1>1, Zenon DEF GoodResult

LEMMA CatalogApplied ==
  ASSUME NEW s, NEW t, CatalogOK(t), t.requests = s.requests, NEW r, r = Applied(t)
  PROVE  GoodResult(s, r)
<1>1. r.state = t /\ r.outcome.kind = "applied"
  BY DEF Applied
<1> QED
  BY <1>1, Zenon DEF GoodResult, OutcomeKinds

\* Commands that leave nodes, tablets, placements and retirements alone.
LEMMA OtherFields ==
  ASSUME NEW s, CatalogOK(s), NEW t, IsCatalog(t),
         t.nodes = s.nodes, t.tablets = s.tablets, t.placements = s.placements,
         t.retired = s.retired, t.alloc.tablet = s.alloc.tablet, t.alloc.group = s.alloc.group
  PROVE  CatalogOK(t)
  BY Zenon DEF CatalogOK, TabletsOK

LEMMA ClusterInitializedGood ==
  ASSUME NEW s, CatalogOK(s), NEW c
  PROVE  GoodResult(s, ApplyClusterInitialized(s, c))
<1>1. PICK t : t = [s EXCEPT !.cluster = c.cluster]
  BY Zenon
<1>2. PICK r : r = ApplyClusterInitialized(s, c)
  BY Zenon
<1>3. r = AlreadyApplied(s) \/ r = Rejected(s, "cluster") \/ r = Applied(t)
  BY <1>1, <1>2, Zenon DEF ApplyClusterInitialized
<1>4. /\ IsCatalog(t)
      /\ t.nodes = s.nodes /\ t.tablets = s.tablets /\ t.placements = s.placements
      /\ t.retired = s.retired /\ t.alloc = s.alloc /\ t.requests = s.requests
  BY <1>1 DEF CatalogOK, IsCatalog, Catalog
<1>5. CatalogOK(t)
  BY <1>4, OtherFields, Zenon
<1> QED
  BY <1>2, <1>3, <1>4, <1>5, NothingChanges, CatalogApplied, Zenon

LEMMA SessionsChange ==
  ASSUME NEW s, CatalogOK(s), NEW x, NEW t, t = [s EXCEPT !.sessions = x]
  PROVE  CatalogOK(t) /\ t.requests = s.requests
<1>1. /\ IsCatalog(t)
      /\ t.nodes = s.nodes /\ t.tablets = s.tablets /\ t.placements = s.placements
      /\ t.retired = s.retired /\ t.alloc = s.alloc /\ t.requests = s.requests
  BY DEF CatalogOK, IsCatalog, Catalog
<1> QED
  BY <1>1, OtherFields, Zenon

LEMMA RegisterClientGood ==
  ASSUME NEW s, CatalogOK(s), NEW c
  PROVE  GoodResult(s, ApplyRegisterClient(s, c))
<1>1. PICK r : r = ApplyRegisterClient(s, c)
  BY Zenon
<1>2. \/ r = AlreadyApplied(s) \/ r = Rejected(s, "session epoch")
      \/ \E e : r = Answer([s EXCEPT !.sessions = Put(s.sessions, c.client,
                                                       [epoch |-> e, acked |-> 0, retained |-> 1])],
                           [kind |-> "registered", epoch |-> e])
  BY <1>1 DEF ApplyRegisterClient
<1>3. ASSUME NEW e, NEW t, t = [s EXCEPT !.sessions = Put(s.sessions, c.client,
                                                  [epoch |-> e, acked |-> 0, retained |-> 1])],
             NEW o, o = [kind |-> "registered", epoch |-> e], r = Answer(t, o)
      PROVE  GoodResult(s, r)
  <2>1. o.kind \in OutcomeKinds
    BY <1>3 DEF OutcomeKinds
  <2>2. CatalogOK(t) /\ t.requests = s.requests
    BY <1>3, SessionsChange, Zenon
  <2> QED
    BY <1>3, <2>1, <2>2, CatalogChanges, Zenon
<1> QED
  BY <1>1, <1>2, <1>3, NothingChanges, Zenon

LEMMA RenewClientGood ==
  ASSUME NEW s, CatalogOK(s), NEW c
  PROVE  GoodResult(s, ApplyRenewClient(s, c))
<1>1. PICK r : r = ApplyRenewClient(s, c)
  BY Zenon
<1>2. PICK t : t = [s EXCEPT !.sessions[c.client].acked = c.acked,
                             !.sessions[c.client].retained = c.acked + 1]
  BY Zenon
<1>3. PICK o : o = [kind |-> "renewed"]
  BY Zenon
<1>4. \/ r = AlreadyApplied(s) \/ \E why : r = Rejected(s, why)
      \/ r = Answer(t, o)
  BY <1>1, <1>2, <1>3, Zenon DEF ApplyRenewClient
<1>5. /\ IsCatalog(t)
      /\ t.nodes = s.nodes /\ t.tablets = s.tablets /\ t.placements = s.placements
      /\ t.retired = s.retired /\ t.alloc = s.alloc /\ t.requests = s.requests
  BY <1>2 DEF CatalogOK, IsCatalog, Catalog
<1>6. CatalogOK(t)
  BY <1>5, OtherFields, Zenon
<1>7. o.kind \in OutcomeKinds
  BY <1>3 DEF OutcomeKinds
<1> QED
  BY <1>1, <1>4, <1>5, <1>6, <1>7, NothingChanges, CatalogChanges, Zenon

LEMMA SetNodeLifecycleGood ==
  ASSUME NEW s, CatalogOK(s), NEW n, NEW life
  PROVE  GoodResult(s, ApplySetNodeLifecycle(s, n, life))
<1>1. PICK r : r = ApplySetNodeLifecycle(s, n, life)
  BY Zenon
<1>2. PICK t : t = [s EXCEPT !.nodes[n].life = life]
  BY Zenon
<1>3. \/ r = AlreadyApplied(s) \/ \E why : r = Rejected(s, why)
      \/ /\ n \in DOMAIN s.nodes /\ r = Applied(t)
         /\ life \in Gone => DesiredOn(s, n) = {}
  BY <1>1, <1>2, Zenon DEF ApplySetNodeLifecycle, Gone
<1>4. CASE n \in DOMAIN s.nodes /\ r = Applied(t) /\ (life \in Gone => DesiredOn(s, n) = {})
  <2>1. /\ IsCatalog(t)
        /\ t.nodes = [s.nodes EXCEPT ![n].life = life]
        /\ t.tablets = s.tablets /\ t.placements = s.placements
        /\ t.retired = s.retired /\ t.alloc = s.alloc /\ t.requests = s.requests
    BY <1>2 DEF CatalogOK, IsCatalog, Catalog
  <2>2. NodesOK(s.nodes) /\ PlacementsOK(s.placements, s.nodes, s.tablets, s.retired)
    BY Zenon DEF CatalogOK
  <2>3. PICK nd : nd = s.nodes
    BY Zenon
  <2>4. PICK nt : nt = [nd EXCEPT ![n].life = life]
    BY Zenon
  <2>5. /\ DOMAIN nt = DOMAIN nd
        /\ \A m \in DOMAIN nd : m # n => nt[m] = nd[m]
    BY <2>4
  <2>6. nt[n].life = life /\ DOMAIN nt[n] = DOMAIN nd[n]
    BY <1>4, <2>2, <2>3, <2>4 DEF NodesOK
  <2>7. NodesOK(nt)
    BY <2>2, <2>3, <2>5, <2>6, Zenon DEF NodesOK
  <2>8. PlacementsOK(s.placements, nt, s.tablets, s.retired)
    <3>1. ASSUME NEW b \in DOMAIN s.placements, NEW p \in s.placements[b].replicas
          PROVE  nt[p.node].life \notin Gone
      <4>1. p.node \in DOMAIN nd /\ nd[p.node].life \notin Gone
        BY <2>2, <2>3, Zenon DEF PlacementsOK
      <4>2. CASE p.node # n
        BY <2>5, <4>1, <4>2, Zenon
      <4>3. CASE p.node = n
        <5>1. b \in DesiredOn(s, n)
          BY <4>3, Zenon DEF DesiredOn
        <5> QED
          BY <1>4, <2>6, <4>3, <5>1, Zenon
      <4> QED
        BY <4>2, <4>3, Zenon
    <3> QED
      BY <2>2, <2>3, <2>5, <3>1, Zenon DEF PlacementsOK
  <2>9. CatalogOK(t)
    BY <2>1, <2>3, <2>4, <2>7, <2>8, Zenon DEF CatalogOK
  <2> QED
    BY <1>1, <1>4, <2>1, <2>9, CatalogApplied, Zenon
<1> QED
  BY <1>1, <1>3, <1>4, NothingChanges, Zenon

LEMMA RegisterNodeGood ==
  ASSUME NEW s, CatalogOK(s), NEW c, c.id \in Nat, "life" \in DOMAIN c.node
  PROVE  GoodResult(s, ApplyRegisterNode(s, c))
<1>1. PICK r : r = ApplyRegisterNode(s, c)
  BY Zenon
<1>2. PICK t : t = [s EXCEPT !.nodes = Put(s.nodes, c.id, c.node)]
  BY Zenon
<1>3. \/ r = AlreadyApplied(s) \/ \E why : r = Rejected(s, why)
      \/ r = ApplySetNodeLifecycle(s, c.id, c.node.life)
      \/ c.id \notin DOMAIN s.nodes /\ r = Applied(t) /\ c.node.life = "active"
  BY <1>1, <1>2, Zenon DEF ApplyRegisterNode
<1>4. CASE c.id \notin DOMAIN s.nodes /\ r = Applied(t) /\ c.node.life = "active"
  <2>1. PICK nt : nt = Put(s.nodes, c.id, c.node)
    BY Zenon
  <2>2. /\ IsCatalog(t) /\ t.nodes = nt
        /\ t.tablets = s.tablets /\ t.placements = s.placements
        /\ t.retired = s.retired /\ t.alloc = s.alloc /\ t.requests = s.requests
    BY <1>2, <2>1 DEF CatalogOK, IsCatalog, Catalog
  <2>3. NodesOK(s.nodes) /\ PlacementsOK(s.placements, s.nodes, s.tablets, s.retired)
    BY Zenon DEF CatalogOK
  <2>4. /\ DOMAIN nt = DOMAIN s.nodes \cup {c.id} /\ nt[c.id] = c.node
        /\ \A m \in DOMAIN s.nodes : nt[m] = s.nodes[m]
    BY <1>4, <2>1 DEF Put
  <2>5. IsFiniteSet(DOMAIN nt)
    <3>1. PICK D : D = DOMAIN s.nodes
      BY Zenon
    <3>2. IsFiniteSet(D)
      BY <2>3, <3>1, Zenon DEF NodesOK
    <3>3. PICK i : i = c.id
      BY Zenon
    <3>4. IsFiniteSet(D \cup {i})
      BY <3>2, FS_AddElement, Zenon
    <3> QED
      BY <2>4, <3>1, <3>3, <3>4, Zenon
  <2>6. NodesOK(nt)
    BY <2>3, <2>4, <2>5, Zenon DEF NodesOK
  <2>7. PlacementsOK(s.placements, nt, s.tablets, s.retired)
    BY <2>3, <2>4, Zenon DEF PlacementsOK
  <2>8. CatalogOK(t)
    BY <2>2, <2>6, <2>7, Zenon DEF CatalogOK
  <2> QED
    BY <1>1, <1>4, <2>2, <2>8, CatalogApplied, Zenon
<1> QED
  BY <1>1, <1>3, <1>4, NothingChanges, SetNodeLifecycleGood, Zenon

LEMMA CreateTableGood ==
  ASSUME NEW s, CatalogOK(s), NEW c
  PROVE  GoodResult(s, ApplyCreateTable(s, c))
<1>1. PICK r : r = ApplyCreateTable(s, c)
  BY Zenon
<1>2. PICK t : t = [s EXCEPT !.tables = Put(s.tables, c.table.id, TableOf(c.table)),
                             !.alloc.table = Max({s.alloc.table, c.table.id})]
  BY Zenon
<1>3. \/ r = AlreadyApplied(s) \/ \E why : r = Rejected(s, why)
      \/ r = Applied(t)
  BY <1>1, <1>2 DEF ApplyCreateTable
<1>4. /\ IsCatalog(t)
      /\ t.nodes = s.nodes /\ t.tablets = s.tablets /\ t.placements = s.placements
      /\ t.retired = s.retired /\ t.requests = s.requests
      /\ t.alloc.tablet = s.alloc.tablet /\ t.alloc.group = s.alloc.group
  BY <1>2 DEF CatalogOK, IsCatalog, Catalog, Marks
<1>5. CatalogOK(t)
  BY <1>4, OtherFields, Zenon
<1> QED
  BY <1>1, <1>3, <1>4, <1>5, NothingChanges, CatalogApplied, Zenon

LEMMA SchemaUpdateGood ==
  ASSUME NEW s, CatalogOK(s), NEW c
  PROVE  GoodResult(s, ApplySchemaUpdate(s, c))
<1>1. PICK r : r = ApplySchemaUpdate(s, c)
  BY Zenon
<1>2. PICK t : t = [s EXCEPT !.tables[c.table.id] = TableOf(c.table)]
  BY Zenon
<1>3. \/ r = AlreadyApplied(s) \/ \E why : r = Rejected(s, why)
      \/ r = Applied(t)
  BY <1>1, <1>2, Zenon DEF ApplySchemaUpdate
<1>4. /\ IsCatalog(t)
      /\ t.nodes = s.nodes /\ t.tablets = s.tablets /\ t.placements = s.placements
      /\ t.retired = s.retired /\ t.alloc = s.alloc /\ t.requests = s.requests
  BY <1>2 DEF CatalogOK, IsCatalog, Catalog
<1>5. CatalogOK(t)
  BY <1>4, OtherFields, Zenon
<1> QED
  BY <1>1, <1>3, <1>4, <1>5, NothingChanges, CatalogApplied, Zenon

LEMMA CreateTabletGood ==
  ASSUME NEW s, CatalogOK(s), NEW c, c.tablet.id \in Nat, c.tablet.group \in Nat
  PROVE  GoodResult(s, ApplyCreateTablet(s, c))
<1>1. PICK r : r = ApplyCreateTablet(s, c)
  BY Zenon
<1>2. PICK i, g, x : i = c.tablet.id /\ g = c.tablet.group /\ x = TabletOf(c.tablet)
  BY Zenon
<1>3. PICK a, d : a = Max({s.alloc.tablet, i}) /\ d = Max({s.alloc.group, g})
  BY Zenon
<1>4. PICK tt : tt = Put(s.tablets, i, x)
  BY Zenon
<1>5. PICK t : t = [s EXCEPT !.tablets = tt, !.alloc.tablet = a, !.alloc.group = d]
  BY Zenon
<1>6. \/ r = AlreadyApplied(s) \/ \E why : r = Rejected(s, why)
      \/ i \notin DOMAIN s.tablets /\ TabletOfGroup(s, g) = {} /\ r = Applied(t)
  BY <1>1, <1>2, <1>3, <1>4, <1>5 DEF ApplyCreateTablet
<1>7. CASE i \notin DOMAIN s.tablets /\ TabletOfGroup(s, g) = {} /\ r = Applied(t)
  <2>1. /\ IsCatalog(t) /\ t.tablets = tt /\ t.alloc.tablet = a /\ t.alloc.group = d
        /\ t.nodes = s.nodes /\ t.placements = s.placements
        /\ t.retired = s.retired /\ t.requests = s.requests
    BY <1>5 DEF CatalogOK, IsCatalog, Catalog, Marks
  <2>2. /\ NodesOK(s.nodes) /\ PlacementsOK(s.placements, s.nodes, s.tablets, s.retired)
        /\ TabletsOK(s.tablets, s.alloc) /\ RetiredOK(s.retired, s.tablets)
    BY Zenon DEF CatalogOK
  <2>3. /\ DOMAIN tt = DOMAIN s.tablets \cup {i} /\ tt[i] = x
        /\ \A b \in DOMAIN s.tablets : tt[b] = s.tablets[b]
    BY <1>4, <1>7 DEF Put
  <2>4. i \in Nat /\ g \in Nat /\ x.group = g
    BY <1>2 DEF TabletOf
  <2>5. /\ a \in Nat /\ s.alloc.tablet <= a /\ i <= a
        /\ d \in Nat /\ s.alloc.group <= d /\ g <= d
        /\ s.alloc.tablet \in Nat /\ s.alloc.group \in Nat
    BY <1>3, <2>2, <2>4, MaxOfTwo, Zenon DEF TabletsOK
  <2>6. ASSUME NEW b \in DOMAIN tt
        PROVE  b \in Nat /\ b <= a /\ tt[b].group \in Nat /\ tt[b].group <= d
    <3>1. CASE b = i
      BY <2>3, <2>4, <2>5, <3>1, Zenon
    <3>2. CASE b \in DOMAIN s.tablets
      <4>1. PICK h : h = s.tablets[b].group
        BY Zenon
      <4>2. /\ b \in Nat /\ b <= s.alloc.tablet /\ h \in Nat /\ h <= s.alloc.group
            /\ tt[b].group = h
        BY <2>2, <2>3, <3>2, <4>1, Zenon DEF TabletsOK
      <4>3. b <= a /\ h <= d
        BY <2>5, <4>2
      <4> QED
        BY <4>2, <4>3, Zenon
    <3> QED
      BY <2>3, <3>1, <3>2, Zenon
  <2>7. ASSUME NEW b \in DOMAIN s.tablets PROVE s.tablets[b].group # g
    BY <1>7, Zenon DEF TabletOfGroup
  <2>8. ASSUME NEW e \in DOMAIN tt, NEW b \in DOMAIN tt, tt[e].group = tt[b].group PROVE e = b
    BY <2>2, <2>3, <2>4, <2>7, <2>8, Zenon DEF TabletsOK
  <2>9. TabletsOK(tt, t.alloc)
    BY <2>1, <2>5, <2>6, <2>8, Zenon DEF TabletsOK
  <2>10. RetiredOK(s.retired, tt)
    BY <2>2, <2>3, Zenon DEF RetiredOK
  <2>11. PlacementsOK(s.placements, s.nodes, tt, s.retired)
    BY <2>2, <2>3, Zenon DEF PlacementsOK
  <2>12. CatalogOK(t)
    BY <2>1, <2>2, <2>9, <2>10, <2>11, Zenon DEF CatalogOK
  <2> QED
    BY <1>1, <1>7, <2>1, <2>12, CatalogApplied, Zenon
<1> QED
  BY <1>1, <1>6, <1>7, NothingChanges, Zenon

LEMMA DesiredPlacementGood ==
  ASSUME NEW s, CatalogOK(s), NEW c
  PROVE  GoodResult(s, ApplyDesiredPlacement(s, c))
<1>1. PICK r : r = ApplyDesiredPlacement(s, c)
  BY Zenon
<1>2. PICK b, p : b = c.tablet /\ p = c.placement
  BY Zenon
<1>3. PICK m, pt : m = MaxReplica(p.replicas, s.alloc.replica) /\ pt = Put(s.placements, b, p)
  BY Zenon
<1>4. PICK t : t = [s EXCEPT !.placements = pt, !.alloc.replica = m]
  BY Zenon
<1>5. \/ r = AlreadyApplied(s) \/ \E why : r = Rejected(s, why)
      \/ /\ b \in DOMAIN s.tablets
         /\ \A q \in p.replicas : /\ q.node \in DOMAIN s.nodes /\ NodeAccepts(s, b, p, q)
                                  /\ ~IsReplicaRetired(s, s.tablets[b].group, q.id)
         /\ r = Applied(t)
  BY <1>1, <1>2, <1>3, <1>4 DEF ApplyDesiredPlacement
<1>6. CASE /\ b \in DOMAIN s.tablets
           /\ \A q \in p.replicas : /\ q.node \in DOMAIN s.nodes /\ NodeAccepts(s, b, p, q)
                                    /\ ~IsReplicaRetired(s, s.tablets[b].group, q.id)
           /\ r = Applied(t)
  <2>1. /\ IsCatalog(t) /\ t.placements = pt
        /\ t.alloc.tablet = s.alloc.tablet /\ t.alloc.group = s.alloc.group
        /\ t.nodes = s.nodes /\ t.tablets = s.tablets
        /\ t.retired = s.retired /\ t.requests = s.requests
    BY <1>4 DEF CatalogOK, IsCatalog, Catalog, Marks
  <2>2. /\ NodesOK(s.nodes) /\ PlacementsOK(s.placements, s.nodes, s.tablets, s.retired)
        /\ TabletsOK(s.tablets, s.alloc) /\ RetiredOK(s.retired, s.tablets)
    BY Zenon DEF CatalogOK
  <2>3. /\ DOMAIN pt = DOMAIN s.placements \cup {b} /\ pt[b] = p
        /\ \A x \in DOMAIN s.placements : x # b => pt[x] = s.placements[x]
    BY <1>3 DEF Put
  <2>4. ASSUME NEW q \in p.replicas
        PROVE  s.nodes[q.node].life \notin Gone /\ <<s.tablets[b].group, q.id>> \notin DOMAIN s.retired
    <3>1. s.nodes[q.node].life \in {"active", "draining", "decommissioning"}
      BY <1>6, Zenon DEF NodeAccepts
    <3>2. s.nodes[q.node].life \notin Gone
      BY <3>1 DEF Gone
    <3> QED
      BY <1>6, <3>2, Zenon DEF IsReplicaRetired
  <2>5. PlacementsOK(pt, s.nodes, s.tablets, s.retired)
    BY <1>6, <2>2, <2>3, <2>4, Zenon DEF PlacementsOK
  <2>6. TabletsOK(s.tablets, t.alloc)
    BY <2>1, <2>2, Zenon DEF TabletsOK
  <2>7. CatalogOK(t)
    BY <2>1, <2>2, <2>5, <2>6, Zenon DEF CatalogOK
  <2> QED
    BY <1>1, <1>6, <2>1, <2>7, CatalogApplied, Zenon
<1> QED
  BY <1>1, <1>5, <1>6, NothingChanges, Zenon

LEMMA ReplicaRetirementGood ==
  ASSUME NEW s, CatalogOK(s), NEW c
  PROVE  GoodResult(s, ApplyReplicaRetirement(s, c))
<1>1. PICK r : r = ApplyReplicaRetirement(s, c)
  BY Zenon
<1>2. PICK key, rt : /\ key = <<c.group, c.id>>
                     /\ rt = Put(s.retired, key, [epoch |-> c.epoch, version |-> c.version])
  BY Zenon
<1>3. PICK t : t = [s EXCEPT !.retired = rt]
  BY Zenon
<1>4. PICK b : b = CHOOSE x \in TabletOfGroup(s, c.group) : TRUE
  BY Zenon
<1>5. \/ r = AlreadyApplied(s) \/ \E why : r = Rejected(s, why)
      \/ /\ TabletOfGroup(s, c.group) # {} /\ b \in DOMAIN s.placements
         /\ c.id \notin ReplicaIds(s.placements[b].replicas) /\ r = Applied(t)
  BY <1>1, <1>2, <1>3, <1>4 DEF ApplyReplicaRetirement
<1>6. CASE /\ TabletOfGroup(s, c.group) # {} /\ b \in DOMAIN s.placements
           /\ c.id \notin ReplicaIds(s.placements[b].replicas) /\ r = Applied(t)
  <2>1. /\ IsCatalog(t) /\ t.retired = rt
        /\ t.nodes = s.nodes /\ t.tablets = s.tablets /\ t.placements = s.placements
        /\ t.alloc = s.alloc /\ t.requests = s.requests
    BY <1>3 DEF CatalogOK, IsCatalog, Catalog
  <2>2. /\ NodesOK(s.nodes) /\ PlacementsOK(s.placements, s.nodes, s.tablets, s.retired)
        /\ TabletsOK(s.tablets, s.alloc) /\ RetiredOK(s.retired, s.tablets)
    BY Zenon DEF CatalogOK
  <2>3. DOMAIN rt = DOMAIN s.retired \cup {key}
    BY <1>2 DEF Put
  <2>4. b \in DOMAIN s.tablets /\ s.tablets[b].group = c.group
    BY <1>4, <1>6, Zenon DEF TabletOfGroup
  <2>5. ASSUME NEW x \in DOMAIN s.placements, NEW q \in s.placements[x].replicas
        PROVE  <<s.tablets[x].group, q.id>> # key
    <3>1. CASE x = b
      <4>1. q.id # c.id
        BY <1>6, <3>1, Zenon DEF ReplicaIds
      <4> QED
        BY <1>2, <4>1
    <3>2. CASE x # b
      <4>1. s.tablets[x].group # c.group
        BY <2>2, <2>4, <3>2, Zenon DEF TabletsOK, PlacementsOK
      <4> QED
        BY <1>2, <4>1
    <3> QED
      BY <3>1, <3>2, Zenon
  <2>6. PlacementsOK(s.placements, s.nodes, s.tablets, rt)
    BY <2>2, <2>3, <2>5, Zenon DEF PlacementsOK
  <2>7. RetiredOK(rt, s.tablets)
    <3>1. key[1] = c.group
      BY <1>2
    <3> QED
      BY <2>2, <2>3, <2>4, <3>1, Zenon DEF RetiredOK
  <2>8. CatalogOK(t)
    BY <2>1, <2>2, <2>6, <2>7, Zenon DEF CatalogOK
  <2> QED
    BY <1>1, <1>6, <2>1, <2>8, CatalogApplied, Zenon
<1> QED
  BY <1>1, <1>5, <1>6, NothingChanges, Zenon

LEMMA InitialPlacementActive ==
  ASSUME NEW s, NodesOK(s.nodes), NEW e, NEW q \in SelectInitialPlacement(s, e).replicas
  PROVE  q.node \in ActiveNodes(s)
<1>1. PICK A : A = ActiveNodes(s)
  BY Zenon
<1>2. A \subseteq DOMAIN s.nodes /\ IsFiniteSet(DOMAIN s.nodes) /\ DOMAIN s.nodes \subseteq Nat
  BY <1>1, Zenon DEF ActiveNodes, NodesOK
<1>3. IsFiniteSet(A) /\ A \in SUBSET Nat
  <2>1. PICK D : D = DOMAIN s.nodes
    BY Zenon
  <2>2. IsFiniteSet(D) /\ A \in SUBSET D
    BY <1>2, <2>1, Zenon
  <2>3. IsFiniteSet(A)
    BY <2>2, FS_Subset, Zenon
  <2> QED
    BY <1>2, <2>3, Zenon
<1>4. PICK k : k = Cardinality(A)
  BY Zenon
<1>5. k \in Nat /\ InitialReplicationFactor \in Nat
  BY <1>3, <1>4, FS_CardinalityType, FactorAssumption, Zenon
<1>6. PICK m : m = Min({k, InitialReplicationFactor})
  BY Zenon
<1>7. m \in Nat /\ m <= k
  <2>1. PICK M : M = {k, InitialReplicationFactor}
    BY Zenon
  <2>2. M \in SUBSET Nat /\ M # {} /\ k \in M
    BY <1>5, <2>1, Zenon
  <2>3. Min(M) \in M /\ Min(M) <= k
    BY <2>2, MinExists, Zenon
  <2> QED
    BY <1>6, <2>1, <2>2, <2>3, Zenon
<1>8. PICK v : v = SelectVoters(s, m)
  BY Zenon
<1>9. v \in [1..m -> A]
  BY <1>1, <1>3, <1>4, <1>7, <1>8, VotersAreActive, Zenon
<1>10. SelectInitialPlacement(s, e).replicas
         = {[id |-> i, node |-> v[i], role |-> "voter"] : i \in DOMAIN v}
  BY <1>1, <1>4, <1>6, <1>8 DEF SelectInitialPlacement
<1>11. PICK i \in DOMAIN v : q = [id |-> i, node |-> v[i], role |-> "voter"]
  BY <1>10, Zenon
<1>12. q.node = v[i] /\ i \in 1..m
  BY <1>9, <1>11
<1> QED
  BY <1>1, <1>9, <1>12

LEMMA CreateTableTopologyGood ==
  ASSUME NEW s, CatalogOK(s), NEW c
  PROVE  GoodResult(s, ApplyCreateTableTopology(s, c))
<1>1. PICK r : r = ApplyCreateTableTopology(s, c)
  BY Zenon
<1>2. PICK b, g, p : /\ b = s.alloc.tablet + 1 /\ g = s.alloc.group + 1
                     /\ p = SelectInitialPlacement(s, 1)
  BY Zenon
<1>3. PICK x : x = [table |-> s.alloc.table + 1, group |-> g, epoch |-> 1,
                    part |-> [kind |-> "range", start |-> 0, end |-> 0]]
  BY Zenon
<1>4. PICK al, tt, pt : /\ al = [table |-> s.alloc.table + 1, tablet |-> b, group |-> g,
                                 replica |-> MaxReplica(p.replicas, 0)]
                        /\ tt = Put(s.tablets, b, x) /\ pt = Put(s.placements, b, p)
  BY Zenon
<1>5. PICK ta : ta = Put(s.tables, s.alloc.table + 1,
                         [name |-> c.name, columns |-> c.columns, key |-> c.key, version |-> 1,
                          count |-> 1])
  BY Zenon
<1>6. PICK t : t = [s EXCEPT !.tables = ta, !.tablets = tt, !.placements = pt, !.alloc = al]
  BY Zenon
<1>7. PICK o : o = [kind |-> "created", table |-> s.alloc.table + 1, tablet |-> b, group |-> g]
  BY Zenon
<1>8. (\E why : r = Rejected(s, why)) \/ r = Answer(t, o)
  BY <1>1, <1>2, <1>3, <1>4, <1>5, <1>6, <1>7 DEF ApplyCreateTableTopology
<1>9. o.kind \in OutcomeKinds
  BY <1>7 DEF OutcomeKinds
<1>10. /\ IsCatalog(t) /\ t.tablets = tt /\ t.placements = pt /\ t.alloc = al
       /\ t.nodes = s.nodes /\ t.retired = s.retired /\ t.requests = s.requests
  <2>1. al = Marks(al.table, al.tablet, al.group, al.replica)
    BY <1>4 DEF Marks
  <2> QED
    BY <1>6, <2>1 DEF CatalogOK, IsCatalog, Catalog
<1>11. /\ NodesOK(s.nodes) /\ PlacementsOK(s.placements, s.nodes, s.tablets, s.retired)
       /\ TabletsOK(s.tablets, s.alloc) /\ RetiredOK(s.retired, s.tablets)
  BY Zenon DEF CatalogOK
<1>12. al.tablet = b /\ al.group = g /\ x.group = g
  BY <1>3, <1>4
<1>13. PICK i, j : i = s.alloc.tablet /\ j = s.alloc.group
  BY Zenon
<1>14. i \in Nat /\ j \in Nat
  BY <1>11, <1>13, Zenon DEF TabletsOK
<1>15. b \in Nat /\ g \in Nat /\ b = i + 1 /\ g = j + 1 /\ b <= b /\ g <= g
  BY <1>2, <1>13, <1>14
<1>16. ASSUME NEW y \in DOMAIN s.tablets
       PROVE  /\ y \in Nat /\ y <= b /\ y # b
              /\ s.tablets[y].group \in Nat /\ s.tablets[y].group <= g /\ s.tablets[y].group # g
  <2>1. PICK h : h = s.tablets[y].group
    BY Zenon
  <2>2. y \in Nat /\ y <= i /\ h \in Nat /\ h <= j
    BY <1>11, <1>13, <2>1, Zenon DEF TabletsOK
  <2>3. y <= b /\ y # b /\ h <= g /\ h # g
    BY <1>14, <1>15, <2>2
  <2> QED
    BY <2>1, <2>2, <2>3, Zenon
<1>17. /\ DOMAIN tt = DOMAIN s.tablets \cup {b} /\ tt[b] = x
       /\ \A y \in DOMAIN s.tablets : tt[y] = s.tablets[y]
  BY <1>4, <1>16 DEF Put
<1>18. /\ DOMAIN pt = DOMAIN s.placements \cup {b} /\ pt[b] = p
       /\ \A y \in DOMAIN s.placements : y # b => pt[y] = s.placements[y]
  BY <1>4 DEF Put
<1>19. TabletsOK(tt, al)
  <2>1. ASSUME NEW y \in DOMAIN tt
        PROVE  y \in Nat /\ y <= b /\ tt[y].group \in Nat /\ tt[y].group <= g
    BY <1>12, <1>15, <1>16, <1>17, Zenon
  <2>2. ASSUME NEW y \in DOMAIN tt, NEW z \in DOMAIN tt, tt[y].group = tt[z].group PROVE y = z
    BY <1>11, <1>12, <1>16, <1>17, <2>2, Zenon DEF TabletsOK
  <2> QED
    BY <1>12, <1>15, <2>1, <2>2, Zenon DEF TabletsOK
<1>20. RetiredOK(s.retired, tt)
  BY <1>11, <1>17, Zenon DEF RetiredOK
<1>21. ASSUME NEW q \in p.replicas
       PROVE  /\ q.node \in DOMAIN s.nodes /\ s.nodes[q.node].life \notin Gone
              /\ <<g, q.id>> \notin DOMAIN s.retired
  <2>1. q.node \in ActiveNodes(s)
    BY <1>2, <1>11, InitialPlacementActive, Zenon
  <2>2. q.node \in DOMAIN s.nodes /\ s.nodes[q.node].life = "active"
    BY <2>1, Zenon DEF ActiveNodes
  <2>3. s.nodes[q.node].life \notin Gone
    BY <2>2 DEF Gone
  <2>4. ASSUME <<g, q.id>> \in DOMAIN s.retired PROVE FALSE
    <3>1. PICK k : k = <<g, q.id>>
      BY Zenon
    <3>2. k[1] = g
      BY <3>1
    <3>3. PICK y \in DOMAIN s.tablets : s.tablets[y].group = k[1]
      BY <1>11, <2>4, <3>1, Zenon DEF RetiredOK
    <3> QED
      BY <1>16, <3>2, <3>3, Zenon
  <2> QED
    BY <2>2, <2>3, <2>4, Zenon
<1>22. PlacementsOK(pt, s.nodes, tt, s.retired)
  <2>1. ASSUME NEW y \in DOMAIN pt
        PROVE  /\ y \in DOMAIN tt
               /\ \A q \in pt[y].replicas :
                    /\ q.node \in DOMAIN s.nodes /\ s.nodes[q.node].life \notin Gone
                    /\ <<tt[y].group, q.id>> \notin DOMAIN s.retired
    <3>1. CASE y = b
      BY <1>12, <1>17, <1>18, <1>21, <3>1, Zenon
    <3>2. CASE y # b
      <4>1. /\ y \in DOMAIN s.placements /\ y \in DOMAIN s.tablets
            /\ tt[y] = s.tablets[y] /\ pt[y] = s.placements[y]
        BY <1>11, <1>17, <1>18, <3>2, Zenon DEF PlacementsOK
      <4> QED
        BY <1>11, <1>17, <4>1, Zenon DEF PlacementsOK
    <3> QED
      BY <3>1, <3>2, Zenon
  <2> QED
    BY <2>1, Zenon DEF PlacementsOK
<1>23. CatalogOK(t)
  BY <1>10, <1>11, <1>19, <1>20, <1>22, Zenon DEF CatalogOK
<1> QED
  BY <1>1, <1>8, <1>9, <1>10, <1>23, NothingChanges, CatalogChanges, Zenon

\* Every command yields a catalog and leaves the cached answers alone.
LEMMA CommandGood ==
  ASSUME NEW s, CatalogOK(s), NEW c, WellFormed(c)
  PROVE  GoodResult(s, ApplyCommand(s, c))
<1>1. PICK r : r = ApplyCommand(s, c)
  BY Zenon
<1>2. PICK k : k = c.kind
  BY Zenon
<1>3. /\ k \in CommandKinds
      /\ k = "register_node" => c.id \in Nat /\ "life" \in DOMAIN c.node
      /\ k = "tablet" => c.tablet.id \in Nat /\ c.tablet.group \in Nat
  BY <1>2, Zenon DEF WellFormed
<1>4. CASE \E why : r = Rejected(s, why)
  BY <1>1, <1>4, NothingChanges, Zenon
<1>5. CASE k = "init"
  <2>1. (\E why : r = Rejected(s, why)) \/ r = ApplyClusterInitialized(s, c)
    BY <1>1, <1>2, <1>5 DEF ApplyCommand
  <2> QED
    BY <1>1, <1>4, <2>1, ClusterInitializedGood, Zenon
<1>6. CASE k = "register_client"
  <2>1. (\E why : r = Rejected(s, why)) \/ r = ApplyRegisterClient(s, c)
    BY <1>1, <1>2, <1>6 DEF ApplyCommand
  <2> QED
    BY <1>1, <1>4, <2>1, RegisterClientGood, Zenon
<1>7. CASE k = "renew_client"
  <2>1. (\E why : r = Rejected(s, why)) \/ r = ApplyRenewClient(s, c)
    BY <1>1, <1>2, <1>7 DEF ApplyCommand
  <2> QED
    BY <1>1, <1>4, <2>1, RenewClientGood, Zenon
<1>8. CASE k = "register_node"
  <2>1. (\E why : r = Rejected(s, why)) \/ r = ApplyRegisterNode(s, c)
    BY <1>1, <1>2, <1>8 DEF ApplyCommand
  <2> QED
    BY <1>1, <1>3, <1>4, <1>8, <2>1, RegisterNodeGood, Zenon
<1>9. CASE k = "lifecycle"
  <2>1. (\E why : r = Rejected(s, why)) \/ r = ApplySetNodeLifecycle(s, c.id, c.life)
    BY <1>1, <1>2, <1>9 DEF ApplyCommand
  <2> QED
    BY <1>1, <1>4, <2>1, SetNodeLifecycleGood, Zenon
<1>10. CASE k = "create_table"
  <2>1. (\E why : r = Rejected(s, why)) \/ r = ApplyCreateTable(s, c)
    BY <1>1, <1>2, <1>10 DEF ApplyCommand
  <2> QED
    BY <1>1, <1>4, <2>1, CreateTableGood, Zenon
<1>11. CASE k = "tablet"
  <2>1. (\E why : r = Rejected(s, why)) \/ r = ApplyCreateTablet(s, c)
    BY <1>1, <1>2, <1>11 DEF ApplyCommand
  <2> QED
    BY <1>1, <1>3, <1>4, <1>11, <2>1, CreateTabletGood, Zenon
<1>12. CASE k = "topology"
  <2>1. (\E why : r = Rejected(s, why)) \/ r = ApplyCreateTableTopology(s, c)
    BY <1>1, <1>2, <1>12 DEF ApplyCommand
  <2> QED
    BY <1>1, <1>4, <2>1, CreateTableTopologyGood, Zenon
<1>13. CASE k = "placement"
  <2>1. (\E why : r = Rejected(s, why)) \/ r = ApplyDesiredPlacement(s, c)
    BY <1>1, <1>2, <1>13 DEF ApplyCommand
  <2> QED
    BY <1>1, <1>4, <2>1, DesiredPlacementGood, Zenon
<1>14. CASE k = "retire"
  <2>1. (\E why : r = Rejected(s, why)) \/ r = ApplyReplicaRetirement(s, c)
    BY <1>1, <1>2, <1>14 DEF ApplyCommand
  <2> QED
    BY <1>1, <1>4, <2>1, ReplicaRetirementGood, Zenon
<1>15. CASE k = "schema"
  <2>1. (\E why : r = Rejected(s, why)) \/ r = ApplySchemaUpdate(s, c)
    BY <1>1, <1>2, <1>15 DEF ApplyCommand
  <2> QED
    BY <1>1, <1>4, <2>1, SchemaUpdateGood, Zenon
<1> QED
  BY <1>3, <1>5, <1>6, <1>7, <1>8, <1>9, <1>10, <1>11, <1>12, <1>13, <1>14, <1>15, Zenon DEF CommandKinds

(***************************************************************************)
(* The service.                                                            *)
(***************************************************************************)
\* The answers given are the answers cached, a rejection without its kind.
ServiceInv ==
    /\ CatalogOK(live)
    /\ DOMAIN answers = DOMAIN live.requests
    /\ \A id \in DOMAIN answers : /\ answers[id].kind \in OutcomeKinds
                                  /\ live.requests[id] = ToCached(answers[id])
    /\ founded \in Nat

LEMMA EmptyCatalogOK == CatalogOK(EmptyCatalog) /\ DOMAIN EmptyCatalog.requests = {}
<1>1. PICK s, e : s = EmptyCatalog /\ e = NoEntries
  BY Zenon
<1>2. DOMAIN e = {}
  BY <1>1 DEF NoEntries
<1>3. /\ IsCatalog(s) /\ s.nodes = e /\ s.tablets = e /\ s.placements = e /\ s.retired = e
      /\ s.requests = e /\ s.alloc.tablet = 1 /\ s.alloc.group = 2
  BY <1>1 DEF EmptyCatalog, InitialAllocator, IsCatalog, Catalog, Marks
<1>4. NodesOK(e)
  BY <1>2, FS_EmptySet, Zenon DEF NodesOK
<1>5. TabletsOK(e, s.alloc)
  BY <1>2, <1>3 DEF TabletsOK
<1>6. PlacementsOK(e, e, e, e) /\ RetiredOK(e, e)
  BY <1>2, Zenon DEF PlacementsOK, RetiredOK
<1> QED
  BY <1>1, <1>2, <1>3, <1>4, <1>5, <1>6, Zenon DEF CatalogOK

LEMMA ExecuteKeeps ==
  ASSUME ServiceInv, NEW c, WellFormed(c), Execute(c), founded' \in Nat
  PROVE  ServiceInv'
<1>1. live' = ApplyCommand(live, c).state /\ answers' = answers
  BY DEF Execute, Commit
<1>2. GoodResult(live, ApplyCommand(live, c))
  BY CommandGood, Zenon DEF ServiceInv
<1>3. CatalogOK(live') /\ live'.requests = live.requests
  BY <1>1, <1>2, Zenon DEF GoodResult
<1> QED
  BY <1>1, <1>3, Zenon DEF ServiceInv

LEMMA CacheGrows ==
  ASSUME NEW s, CatalogOK(s), NEW x, NEW t, t = [s EXCEPT !.requests = x]
  PROVE  CatalogOK(t) /\ t.requests = x
<1>1. /\ IsCatalog(t) /\ t.requests = x
      /\ t.nodes = s.nodes /\ t.tablets = s.tablets /\ t.placements = s.placements
      /\ t.retired = s.retired /\ t.alloc = s.alloc
  BY DEF CatalogOK, IsCatalog, Catalog
<1> QED
  BY <1>1, OtherFields, Zenon

LEMMA SubmitKeeps ==
  ASSUME ServiceInv, NEW id \in DOMAIN Requests, Submit(id), founded' = founded
  PROVE  ServiceInv'
<1>1. PICK r : r = ApplyWithLogicalCommandId(live, id, Requests[id])
  BY Zenon
<1>2. /\ live' = r.state
      /\ answers' = IF id \in DOMAIN answers THEN answers ELSE Put(answers, id, r.outcome)
  BY <1>1 DEF Submit, Commit
<1>3. CASE id \in DOMAIN answers
  <2>1. r = Answer(live, FromCached(live.requests[id]))
    BY <1>1, <1>3, Zenon DEF ApplyWithLogicalCommandId, ServiceInv
  <2>2. r.state = live
    BY <2>1 DEF Answer
  <2> QED
    BY <1>2, <1>3, <2>2, Zenon DEF ServiceInv
<1>4. CASE id \notin DOMAIN answers
  <2>1. PICK q : q = ApplyCommand(live, Requests[id])
    BY Zenon
  <2>2. GoodResult(live, q)
    BY <2>1, CommandAssumption, CommandGood, Zenon DEF ServiceInv
  <2>3. PICK s, o, x : s = q.state /\ o = q.outcome /\ x = Put(s.requests, id, ToCached(o))
    BY Zenon
  <2>4. PICK t : t = [s EXCEPT !.requests = x]
    BY Zenon
  <2>5. r = Answer(t, o)
    BY <1>1, <1>4, <2>1, <2>3, <2>4 DEF ApplyWithLogicalCommandId, ServiceInv
  <2>6. r.state = t /\ r.outcome = o
    BY <2>5 DEF Answer
  <2>7. CatalogOK(s) /\ s.requests = live.requests /\ o.kind \in OutcomeKinds
    BY <2>2, <2>3, Zenon DEF GoodResult
  <2>8. CatalogOK(t) /\ t.requests = x
    BY <2>7, <2>4, CacheGrows, Zenon
  <2>9. PICK a : a = Put(answers, id, o)
    BY Zenon
  <2>10. /\ DOMAIN x = DOMAIN live.requests \cup {id} /\ x[id] = ToCached(o)
        /\ \A i \in DOMAIN live.requests : i # id => x[i] = live.requests[i]
    BY <2>3, <2>7 DEF Put
  <2>11. /\ DOMAIN a = DOMAIN answers \cup {id} /\ a[id] = o
         /\ \A i \in DOMAIN answers : i # id => a[i] = answers[i]
    BY <2>9 DEF Put
  <2>12. /\ DOMAIN a = DOMAIN x
         /\ \A i \in DOMAIN a : a[i].kind \in OutcomeKinds /\ x[i] = ToCached(a[i])
    BY <1>4, <2>7, <2>10, <2>11, Zenon DEF ServiceInv
  <2>13. live' = t /\ answers' = a
    BY <1>2, <1>4, <2>6, <2>9, Zenon
  <2> QED
    BY <2>8, <2>12, <2>13, Zenon DEF ServiceInv
<1> QED
  BY <1>3, <1>4, Zenon

LEMMA ServeKeeps ==
  ASSUME ServiceInv, Serve, founded' = founded
  PROVE  ServiceInv'
<1>1. founded' \in Nat
  BY Zenon DEF ServiceInv
<1>2. ASSUME NEW n, NEW life, SetLifecycle(n, life) PROVE ServiceInv'
  <2>1. PICK c : c = [kind |-> "lifecycle", id |-> n, life |-> life]
    BY Zenon
  <2>2. WellFormed(c)
    BY <2>1 DEF WellFormed, CommandKinds
  <2> QED
    BY <1>1, <1>2, <2>1, <2>2, ExecuteKeeps, Zenon DEF SetLifecycle
<1>3. ASSUME NEW b, NEW kept, NEW added, SetPlacement(b, kept, added) PROVE ServiceInv'
  <2>1. PICK c : c = [kind |-> "placement", tablet |-> b,
                      placement |-> EditedPlacement(live.placements[b], kept, added)]
    BY Zenon
  <2>2. WellFormed(c)
    BY <2>1 DEF WellFormed, CommandKinds
  <2> QED
    BY <1>1, <1>3, <2>1, <2>2, ExecuteKeeps, Zenon DEF SetPlacement
<1>4. ASSUME NEW b, NEW id, NEW version, Retire(b, id, version) PROVE ServiceInv'
  <2>1. PICK c : c = [kind |-> "retire", group |-> live.tablets[b].group, id |-> id,
                      epoch |-> live.placements[b].epoch, version |-> version]
    BY Zenon
  <2>2. WellFormed(c)
    BY <2>1 DEF WellFormed, CommandKinds
  <2> QED
    BY <1>1, <1>4, <2>1, <2>2, ExecuteKeeps, Zenon DEF Retire
<1>5. ASSUME InstallSnapshot PROVE ServiceInv'
  <2>1. live' = live /\ answers' = answers
    BY <1>5, Zenon DEF InstallSnapshot
  <2> QED
    BY <1>1, <2>1, Zenon DEF ServiceInv
<1> QED
  BY <1>2, <1>3, <1>4, <1>5, SubmitKeeps, Zenon DEF Serve

\* CatalogOK holds of the catalog and the answers given are the answers cached, in
\* every state: the inductive invariant of the metadata service.
THEOREM ServiceInvariant == Spec => []ServiceInv
<1>1. Init => ServiceInv
  <2> SUFFICES ASSUME Init PROVE ServiceInv
    OBVIOUS
  <2>1. live = EmptyCatalog /\ DOMAIN answers = {} /\ founded \in Nat
    BY DEF Init, NoEntries
  <2> QED
    BY <2>1, EmptyCatalogOK, Zenon DEF ServiceInv
<1>2. ServiceInv /\ [Next]_vars => ServiceInv'
  <2> SUFFICES ASSUME ServiceInv, [Next]_vars PROVE ServiceInv'
    OBVIOUS
  <2>1. CASE UNCHANGED vars
    <3>1. live' = live /\ answers' = answers /\ founded' = founded
      BY <2>1, Zenon DEF vars
    <3> QED
      BY <3>1, Zenon DEF ServiceInv
  <2>2. CASE Found
    <3>1. PICK k : k = founded + 1
      BY Zenon
    <3>2. k \in 1..Len(Bootstrap) /\ founded' \in Nat
      BY <2>2, <3>1, CommandAssumption DEF Found, ServiceInv
    <3> QED
      BY <2>2, <3>1, <3>2, CommandAssumption, ExecuteKeeps, Zenon DEF Found
  <2>3. CASE founded = Len(Bootstrap) /\ Serve /\ UNCHANGED founded
    BY <2>3, ServeKeeps, Zenon
  <2> QED
    BY <2>1, <2>2, <2>3, Zenon DEF Next
<1> QED
  BY <1>1, <1>2, PTL DEF Spec

\* apply_with_logical_command_id: for any commands in any order, delivering a request
\* again leaves the catalog as it is and returns the first answer, or a rejection for a
\* rejection.
THEOREM RetriesAreAnswered == Spec => []RetryReturnsOriginal
<1>1. ServiceInv => RetryReturnsOriginal
  <2> SUFFICES ASSUME ServiceInv, NEW id \in DOMAIN answers, NEW r,
                      r = ApplyWithLogicalCommandId(live, id, Requests[id])
               PROVE  /\ r.state = live
                      /\ \/ r.outcome = answers[id]
                         \/ r.outcome.kind = "rejected" /\ answers[id].kind = "rejected"
    BY Zenon DEF RetryReturnsOriginal
  <2>1. r = Answer(live, FromCached(live.requests[id]))
    BY Zenon DEF ApplyWithLogicalCommandId, ServiceInv
  <2>2. r.state = live /\ r.outcome = FromCached(live.requests[id])
    BY <2>1 DEF Answer
  <2>3. PICK o : o = answers[id]
    BY Zenon
  <2>4. o.kind \in OutcomeKinds /\ r.outcome = FromCached(ToCached(o))
    BY <2>2, <2>3, Zenon DEF ServiceInv
  <2>5. CASE o.kind = "rejected"
    BY <2>2, <2>3, <2>4, <2>5 DEF FromCached, ToCached
  <2>6. CASE o.kind # "rejected"
    BY <2>2, <2>3, <2>4, <2>6 DEF FromCached, ToCached, OutcomeKinds
  <2> QED
    BY <2>5, <2>6, Zenon
<1> QED
  BY <1>1, ServiceInvariant, PTL

\* apply_set_node_lifecycle, apply_desired_placement, apply_replica_retirement and
\* apply_create_table_topology: for any commands in any order, no placement names a
\* decommissioned node or a retired replica lifetime.
THEOREM GoneNodesOweNothing == Spec => []GoneNodeOwesNothing
<1>1. ServiceInv => GoneNodeOwesNothing
  <2> SUFFICES ASSUME ServiceInv PROVE GoneNodeOwesNothing
    OBVIOUS
  <2>1. PlacementsOK(live.placements, live.nodes, live.tablets, live.retired)
    BY Zenon DEF ServiceInv, CatalogOK
  <2>2. ASSUME NEW n \in DOMAIN live.nodes, live.nodes[n].life \in Gone
        PROVE  DesiredOn(live, n) = {}
    BY <2>1, <2>2, Zenon DEF DesiredOn, PlacementsOK
  <2>3. ASSUME NEW k \in DOMAIN live.retired PROVE k \notin DesiredIn(live)
    <3>1. ASSUME k \in DesiredIn(live) PROVE FALSE
      <4>1. PICK b \in DOMAIN live.placements :
                k \in {<<live.tablets[b].group, r.id>> : r \in live.placements[b].replicas}
        BY <3>1, Zenon DEF DesiredIn
      <4>2. PICK r \in live.placements[b].replicas : k = <<live.tablets[b].group, r.id>>
        BY <4>1, Zenon
      <4> QED
        BY <2>1, <4>2, Zenon DEF PlacementsOK
    <3> QED
      BY <3>1, Zenon
  <2> QED
    BY <2>2, <2>3, Zenon DEF GoneNodeOwesNothing, Gone
<1> QED
  BY <1>1, ServiceInvariant, PTL
=============================================================================
