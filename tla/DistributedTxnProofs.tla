------------------------ MODULE DistributedTxnProofs ------------------------
(***************************************************************************)
(* Type correctness of DistributedTxn, its inductive invariant, and what it*)
(* implies, for every set of transactions, keys and tablets, every write   *)
(* set and every assignment of timestamps to nodes: commit is atomic, the  *)
(* protocol implements AtomicCommit, a commit it reports is real, no update*)
(* is lost, and an intent left by a committed transaction can be resolved. *)
(***************************************************************************)
EXTENDS DistributedTxn, TLAPS

(***************************************************************************)
(* The invariant and the coordinator's half of the induction: every step of*)
(* a client or of a coordinator keeps it.                                  *)
(***************************************************************************)
\* What the constants are.
LEMMA Constants ==
    ASSUME NEW t \in Txns
    PROVE  /\ WriteSet[t] \subseteq Keys /\ Primary[t] \in Keys
           /\ Primary[t] \in WriteSet[t]
           /\ NodeOf[t] \in Nodes
           /\ \A n \in Nodes : NodeTimestamps[n] \subseteq Nat \ {0}
           /\ t # None
  BY TxnAssumption, Zenon

\* A key of the write set other than the primary is dispatched only after the
\* primary, by the commit and by the rollback.
LEMMA PrimaryPrecedes ==
    ASSUME NEW t \in Txns, NEW k \in WriteSet[t], k # Primary[t]
    PROVE  Primary[t] \in Preceding(t, k)
<1>1. /\ Primary[t] \in WriteSet[t] /\ Primary[t] <= k
      /\ Primary[t] \in Nat /\ k \in Nat
  BY TxnAssumption, Zenon
<1>2. Primary[t] < k
  BY <1>1
<1> QED
  BY <1>1, <1>2, Zenon DEF Preceding, PrimaryBatch

(***************************************************************************)
(* Type correctness                                                        *)
(***************************************************************************)
LEMMA InitType == Init => TypeOK
<1> SUFFICES ASSUME Init PROVE TypeOK
  OBVIOUS
<1> QED
  BY Zenon DEF Init, StoreInit, TypeOK

\* A step of the coordinator keeps the types.
LEMMA CoordinatorType ==
    ASSUME TypeOK, NEW t \in Txns, CoordinatorStep(t) PROVE TypeOK'
<1>0. /\ WriteSet[t] \subseteq Keys /\ Primary[t] \in Keys /\ NodeOf[t] \in Nodes
      /\ \A n \in Nodes : NodeTimestamps[n] \subseteq Nat \ {0}
  BY Constants, Zenon
<1>1. ASSUME Begin(t) PROVE TypeOK'
  <2> PICK ts \in Nat : /\ clock' = [clock EXCEPT ![NodeOf[t]] = ts]
                        /\ start' = [start EXCEPT ![t] = ts]
    BY <1>0, <1>1, Zenon DEF Begin, NextTimestamp
  <2>1. phase' \in [Txns -> {"idle", "active", "single", "prewrite", "commit",
                             "rollback", "done"}]
    BY <1>1, Zenon DEF Begin, TypeOK
  <2> QED
    BY <1>1, <2>1, Zenon DEF Begin, TypeOK
<1>2. ASSUME SubmitSingleShard(t) PROVE TypeOK'
  <2> PICK ts \in Nat : /\ clock' = [clock EXCEPT ![NodeOf[t]] = ts]
                        /\ cts' = [cts EXCEPT ![t] = ts]
    BY <1>0, <1>2, Zenon DEF SubmitSingleShard, NextTimestamp
  <2>1. <<"single", t, Primary[t]>> \in Commands
    BY <1>0, Zenon DEF Commands, Ops
  <2> QED
    BY <1>2, <2>1, Zenon DEF SubmitSingleShard, TypeOK
<1>3. ASSUME NEW op \in Ops, NEW k \in Keys, Dispatch(op, t, k) PROVE TypeOK'
  <2>1. <<op, t, k>> \in Commands
    BY Zenon DEF Commands
  <2> QED
    BY <1>3, <2>1, Zenon DEF Dispatch, TypeOK
<1>4. ASSUME AllocateCommitTimestamp(t) PROVE TypeOK'
  <2> PICK ts \in Nat : /\ clock' = [clock EXCEPT ![NodeOf[t]] = ts]
                        /\ cts' = [cts EXCEPT ![t] = ts]
    BY <1>0, <1>4, Zenon DEF AllocateCommitTimestamp, NextTimestamp
  <2> QED
    BY <1>4, Zenon DEF AllocateCommitTimestamp, TypeOK
<1>5. ASSUME NEW told \in {"committed", "failed", "unknown"}, Finish(t, told)
      PROVE  /\ phase' \in [Txns -> {"idle", "active", "single", "prewrite", "commit",
                             "rollback", "done"}]
             /\ result' \in [Txns -> {"none", "committed", "failed", "unknown"}]
             /\ acked' \subseteq acked
  BY <1>5, Zenon DEF Finish, Forget, TypeOK
<1>6. ASSUME StartRollback(t)
      PROVE  /\ phase' \in [Txns -> {"idle", "active", "single", "prewrite", "commit",
                             "rollback", "done"}]
             /\ result' \in [Txns -> {"none", "committed", "failed", "unknown"}]
             /\ acked' \subseteq acked
  BY <1>6, Zenon DEF StartRollback, Forget, TypeOK
<1>7. ASSUME DefiniteError(t)
      PROVE  /\ phase' \in [Txns -> {"idle", "active", "single", "prewrite", "commit",
                             "rollback", "done"}]
             /\ result' \in [Txns -> {"none", "committed", "failed", "unknown"}]
             /\ acked' \subseteq acked
  BY <1>5, <1>6, <1>7, Zenon DEF DefiniteError
<1>8. ASSUME RollbackPrepared(t) PROVE TypeOK'
  <2>1. StartRollback(t)
    BY <1>8, Zenon DEF RollbackPrepared
  <2> QED
    BY <1>6, <1>8, <2>1, Zenon DEF RollbackPrepared, TypeOK
<1>9. ASSUME Acknowledge(t) PROVE TypeOK'
  BY <1>9, Zenon DEF Acknowledge, Awaited, TypeOK
<1>10. ASSUME Complete(t) PROVE TypeOK'
  <2>1. Finish(t, "committed") \/ Finish(t, "failed")
    BY <1>10, Zenon DEF Complete
  <2> QED
    BY <1>5, <1>10, <2>1, Zenon DEF Complete, TypeOK
<1>11. ASSUME Rejected(t) PROVE TypeOK'
  <2>1. DefiniteError(t)
    BY <1>11, Zenon DEF Rejected
  <2> QED
    BY <1>7, <1>11, <2>1, Zenon DEF Rejected, TypeOK
<1>12. ASSUME NotAdmitted(t) PROVE TypeOK'
  <2>1. DefiniteError(t)
    BY <1>12, Zenon DEF NotAdmitted
  <2> PICK c \in Awaited(t) \ (applied \cup rejected) : rejected' = rejected \cup {c}
    BY <1>12, Zenon DEF NotAdmitted
  <2>2. c \in sent /\ c \notin applied
    BY Zenon DEF Awaited
  <2> QED
    BY <1>7, <1>12, <2>1, <2>2 DEF NotAdmitted, TypeOK
<1>13. ASSUME LostAfterAdmission(t) PROVE TypeOK'
  <2>1. DefiniteError(t)
    BY <1>13, Zenon DEF LostAfterAdmission
  <2> QED
    BY <1>7, <1>13, <2>1, Zenon DEF LostAfterAdmission, TypeOK
<1>14. ASSUME OutcomeUnknown(t) PROVE TypeOK'
  <2>1. Finish(t, "committed") \/ Finish(t, "unknown")
    BY <1>14, Zenon DEF OutcomeUnknown
  <2> QED
    BY <1>5, <1>14, <2>1, Zenon DEF OutcomeUnknown, TypeOK
<1>15. ASSUME Crash(t) PROVE TypeOK'
  <2>1. Finish(t, "unknown")
    BY <1>15, Zenon DEF Crash
  <2> QED
    BY <1>5, <1>15, <2>1, Zenon DEF Crash, TypeOK
<1>16. ASSUME NEW k \in Keys,
              DispatchPrewrite(t, k) \/ DispatchCommit(t, k) \/ DispatchRollback(t, k)
                \/ DispatchStatusAbort(t)
       PROVE  TypeOK'
  <2>1. \/ Dispatch("prewrite", t, k) \/ Dispatch("commit", t, k)
        \/ Dispatch("rollback", t, k) \/ Dispatch("abort", t, Primary[t])
    BY <1>16, Zenon DEF DispatchPrewrite, DispatchCommit, DispatchRollback, DispatchStatusAbort
  <2>2. {"prewrite", "commit", "rollback", "abort"} \subseteq Ops
    BY Zenon DEF Ops
  <2> QED
    BY <1>0, <1>3, <2>1, <2>2, Zenon
<1> QED
  BY <1>0, <1>1, <1>2, <1>4, <1>8, <1>9, <1>10, <1>11, <1>12, <1>13, <1>14, <1>15, <1>16, Zenon
  DEF CoordinatorStep

\* A change of the store keeps its types.
LEMMA StoreType ==
    ASSUME TypeOK, NEW t \in Txns, NEW k \in Keys, NEW ts \in Nat,
           \/ InstallIntent(t, k) \/ CommitIntent(t, k, ts) \/ RollbackIntent(t, k)
           \/ CommitBatch(t, WriteSet[t], ts)
           \/ UNCHANGED <<lock, data, commit_ts, rolled_back>>
    PROVE  /\ lock' \in [Keys -> Txns \cup {None}]
           /\ data' \in [Keys -> SUBSET Txns]
           /\ commit_ts' \in [Keys -> [Txns -> Nat]]
           /\ rolled_back' \in [Keys -> SUBSET Txns]
<1>1. CASE InstallIntent(t, k)
  BY <1>1, Zenon DEF InstallIntent, TypeOK
<1>2. CASE CommitIntent(t, k, ts)
  BY <1>2, Zenon DEF CommitIntent, ReleaseLock, TypeOK
<1>3. CASE RollbackIntent(t, k)
  BY <1>3, Zenon DEF RollbackIntent, ReleaseLock, TypeOK
<1>4. CASE CommitBatch(t, WriteSet[t], ts)
  <2>1. \A j \in Keys : /\ commit_ts[j] \in [Txns -> Nat]
                        /\ [commit_ts[j] EXCEPT ![t] = ts] \in [Txns -> Nat]
    BY Zenon DEF TypeOK
  <2>2. commit_ts' \in [Keys -> [Txns -> Nat]]
    BY <1>4, <2>1, Zenon DEF CommitBatch
  <2> QED
    BY <1>4, <2>2 DEF CommitBatch, TypeOK
<1>5. CASE UNCHANGED <<lock, data, commit_ts, rolled_back>>
  BY <1>5, Zenon DEF TypeOK
<1> QED
  BY <1>1, <1>2, <1>3, <1>4, <1>5, Zenon

\* The outcome of a pending command is recorded once.
LEMMA OutcomeType ==
    ASSUME TypeOK, NEW op, NEW t, NEW k, Pending(op, t, k), UNCHANGED <<sent, acked>>,
           Apply(op, t, k) \/ Reject(op, t, k)
    PROVE  /\ sent' \in SUBSET Commands
           /\ acked' \subseteq applied' /\ applied' \cup rejected' \subseteq sent'
           /\ applied' \cap rejected' = {}
  BY Zenon DEF Pending, Apply, Reject, TypeOK

\* A step of a tablet state machine keeps the types.
LEMMA TabletType ==
    ASSUME TypeOK, NEW t \in Txns, TabletStep(t) PROVE TypeOK'
<1>0. Primary[t] \in Keys /\ cts[t] \in Nat
  BY Constants, Zenon DEF TypeOK
<1>s. ASSUME NEW s \in {"pending", "committed", "aborted"}, SetStatus(t, s)
      PROVE  status' \in [Txns -> {"none", "pending", "committed", "aborted"}]
  BY <1>s, Zenon DEF SetStatus, TypeOK
<1>1. ASSUME ApplySingleShardCommit(t) PROVE TypeOK'
  <2>1. /\ Pending("single", t, Primary[t])
        /\ UNCHANGED <<start, clock, cts, phase, result, sent, acked, status>>
        /\ Apply("single", t, Primary[t]) \/ Reject("single", t, Primary[t])
        /\ \/ CommitBatch(t, WriteSet[t], cts[t])
           \/ UNCHANGED <<lock, data, commit_ts, rolled_back>>
    BY <1>1, Zenon DEF ApplySingleShardCommit, Reject
  <2>2. /\ lock' \in [Keys -> Txns \cup {None}]
        /\ data' \in [Keys -> SUBSET Txns]
        /\ commit_ts' \in [Keys -> [Txns -> Nat]]
        /\ rolled_back' \in [Keys -> SUBSET Txns]
    BY <1>0, <2>1, StoreType, Zenon
  <2>3. /\ sent' \in SUBSET Commands
        /\ acked' \subseteq applied' /\ applied' \cup rejected' \subseteq sent'
        /\ applied' \cap rejected' = {}
    BY <2>1, OutcomeType, Zenon
  <2> QED
    BY <2>1, <2>2, <2>3, Zenon DEF TypeOK
<1>2. ASSUME NEW k \in Keys, ApplyPrewrite(t, k) PROVE TypeOK'
  <2>1. /\ Pending("prewrite", t, k)
        /\ UNCHANGED <<start, clock, cts, phase, result, sent, acked>>
        /\ Apply("prewrite", t, k) \/ Reject("prewrite", t, k)
        /\ InstallIntent(t, k) \/ UNCHANGED <<lock, data, commit_ts, rolled_back>>
        /\ SetStatus(t, "pending") \/ UNCHANGED status
    BY <1>2, Zenon DEF ApplyPrewrite, Reject
  <2>2. /\ lock' \in [Keys -> Txns \cup {None}]
        /\ data' \in [Keys -> SUBSET Txns]
        /\ commit_ts' \in [Keys -> [Txns -> Nat]]
        /\ rolled_back' \in [Keys -> SUBSET Txns]
    BY <1>0, <2>1, StoreType, Zenon
  <2>3. /\ sent' \in SUBSET Commands
        /\ acked' \subseteq applied' /\ applied' \cup rejected' \subseteq sent'
        /\ applied' \cap rejected' = {}
    BY <2>1, OutcomeType, Zenon
  <2>4. status' \in [Txns -> {"none", "pending", "committed", "aborted"}]
    BY <1>s, <2>1, Zenon DEF TypeOK
  <2> QED
    BY <2>1, <2>2, <2>3, <2>4, Zenon DEF TypeOK
<1>3. ASSUME NEW k \in Keys, ApplyCommit(t, k) PROVE TypeOK'
  <2>1. /\ Pending("commit", t, k)
        /\ UNCHANGED <<start, clock, cts, phase, result, sent, acked>>
        /\ Apply("commit", t, k) \/ Reject("commit", t, k)
        /\ CommitIntent(t, k, cts[t]) \/ UNCHANGED <<lock, data, commit_ts, rolled_back>>
        /\ SetStatus(t, "committed") \/ UNCHANGED status
    BY <1>3, Zenon DEF ApplyCommit, Reject
  <2>2. /\ lock' \in [Keys -> Txns \cup {None}]
        /\ data' \in [Keys -> SUBSET Txns]
        /\ commit_ts' \in [Keys -> [Txns -> Nat]]
        /\ rolled_back' \in [Keys -> SUBSET Txns]
    BY <1>0, <2>1, StoreType, Zenon
  <2>3. /\ sent' \in SUBSET Commands
        /\ acked' \subseteq applied' /\ applied' \cup rejected' \subseteq sent'
        /\ applied' \cap rejected' = {}
    BY <2>1, OutcomeType, Zenon
  <2>4. status' \in [Txns -> {"none", "pending", "committed", "aborted"}]
    BY <1>s, <2>1, Zenon DEF TypeOK
  <2> QED
    BY <2>1, <2>2, <2>3, <2>4, Zenon DEF TypeOK
<1>4. ASSUME NEW k \in Keys, ApplyRollback(t, k) PROVE TypeOK'
  <2>1. /\ Pending("rollback", t, k)
        /\ UNCHANGED <<start, clock, cts, phase, result, sent, acked, status>>
        /\ Apply("rollback", t, k) \/ Reject("rollback", t, k)
        /\ RollbackIntent(t, k) \/ UNCHANGED <<lock, data, commit_ts, rolled_back>>
    BY <1>4, Zenon DEF ApplyRollback, Reject
  <2>2. /\ lock' \in [Keys -> Txns \cup {None}]
        /\ data' \in [Keys -> SUBSET Txns]
        /\ commit_ts' \in [Keys -> [Txns -> Nat]]
        /\ rolled_back' \in [Keys -> SUBSET Txns]
    BY <1>0, <2>1, StoreType, Zenon
  <2>3. /\ sent' \in SUBSET Commands
        /\ acked' \subseteq applied' /\ applied' \cup rejected' \subseteq sent'
        /\ applied' \cap rejected' = {}
    BY <2>1, OutcomeType, Zenon
  <2> QED
    BY <2>1, <2>2, <2>3, Zenon DEF TypeOK
<1>5. ASSUME ApplyStatusAbort(t) PROVE TypeOK'
  <2>1. /\ Pending("abort", t, Primary[t])
        /\ UNCHANGED <<start, clock, cts, phase, result, sent, acked>>
        /\ Apply("abort", t, Primary[t]) \/ Reject("abort", t, Primary[t])
        /\ UNCHANGED <<lock, data, commit_ts, rolled_back>>
        /\ SetStatus(t, "aborted") \/ UNCHANGED status
    BY <1>5, Zenon DEF ApplyStatusAbort, Reject
  <2>2. /\ sent' \in SUBSET Commands
        /\ acked' \subseteq applied' /\ applied' \cup rejected' \subseteq sent'
        /\ applied' \cap rejected' = {}
    BY <2>1, OutcomeType, Zenon
  <2>3. status' \in [Txns -> {"none", "pending", "committed", "aborted"}]
    BY <1>s, <2>1, Zenon DEF TypeOK
  <2> QED
    BY <2>1, <2>2, <2>3, Zenon DEF TypeOK
<1> QED
  BY <1>1, <1>2, <1>3, <1>4, <1>5, Zenon DEF TabletStep

\* A step of recovery keeps the types.
LEMMA RecoveryType ==
    ASSUME TypeOK, NEW t \in Txns, RecoveryStep(t) PROVE TypeOK'
<1>1. ASSUME ExpirePending(t) PROVE TypeOK'
  <2>1. status' \in [Txns -> {"none", "pending", "committed", "aborted"}]
    BY <1>1, Zenon DEF ExpirePending, SetStatus, TypeOK
  <2> QED
    BY <1>1, <2>1, Zenon DEF ExpirePending, TypeOK
<1>2. ASSUME NEW k \in Keys, ApplyResolveIntent(t, k) PROVE TypeOK'
  <2>1. /\ <<"resolve", t, k>> \notin applied \cup rejected
        /\ sent' = sent \cup {<<"resolve", t, k>>}
        /\ UNCHANGED <<start, clock, cts, phase, result, acked, status>>
        /\ Apply("resolve", t, k) \/ Reject("resolve", t, k)
        /\ \/ CommitIntent(t, k, cts[t]) \/ RollbackIntent(t, k)
           \/ UNCHANGED <<lock, data, commit_ts, rolled_back>>
    BY <1>2, Zenon DEF ApplyResolveIntent, Reject
  <2>2. /\ lock' \in [Keys -> Txns \cup {None}]
        /\ data' \in [Keys -> SUBSET Txns]
        /\ commit_ts' \in [Keys -> [Txns -> Nat]]
        /\ rolled_back' \in [Keys -> SUBSET Txns]
    <3>1. cts[t] \in Nat
      BY Zenon DEF TypeOK
    <3> QED
      BY <2>1, <3>1, StoreType, Zenon
  <2>3. <<"resolve", t, k>> \in Commands
    BY Zenon DEF Commands, Ops
  <2>4. /\ sent' \in SUBSET Commands
        /\ acked' \subseteq applied' /\ applied' \cup rejected' \subseteq sent'
        /\ applied' \cap rejected' = {}
    BY <2>1, <2>3, Zenon DEF Apply, Reject, TypeOK
  <2> QED
    BY <2>1, <2>2, <2>4, Zenon DEF TypeOK
<1> QED
  BY <1>1, <1>2, Zenon DEF RecoveryStep

LEMMA TypeStep == TypeOK /\ [Next]_vars => TypeOK'
<1> SUFFICES ASSUME TypeOK, [Next]_vars PROVE TypeOK'
  OBVIOUS
<1>1. CASE Next
  BY <1>1, CoordinatorType, TabletType, RecoveryType, Zenon DEF Next
<1>2. CASE UNCHANGED vars
  BY <1>2, Zenon DEF vars, TypeOK
<1> QED
  BY <1>1, <1>2, Zenon

\* Every field of the coordinators, the tablets and the status records keeps its
\* type, and a command has at most one outcome.
THEOREM TypeCorrect == Spec => []TypeOK
  BY InitType, TypeStep, PTL DEF Spec

-----------------------------------------------------------------------------
(***************************************************************************)
(* The inductive invariant.  PhaseInv: what the coordinator's phase says   *)
(* about its transaction.  SentInv: what is known when a command has been  *)
(* sent.  IntentInv: what became of an intent that was installed, and      *)
(* where a write record may be.  DecisionInv: what the status record and   *)
(* the Rollback records say about each other.                              *)
(***************************************************************************)
PhaseInv(t) ==
    /\ phase[t] \in {"prewrite", "commit", "rollback"} => Distributed(t)
    /\ phase[t] \in {"active", "single"} => ~Distributed(t)
    /\ phase[t] \in {"idle", "active", "prewrite"} => cts[t] = 0
    /\ phase[t] = "commit" => cts[t] # 0
    /\ Distributed(t) /\ cts[t] # 0
         => \A k \in WriteSet[t] : <<"prewrite", t, k>> \in applied

SentInv(t) ==
    /\ <<"single", t, Primary[t]>> \in sent => ~Distributed(t) /\ cts[t] # 0
    /\ \A k \in Keys :
         /\ <<"prewrite", t, k>> \in sent => k \in WriteSet[t] /\ Distributed(t)
         /\ <<"commit", t, k>> \in sent =>
              /\ k \in WriteSet[t] /\ Distributed(t) /\ cts[t] # 0
              /\ k # Primary[t] => <<"commit", t, Primary[t]>> \in applied
         /\ <<"rollback", t, k>> \in sent =>
              /\ k \in WriteSet[t] /\ Distributed(t)
              /\ k # Primary[t] => <<"rollback", t, Primary[t]>> \in applied
         /\ <<"abort", t, k>> \in sent => Distributed(t)

IntentInv(t) ==
    \A k \in Keys :
       /\ <<"prewrite", t, k>> \in applied =>
            lock[k] = t \/ commit_ts[k][t] # 0 \/ t \in rolled_back[k]
       /\ lock[k] = t => <<"prewrite", t, k>> \in applied
       /\ commit_ts[k][t] # 0 =>
            k \in WriteSet[t] /\ commit_ts[k][t] = cts[t] /\ Committed(t)

DecisionInv(t) ==
    /\ \A k \in Keys : t \in rolled_back[k] =>
         Distributed(t) /\ (t \in rolled_back[Primary[t]] \/ status[t] = "aborted")
    /\ t \in rolled_back[Primary[t]] => status[t] # "committed"
    /\ <<"rollback", t, Primary[t]>> \in applied => t \in rolled_back[Primary[t]]
    /\ <<"commit", t, Primary[t]>> \in applied => status[t] = "committed"
    /\ status[t] = "committed" => cts[t] # 0 /\ commit_ts[Primary[t]][t] # 0
    /\ status[t] # "none" => Distributed(t)
    /\ <<"single", t, Primary[t]>> \in applied =>
         \A k \in WriteSet[t] : commit_ts[k][t] = cts[t]

IInv == TypeOK /\ \A t \in Txns : PhaseInv(t) /\ SentInv(t) /\ IntentInv(t)
                                  /\ DecisionInv(t)

(***************************************************************************)
(* The inductive invariant is preserved                                    *)
(***************************************************************************)
LEMMA InitInv == Init => IInv
<1> SUFFICES ASSUME Init PROVE IInv
  OBVIOUS
<1>1. TypeOK
  BY InitType, Zenon
<1>2. ASSUME NEW t \in Txns
      PROVE  PhaseInv(t) /\ SentInv(t) /\ IntentInv(t) /\ DecisionInv(t)
  <2>1. /\ phase[t] = "idle" /\ cts[t] = 0 /\ status[t] = "none"
        /\ sent = {} /\ applied = {}
        /\ \A k \in Keys : /\ lock[k] = None /\ rolled_back[k] = {}
                           /\ commit_ts[k][t] = 0
    BY Zenon DEF Init, StoreInit
  <2>2. t # None /\ Primary[t] \in Keys
    BY Constants, Zenon
  <2> QED
    BY <2>1, <2>2 DEF PhaseInv, SentInv, IntentInv, DecisionInv
<1> QED
  BY <1>1, <1>2, Zenon DEF IInv

\* Steps that only move the coordinator, or record a rejection.
LEMMA ControlStep ==
    ASSUME IInv, TypeOK', NEW t \in Txns,
           UNCHANGED <<lock, commit_ts, rolled_back, cts, applied, status>>,
           \A u \in Txns : u # t => phase'[u] = phase[u],
           \/ phase'[t] \in {phase[t], "done"}
           \/ phase'[t] = "rollback" /\ Distributed(t),
           \A u \in Txns, k \in Keys,
              op \in {"single", "prewrite", "commit", "rollback", "abort"} :
              <<op, u, k>> \in sent' => <<op, u, k>> \in sent
    PROVE  IInv'
<1> SUFFICES ASSUME NEW u \in Txns
             PROVE  (PhaseInv(u) /\ SentInv(u) /\ IntentInv(u) /\ DecisionInv(u))'
  BY Zenon DEF IInv
<1>0. Primary[u] \in Keys
  BY Constants, Zenon
<1>1. PhaseInv(u)'
  BY Zenon DEF IInv, PhaseInv
<1>2. SentInv(u)'
  <2>1. SentInv(u) /\ UNCHANGED <<cts, applied>>
    BY Zenon DEF IInv
  <2>2. <<"single", u, Primary[u]>> \in sent' => <<"single", u, Primary[u]>> \in sent
    BY <1>0, Zenon
  <2>3. ASSUME NEW k \in Keys
        PROVE  /\ <<"prewrite", u, k>> \in sent' => <<"prewrite", u, k>> \in sent
               /\ <<"commit", u, k>> \in sent' => <<"commit", u, k>> \in sent
               /\ <<"rollback", u, k>> \in sent' => <<"rollback", u, k>> \in sent
               /\ <<"abort", u, k>> \in sent' => <<"abort", u, k>> \in sent
    BY Zenon
  <2> QED
    BY <2>1, <2>2, <2>3, Zenon DEF SentInv
<1>3. IntentInv(u)' /\ DecisionInv(u)'
  BY Zenon DEF IInv, IntentInv, DecisionInv, Committed
<1> QED
  BY <1>1, <1>2, <1>3, Zenon

LEMMA BeginInv == ASSUME IInv, TypeOK', NEW t \in Txns, Begin(t) PROVE IInv'
<1> SUFFICES ASSUME NEW u \in Txns
             PROVE  (PhaseInv(u) /\ SentInv(u) /\ IntentInv(u) /\ DecisionInv(u))'
  BY Zenon DEF IInv
<1>1. /\ phase[t] = "idle"
      /\ phase' = [phase EXCEPT ![t] = IF Distributed(t) THEN "prewrite" ELSE "active"]
      /\ UNCHANGED <<lock, commit_ts, rolled_back, cts, sent, applied, status>>
  BY Zenon DEF Begin
<1>2. /\ Distributed(t) => phase'[t] = "prewrite"
      /\ ~Distributed(t) => phase'[t] = "active"
      /\ u # t => phase'[u] = phase[u]
  BY <1>1 DEF IInv, TypeOK
<1>3. PhaseInv(u)'
  BY <1>1, <1>2, Zenon DEF IInv, PhaseInv
<1>4. SentInv(u)'
  BY <1>1, Zenon DEF IInv, SentInv
<1>5. IntentInv(u)' /\ DecisionInv(u)'
  BY <1>1, Zenon DEF IInv, IntentInv, DecisionInv, Committed
<1> QED
  BY <1>3, <1>4, <1>5, Zenon

LEMMA SubmitSingleShardInv ==
    ASSUME IInv, TypeOK', NEW t \in Txns, SubmitSingleShard(t) PROVE IInv'
<1> SUFFICES ASSUME NEW u \in Txns
             PROVE  (PhaseInv(u) /\ SentInv(u) /\ IntentInv(u) /\ DecisionInv(u))'
  BY Zenon DEF IInv
<1>0. Primary[t] \in Keys /\ Primary[u] \in Keys /\ WriteSet[u] \subseteq Keys
  BY Constants, Zenon
<1>1. PICK ts \in Nat \ {0} : cts' = [cts EXCEPT ![t] = ts]
  BY Constants, Zenon DEF SubmitSingleShard
<1>2. /\ phase[t] = "active" /\ phase' = [phase EXCEPT ![t] = "single"]
      /\ sent' = sent \cup {<<"single", t, Primary[t]>>}
      /\ UNCHANGED <<lock, commit_ts, rolled_back, applied, status>>
  BY Zenon DEF SubmitSingleShard
<1>3. /\ cts'[t] = ts /\ phase'[t] = "single"
      /\ u # t => cts'[u] = cts[u] /\ phase'[u] = phase[u]
  BY <1>1, <1>2 DEF IInv, TypeOK
<1>4. cts[t] = 0 /\ ~Distributed(t)
  BY <1>2, Zenon DEF IInv, PhaseInv
<1>5. \A op, k : <<op, u, k>> \in sent' =>
         <<op, u, k>> \in sent \/ (op = "single" /\ u = t)
  BY <1>2, Zenon
<1>6. /\ <<"single", t, Primary[t]>> \notin applied
      /\ status[t] = "none"
      /\ \A k \in Keys : commit_ts[k][t] = 0
  <2>1. <<"single", t, Primary[t]>> \notin applied
    BY <1>4, Zenon DEF IInv, SentInv, TypeOK
  <2>2. status[t] = "none"
    BY <1>4, Zenon DEF IInv, DecisionInv
  <2> QED
    BY <1>4, <2>1, <2>2, Zenon DEF IInv, IntentInv
<1>7. PhaseInv(u)'
  BY <1>1, <1>2, <1>3, <1>4, Zenon DEF IInv, PhaseInv
<1>8. SentInv(u)'
  <2>1. CASE u = t
    BY <1>1, <1>2, <1>3, <1>4, <1>5, <2>1, Zenon DEF IInv, SentInv
  <2>2. CASE u # t
    BY <1>2, <1>3, <1>5, <2>2, Zenon DEF IInv, SentInv
  <2> QED
    BY <2>1, <2>2, Zenon
<1>9. IntentInv(u)'
  BY <1>2, <1>3, <1>6, Zenon DEF IInv, IntentInv, Committed
<1>10. DecisionInv(u)'
  BY <1>2, <1>3, <1>6, Zenon DEF IInv, DecisionInv
<1> QED
  BY <1>7, <1>8, <1>9, <1>10, Zenon

LEMMA AllocateCommitTimestampInv ==
    ASSUME IInv, TypeOK', NEW t \in Txns, AllocateCommitTimestamp(t) PROVE IInv'
<1> SUFFICES ASSUME NEW u \in Txns
             PROVE  (PhaseInv(u) /\ SentInv(u) /\ IntentInv(u) /\ DecisionInv(u))'
  BY Zenon DEF IInv
<1>0. Primary[t] \in Keys /\ Primary[u] \in Keys /\ WriteSet[u] \subseteq Keys
  BY Constants, Zenon
<1>1. PICK ts \in Nat \ {0} : cts' = [cts EXCEPT ![t] = ts]
  BY Constants, Zenon DEF AllocateCommitTimestamp
<1>2. /\ phase[t] = "prewrite" /\ phase' = [phase EXCEPT ![t] = "commit"]
      /\ \A k \in WriteSet[t] : <<"prewrite", t, k>> \in acked
      /\ UNCHANGED <<lock, commit_ts, rolled_back, sent, applied, status>>
  BY Zenon DEF AllocateCommitTimestamp, Prepared, Acked
<1>3. /\ cts'[t] = ts /\ phase'[t] = "commit"
      /\ u # t => cts'[u] = cts[u] /\ phase'[u] = phase[u]
  BY <1>1, <1>2 DEF IInv, TypeOK
<1>4. cts[t] = 0 /\ Distributed(t)
  BY <1>2, Zenon DEF IInv, PhaseInv
<1>5. \A k \in WriteSet[t] : <<"prewrite", t, k>> \in applied
  BY <1>2, Zenon DEF IInv, TypeOK
<1>6. /\ <<"single", t, Primary[t]>> \notin applied
      /\ status[t] # "committed"
      /\ \A k \in Keys : commit_ts[k][t] = 0
  <2>1. <<"single", t, Primary[t]>> \notin applied
    BY <1>4, Zenon DEF IInv, SentInv, TypeOK
  <2>2. status[t] # "committed"
    BY <1>4, Zenon DEF IInv, DecisionInv
  <2> QED
    BY <1>4, <2>1, <2>2, Zenon DEF IInv, IntentInv, Committed
<1>7. PhaseInv(u)'
  BY <1>1, <1>2, <1>3, <1>4, <1>5, Zenon DEF IInv, PhaseInv
<1>8. SentInv(u)'
  BY <1>1, <1>2, <1>3, Zenon DEF IInv, SentInv
<1>9. IntentInv(u)'
  BY <1>2, <1>3, <1>6, Zenon DEF IInv, IntentInv, Committed
<1>10. DecisionInv(u)'
  BY <1>1, <1>2, <1>3, <1>6, Zenon DEF IInv, DecisionInv
<1> QED
  BY <1>7, <1>8, <1>9, <1>10, Zenon

\* A command of a phase is dispatched when what it relies on has been applied.
LEMMA DispatchInv ==
    ASSUME IInv, TypeOK', NEW t \in Txns, NEW k \in Keys,
           \/ DispatchPrewrite(t, k) \/ DispatchCommit(t, k)
           \/ DispatchRollback(t, k) \/ DispatchStatusAbort(t)
    PROVE  IInv'
<1> SUFFICES ASSUME NEW u \in Txns
             PROVE  (PhaseInv(u) /\ SentInv(u) /\ IntentInv(u) /\ DecisionInv(u))'
  BY Zenon DEF IInv
<1>0. Primary[t] \in Keys /\ Primary[u] \in Keys /\ WriteSet[u] \subseteq Keys
  BY Constants, Zenon
<1>1. UNCHANGED <<lock, commit_ts, rolled_back, cts, phase, applied, status>>
  BY Zenon DEF DispatchPrewrite, DispatchCommit, DispatchRollback, DispatchStatusAbort, Dispatch
<1>2. PhaseInv(t) /\ PhaseInv(u) /\ SentInv(u) /\ IntentInv(u) /\ DecisionInv(u)
  BY Zenon DEF IInv
<1>3. PhaseInv(u)'
  BY <1>1, <1>2, Zenon DEF PhaseInv
<1>4. IntentInv(u)'
  BY <1>1, <1>2, Zenon DEF IntentInv, Committed
<1>5. DecisionInv(u)'
  BY <1>1, <1>2, Zenon DEF DecisionInv
<1>6. SentInv(u)'
  <2>1. CASE DispatchPrewrite(t, k)
    <3>1. /\ k \in WriteSet[t] /\ phase[t] = "prewrite"
          /\ \A op, v, j : <<op, v, j>> \in sent' =>
                <<op, v, j>> \in sent \/ (op = "prewrite" /\ v = t /\ j = k)
      BY <2>1, Zenon DEF DispatchPrewrite, Dispatch
    <3>2. Distributed(t)
      BY <1>2, <3>1, Zenon DEF PhaseInv
    <3> QED
      BY <1>0, <1>1, <1>2, <3>1, <3>2 DEF SentInv
  <2>2. CASE DispatchCommit(t, k)
    <3>1. /\ k \in WriteSet[t] /\ phase[t] = "commit"
          /\ Acked("commit", t, Preceding(t, k))
          /\ \A op, v, j : <<op, v, j>> \in sent' =>
                <<op, v, j>> \in sent \/ (op = "commit" /\ v = t /\ j = k)
      BY <2>2, Zenon DEF DispatchCommit, Dispatch
    <3>2. Distributed(t) /\ cts[t] # 0
      BY <1>2, <3>1, Zenon DEF PhaseInv
    <3>3. k # Primary[t] => <<"commit", t, Primary[t]>> \in applied
      BY <3>1, PrimaryPrecedes, Zenon DEF Acked, IInv, TypeOK
    <3> QED
      BY <1>0, <1>1, <1>2, <3>1, <3>2, <3>3 DEF SentInv
  <2>3. CASE DispatchRollback(t, k)
    <3>1. /\ k \in WriteSet[t] /\ phase[t] = "rollback"
          /\ Acked("rollback", t, Preceding(t, k))
          /\ \A op, v, j : <<op, v, j>> \in sent' =>
                <<op, v, j>> \in sent \/ (op = "rollback" /\ v = t /\ j = k)
      BY <2>3, Zenon DEF DispatchRollback, Dispatch
    <3>2. Distributed(t)
      BY <1>2, <3>1, Zenon DEF PhaseInv
    <3>3. k # Primary[t] => <<"rollback", t, Primary[t]>> \in applied
      BY <3>1, PrimaryPrecedes, Zenon DEF Acked, IInv, TypeOK
    <3> QED
      BY <1>0, <1>1, <1>2, <3>1, <3>2, <3>3 DEF SentInv
  <2>4. CASE DispatchStatusAbort(t)
    <3>1. /\ phase[t] = "rollback"
          /\ \A op, v, j : <<op, v, j>> \in sent' =>
                <<op, v, j>> \in sent \/ (op = "abort" /\ v = t)
      BY <2>4, Zenon DEF DispatchStatusAbort, Dispatch
    <3>2. Distributed(t)
      BY <1>2, <3>1, Zenon DEF PhaseInv
    <3> QED
      BY <1>0, <1>1, <1>2, <3>1, <3>2, Zenon DEF SentInv
  <2> QED
    BY <2>1, <2>2, <2>3, <2>4, Zenon
<1> QED
  BY <1>3, <1>4, <1>5, <1>6, Zenon

LEMMA CoordinatorInv ==
    ASSUME IInv, NEW t \in Txns, CoordinatorStep(t) PROVE IInv'
<1>0. TypeOK'
  BY CoordinatorType, Zenon DEF IInv
<1>1. ASSUME \/ Acknowledge(t) \/ Complete(t) \/ RollbackPrepared(t) \/ Rejected(t)
             \/ NotAdmitted(t) \/ LostAfterAdmission(t) \/ OutcomeUnknown(t) \/ Crash(t)
      PROVE  IInv'
  <2>1. /\ UNCHANGED <<lock, commit_ts, rolled_back, cts, applied, status>>
        /\ UNCHANGED sent
    BY <1>1, Zenon DEF Acknowledge, Complete, RollbackPrepared, Rejected, NotAdmitted,
                       LostAfterAdmission, OutcomeUnknown, Crash
  <2>2. \/ phase' = phase
        \/ phase' = [phase EXCEPT ![t] = "done"]
        \/ /\ phase[t] \in {"prewrite", "commit"}
           /\ phase' = [phase EXCEPT ![t] = "rollback"]
    <3>1. CASE Acknowledge(t) \/ Complete(t) \/ OutcomeUnknown(t) \/ Crash(t)
      BY <3>1, Zenon DEF Acknowledge, Complete, OutcomeUnknown, Crash, Finish
    <3>2. CASE RollbackPrepared(t)
      BY <3>2, Zenon DEF RollbackPrepared, Prepared, StartRollback
    <3>3. CASE Rejected(t) \/ NotAdmitted(t) \/ LostAfterAdmission(t)
      BY <3>3, Zenon DEF Rejected, NotAdmitted, LostAfterAdmission, DefiniteError, Finish,
                  StartRollback
    <3> QED
      BY <1>1, <3>1, <3>2, <3>3, Zenon
  <2>3. phase[t] \in {"prewrite", "commit"} => Distributed(t)
    BY Zenon DEF IInv, PhaseInv
  <2>4. DOMAIN phase = Txns
    BY Zenon DEF IInv, TypeOK
  <2>5. /\ \A u \in Txns : u # t => phase'[u] = phase[u]
        /\ \/ phase'[t] \in {phase[t], "done"}
           \/ phase'[t] = "rollback" /\ Distributed(t)
    BY <2>2, <2>3, <2>4, Zenon
  <2> QED
    BY <1>0, <2>1, <2>5, ControlStep, Zenon
<1>2. Primary[t] \in Keys
  BY Constants, Zenon
<1>3. ASSUME NEW k \in Keys,
             \/ DispatchPrewrite(t, k) \/ DispatchCommit(t, k) \/ DispatchRollback(t, k)
      PROVE  IInv'
  BY <1>0, <1>3, DispatchInv, Zenon
<1>4. ASSUME DispatchStatusAbort(t) PROVE IInv'
  BY <1>0, <1>2, <1>4, DispatchInv, Zenon
<1>5. ASSUME Begin(t) \/ SubmitSingleShard(t) \/ AllocateCommitTimestamp(t) PROVE IInv'
  BY <1>0, <1>5, BeginInv, SubmitSingleShardInv, AllocateCommitTimestampInv, Zenon
<1> QED
  BY <1>1, <1>3, <1>4, <1>5, Zenon DEF CoordinatorStep

(***************************************************************************)
(* The tablets' half of the induction, and the theorems                    *)
(***************************************************************************)
\* A cached rejection changes nothing the invariant is about.
LEMMA RejectInv ==
    ASSUME IInv, TypeOK', NEW op, NEW t \in Txns, NEW k, Reject(op, t, k),
           UNCHANGED <<cts, phase>>,
           \/ UNCHANGED sent
           \/ op = "resolve" /\ sent' = sent \cup {<<op, t, k>>}
    PROVE  IInv'
<1>1. UNCHANGED <<lock, commit_ts, rolled_back, cts, phase, applied, status>>
  BY Zenon DEF Reject
<1>2. \A u \in Txns, j \in Keys,
         o \in {"single", "prewrite", "commit", "rollback", "abort"} :
         <<o, u, j>> \in sent' => <<o, u, j>> \in sent
  OBVIOUS
<1> QED
  BY <1>1, <1>2, ControlStep, Zenon

\* The one-tablet commit decides and installs every write in one step.
LEMMA SingleShardCommitInv ==
    ASSUME IInv, TypeOK', NEW t \in Txns, Pending("single", t, Primary[t]),
           CommitBatch(t, WriteSet[t], cts[t]), Apply("single", t, Primary[t]),
           UNCHANGED <<cts, phase, sent, status>>
    PROVE  IInv'
<1> SUFFICES ASSUME NEW u \in Txns
             PROVE  (PhaseInv(u) /\ SentInv(u) /\ IntentInv(u) /\ DecisionInv(u))'
  BY Zenon DEF IInv
<1>0. Primary[t] \in Keys /\ Primary[u] \in Keys /\ WriteSet[u] \subseteq Keys
  BY Constants, Zenon
<1>1. ~Distributed(t) /\ cts[t] # 0 /\ cts[t] \in Nat
  BY Zenon DEF Pending, IInv, SentInv, TypeOK
<1>2. \A op, v, j : <<op, v, j>> \in applied' <=>
         <<op, v, j>> \in applied \/ (op = "single" /\ v = t /\ j = Primary[t])
  BY Zenon DEF Apply
<1>3. \A j \in Keys :
         /\ commit_ts'[j][u] = IF u = t /\ j \in WriteSet[t] THEN cts[t]
                                                             ELSE commit_ts[j][u]
         /\ lock'[j] = u <=> lock[j] = u /\ ~(u = t /\ j \in WriteSet[t])
         /\ rolled_back'[j] = rolled_back[j]
  <2>1. u # None
    BY Constants, Zenon
  <2> QED
    BY <2>1, Zenon DEF CommitBatch, IInv, TypeOK
<1>4. \A j \in Keys : <<"prewrite", t, j>> \notin applied
  BY <1>1, Zenon DEF IInv, SentInv, TypeOK
<1>5. PhaseInv(u)'
  BY <1>2, Zenon DEF IInv, PhaseInv
<1>6. SentInv(u)'
  BY <1>0, <1>2, Zenon DEF IInv, SentInv
<1>7. IntentInv(u)'
  <2>1. CASE u = t
    BY <1>1, <1>2, <1>3, <1>4, <2>1 DEF IInv, IntentInv, Committed
  <2>2. CASE u # t
    BY <1>2, <1>3, <2>2 DEF IInv, IntentInv, Committed
  <2> QED
    BY <2>1, <2>2, Zenon
<1>8. DecisionInv(u)'
  BY <1>0, <1>1, <1>2, <1>3 DEF IInv, DecisionInv
<1> QED
  BY <1>5, <1>6, <1>7, <1>8, Zenon

\* An installed intent, with the Pending record when it is the primary's.
LEMMA PrewriteInv ==
    ASSUME IInv, TypeOK', NEW t \in Txns, NEW k \in Keys, Pending("prewrite", t, k),
           ~PrewriteRejected(t, k), InstallIntent(t, k), Apply("prewrite", t, k),
           \/ k = Primary[t] /\ SetStatus(t, "pending")
           \/ k # Primary[t] /\ UNCHANGED status,
           UNCHANGED <<cts, phase, sent>>
    PROVE  IInv'
<1> SUFFICES ASSUME NEW u \in Txns
             PROVE  (PhaseInv(u) /\ SentInv(u) /\ IntentInv(u) /\ DecisionInv(u))'
  BY Zenon DEF IInv
<1>0. Primary[t] \in Keys /\ Primary[u] \in Keys /\ WriteSet[u] \subseteq Keys
  BY Constants, Zenon
<1>1. k \in WriteSet[t] /\ Distributed(t)
  BY Zenon DEF Pending, IInv, SentInv
<1>2. \A op, v, j : <<op, v, j>> \in applied' <=>
         <<op, v, j>> \in applied \/ (op = "prewrite" /\ v = t /\ j = k)
  BY Zenon DEF Apply
<1>3. lock[k] \in {None, t} /\ (k = Primary[t] => status[t] = "none")
  BY Zenon DEF PrewriteRejected, PrewriteConflict, PrewriteStatusValid
<1>4. \A j \in Keys :
         /\ commit_ts'[j][u] = commit_ts[j][u] /\ rolled_back'[j] = rolled_back[j]
         /\ lock'[j] = IF j = k THEN t ELSE lock[j]
  BY Zenon DEF InstallIntent, IInv, TypeOK
<1>5. /\ u # t => status'[u] = status[u]
      /\ k # Primary[t] => status'[u] = status[u]
      /\ u = t /\ k = Primary[t] => status'[u] = "pending" /\ status[u] = "none"
  BY <1>3 DEF SetStatus, IInv, TypeOK
<1>6. PhaseInv(u)'
  BY <1>2, Zenon DEF IInv, PhaseInv
<1>7. SentInv(u)'
  BY <1>0, <1>2, Zenon DEF IInv, SentInv
<1>8. Committed(u)' <=> Committed(u)
  BY <1>2, <1>5, Zenon DEF Committed
<1>9. IntentInv(u)'
  <2>1. u # None
    BY Constants, Zenon
  <2> QED
    BY <1>2, <1>3, <1>4, <1>8, <2>1 DEF IInv, IntentInv
<1>10. DecisionInv(u)'
  BY <1>0, <1>1, <1>2, <1>4, <1>5 DEF IInv, DecisionInv
<1> QED
  BY <1>6, <1>7, <1>9, <1>10, Zenon

\* A Commit record, with the Committed status when it is the primary's.
LEMMA CommitInv ==
    ASSUME IInv, TypeOK', NEW t \in Txns, NEW k \in Keys, Pending("commit", t, k),
           ~CommitRejected(t, k), CommitIntent(t, k, cts[t]), Apply("commit", t, k),
           \/ k = Primary[t] /\ SetStatus(t, "committed")
           \/ k # Primary[t] /\ UNCHANGED status,
           UNCHANGED <<cts, phase, sent>>
    PROVE  IInv'
<1> SUFFICES ASSUME NEW u \in Txns
             PROVE  (PhaseInv(u) /\ SentInv(u) /\ IntentInv(u) /\ DecisionInv(u))'
  BY Zenon DEF IInv
<1>0. Primary[t] \in Keys /\ Primary[u] \in Keys /\ WriteSet[u] \subseteq Keys
  BY Constants, Zenon
<1>1. /\ k \in WriteSet[t] /\ Distributed(t) /\ cts[t] # 0 /\ cts[t] \in Nat
      /\ k # Primary[t] => <<"commit", t, Primary[t]>> \in applied
  BY Zenon DEF Pending, IInv, SentInv, TypeOK
<1>2. \A op, v, j : <<op, v, j>> \in applied' <=>
         <<op, v, j>> \in applied \/ (op = "commit" /\ v = t /\ j = k)
  BY Zenon DEF Apply
<1>3. \A j \in Keys :
         /\ commit_ts'[j][u] = IF u = t /\ j = k THEN cts[t] ELSE commit_ts[j][u]
         /\ lock'[j] = u <=> lock[j] = u /\ ~(u = t /\ j = k)
         /\ rolled_back'[j] = rolled_back[j]
  <2>1. u # None
    BY Constants, Zenon
  <2> QED
    BY <2>1 DEF CommitIntent, ReleaseLock, IInv, TypeOK
<1>4. /\ u # t => status'[u] = status[u]
      /\ k # Primary[t] => status'[u] = status[u]
      /\ k = Primary[t] => status[t] = "pending" /\ status'[t] = "committed"
      /\ k # Primary[t] => status'[t] = status[t]
  BY DEF SetStatus, CommitRejected, CommitStatusValid, IInv, TypeOK
<1>5. status'[t] = "committed"
  <2>1. CASE k = Primary[t]
    BY <1>4, <2>1, Zenon
  <2>2. CASE k # Primary[t]
    <3>1. <<"commit", t, Primary[t]>> \in applied
      BY <1>1, <2>2, Zenon
    <3>2. status[t] = "committed"
      BY <3>1, Zenon DEF IInv, DecisionInv
    <3> QED
      BY <1>4, <2>2, <3>2, Zenon
  <2> QED
    BY <2>1, <2>2, Zenon
<1>6. k = Primary[t] => t \notin rolled_back[k]
  <2> SUFFICES ASSUME k = Primary[t] PROVE t \notin rolled_back[k]
    OBVIOUS
  <2>1. <<"single", t, Primary[t]>> \notin applied
    BY <1>1, Zenon DEF IInv, SentInv, TypeOK
  <2>2. ~CommitReplay(t, k, cts[t])
    BY <1>1, <1>4, <2>1, Zenon DEF CommitReplay, IInv, IntentInv, Committed
  <2> QED
    BY <2>2, Zenon DEF CommitRejected, CommitConflict, HistoryConflict
<1>7. PhaseInv(u)'
  BY <1>2, Zenon DEF IInv, PhaseInv
<1>8. SentInv(u)'
  BY <1>0, <1>2, Zenon DEF IInv, SentInv
<1>9. Committed(u) => Committed(u)'
  BY <1>2, <1>4, <1>5, Zenon DEF Committed
<1>10. IntentInv(u)'
  <2>1. CASE u = t
    <3>1. Committed(t)'
      BY <1>5, Zenon DEF Committed
    <3> QED
      BY <1>1, <1>2, <1>3, <2>1, <3>1 DEF IInv, IntentInv
  <2>2. CASE u # t
    BY <1>2, <1>3, <1>9, <2>2 DEF IInv, IntentInv
  <2> QED
    BY <2>1, <2>2, Zenon
<1>11. DecisionInv(u)'
  <2>1. CASE u = t
    BY SMTT(20), <1>0, <1>1, <1>2, <1>3, <1>4, <1>5, <1>6, <2>1 DEF IInv, DecisionInv
  <2>2. CASE u # t
    BY <1>0, <1>2, <1>3, <1>4, <2>2 DEF IInv, DecisionInv
  <2> QED
    BY <2>1, <2>2, Zenon
<1> QED
  BY <1>7, <1>8, <1>10, <1>11, Zenon

\* A Rollback record is left by the primary first, or after the abort decision.
LEMMA RollbackInv ==
    ASSUME IInv, TypeOK', NEW t \in Txns, NEW k \in Keys, NEW op \in {"rollback", "resolve"},
           op = "rollback" => <<op, t, k>> \in sent,
           op = "resolve" => status[t] = "aborted" /\ Distributed(t) /\ k \in WriteSet[t],
           ~RollbackConflict(t, k), RollbackIntent(t, k), Apply(op, t, k),
           \A o \in {"single", "prewrite", "commit", "rollback", "abort"} : \A v, j :
              <<o, v, j>> \in sent' <=> <<o, v, j>> \in sent,
           UNCHANGED <<cts, phase, status>>
    PROVE  IInv'
<1> SUFFICES ASSUME NEW u \in Txns
             PROVE  (PhaseInv(u) /\ SentInv(u) /\ IntentInv(u) /\ DecisionInv(u))'
  BY Zenon DEF IInv
<1>0. Primary[t] \in Keys /\ Primary[u] \in Keys /\ WriteSet[u] \subseteq Keys
  BY Constants, Zenon
<1>1. /\ Distributed(t)
      /\ op = "rollback" /\ k # Primary[t] => <<"rollback", t, Primary[t]>> \in applied
  BY Zenon DEF IInv, SentInv
<1>2. \A o, v, j : <<o, v, j>> \in applied' <=>
         <<o, v, j>> \in applied \/ (o = op /\ v = t /\ j = k)
  BY Zenon DEF Apply
<1>3. \A j \in Keys :
         /\ commit_ts'[j][u] = commit_ts[j][u]
         /\ lock'[j] = u <=> lock[j] = u /\ ~(u = t /\ j = k)
         /\ u \in rolled_back'[j] <=> u \in rolled_back[j] \/ (u = t /\ j = k)
  <2>1. u # None
    BY Constants, Zenon
  <2> QED
    BY <2>1 DEF RollbackIntent, ReleaseLock, IInv, TypeOK
<1>4. commit_ts[k][t] = 0
  BY Zenon DEF RollbackConflict
<1>5. PhaseInv(u)'
  BY <1>2, Zenon DEF IInv, PhaseInv
<1>6. SentInv(u)'
  BY <1>0, <1>2, Zenon DEF IInv, SentInv
<1>7. IntentInv(u)'
  BY <1>2, <1>3 DEF IInv, IntentInv, Committed
<1>8. DecisionInv(u)'
  <2>1. CASE u = t
    BY <1>0, <1>1, <1>2, <1>3, <1>4, <2>1 DEF IInv, DecisionInv
  <2>2. CASE u # t
    BY <1>0, <1>2, <1>3, <2>2 DEF IInv, DecisionInv
  <2> QED
    BY <2>1, <2>2, Zenon
<1> QED
  BY <1>5, <1>6, <1>7, <1>8, Zenon

\* Recovery's Commit record follows a Committed status.
LEMMA ResolveCommitInv ==
    ASSUME IInv, TypeOK', NEW t \in Txns, NEW k \in Keys, status[t] = "committed",
           k \in WriteSet[t], CommitIntent(t, k, cts[t]), Apply("resolve", t, k),
           \A o \in {"single", "prewrite", "commit", "rollback", "abort"} : \A v, j :
              <<o, v, j>> \in sent' <=> <<o, v, j>> \in sent,
           UNCHANGED <<cts, phase, status>>
    PROVE  IInv'
<1> SUFFICES ASSUME NEW u \in Txns
             PROVE  (PhaseInv(u) /\ SentInv(u) /\ IntentInv(u) /\ DecisionInv(u))'
  BY Zenon DEF IInv
<1>0. Primary[t] \in Keys /\ Primary[u] \in Keys /\ WriteSet[u] \subseteq Keys
  BY Constants, Zenon
<1>1. cts[t] # 0 /\ cts[t] \in Nat /\ Distributed(t)
  BY Zenon DEF IInv, DecisionInv, TypeOK
<1>2. \A o, v, j : <<o, v, j>> \in applied' <=>
         <<o, v, j>> \in applied \/ (o = "resolve" /\ v = t /\ j = k)
  BY Zenon DEF Apply
<1>3. \A j \in Keys :
         /\ commit_ts'[j][u] = IF u = t /\ j = k THEN cts[t] ELSE commit_ts[j][u]
         /\ lock'[j] = u <=> lock[j] = u /\ ~(u = t /\ j = k)
         /\ rolled_back'[j] = rolled_back[j]
  <2>1. u # None
    BY Constants, Zenon
  <2> QED
    BY <2>1 DEF CommitIntent, ReleaseLock, IInv, TypeOK
<1>4. PhaseInv(u)'
  BY <1>2, Zenon DEF IInv, PhaseInv
<1>5. SentInv(u)'
  BY <1>0, <1>2 DEF IInv, SentInv
<1>6. IntentInv(u)'
  BY <1>1, <1>2, <1>3 DEF IInv, IntentInv, Committed
<1>7. DecisionInv(u)'
  BY <1>0, <1>1, <1>2, <1>3 DEF IInv, DecisionInv
<1> QED
  BY <1>4, <1>5, <1>6, <1>7, Zenon

\* A Pending record becomes Aborted, by the coordinator or by expiry.
LEMMA AbortInv ==
    ASSUME IInv, TypeOK', NEW t \in Txns, status[t] = "pending", SetStatus(t, "aborted"),
           UNCHANGED <<lock, commit_ts, rolled_back, cts, phase, sent>>,
           \A o \in {"single", "prewrite", "commit", "rollback"} : \A v, j :
              <<o, v, j>> \in applied' <=> <<o, v, j>> \in applied
    PROVE  IInv'
<1> SUFFICES ASSUME NEW u \in Txns
             PROVE  (PhaseInv(u) /\ SentInv(u) /\ IntentInv(u) /\ DecisionInv(u))'
  BY Zenon DEF IInv
<1>0. Primary[t] \in Keys /\ Primary[u] \in Keys /\ WriteSet[u] \subseteq Keys
  BY Constants, Zenon
<1>1. /\ u # t => status'[u] = status[u]
      /\ u = t => status'[u] = "aborted"
  BY DEF SetStatus, IInv, TypeOK
<1>2. PhaseInv(u)'
  BY Zenon DEF IInv, PhaseInv
<1>3. SentInv(u)'
  BY <1>0, Zenon DEF IInv, SentInv
<1>4. IntentInv(u)'
  BY <1>1, Zenon DEF IInv, IntentInv, Committed
<1>5. DecisionInv(u)'
  BY <1>0, <1>1, Zenon DEF IInv, DecisionInv
<1> QED
  BY <1>2, <1>3, <1>4, <1>5, Zenon

LEMMA TabletInv ==
    ASSUME IInv, NEW t \in Txns, TabletStep(t) PROVE IInv'
<1>0. TypeOK'
  BY TabletType, Zenon DEF IInv
<1>1. ASSUME ApplySingleShardCommit(t) PROVE IInv'
  <2>1. CASE Reject("single", t, Primary[t])
    BY <1>0, <1>1, <2>1, RejectInv, Zenon DEF ApplySingleShardCommit
  <2>2. CASE ~Reject("single", t, Primary[t])
    BY <1>0, <1>1, <2>2, SingleShardCommitInv, Zenon DEF ApplySingleShardCommit
  <2> QED
    BY <2>1, <2>2, Zenon
<1>2. ASSUME NEW k \in Keys, ApplyPrewrite(t, k) PROVE IInv'
  <2>1. CASE Reject("prewrite", t, k)
    BY <1>0, <1>2, <2>1, RejectInv, Zenon DEF ApplyPrewrite
  <2>2. CASE ~Reject("prewrite", t, k)
    BY <1>0, <1>2, <2>2, PrewriteInv, Zenon DEF ApplyPrewrite
  <2> QED
    BY <2>1, <2>2, Zenon
<1>3. ASSUME NEW k \in Keys, ApplyCommit(t, k) PROVE IInv'
  <2>1. CASE Reject("commit", t, k)
    BY SMTT(20), <1>0, <1>3, <2>1, RejectInv DEF ApplyCommit
  <2>2. CASE ~Reject("commit", t, k)
    BY <1>0, <1>3, <2>2, CommitInv, Zenon DEF ApplyCommit
  <2> QED
    BY <2>1, <2>2, Zenon
<1>4. ASSUME NEW k \in Keys, ApplyRollback(t, k) PROVE IInv'
  <2>1. CASE Reject("rollback", t, k)
    BY <1>0, <1>4, <2>1, RejectInv, Zenon DEF ApplyRollback
  <2>2. CASE ~Reject("rollback", t, k)
    <3>1. /\ <<"rollback", t, k>> \in sent /\ ~RollbackConflict(t, k)
          /\ RollbackIntent(t, k) /\ Apply("rollback", t, k)
          /\ UNCHANGED <<cts, phase, status>> /\ sent' = sent
      BY <1>4, <2>2, Zenon DEF ApplyRollback, Pending
    <3> QED
      BY <1>0, <3>1, RollbackInv, Zenon
  <2> QED
    BY <2>1, <2>2, Zenon
<1>5. ASSUME ApplyStatusAbort(t) PROVE IInv'
  <2>1. CASE Reject("abort", t, Primary[t])
    BY <1>0, <1>5, <2>1, RejectInv, Zenon DEF ApplyStatusAbort
  <2>2. CASE ~Reject("abort", t, Primary[t])
    <3>1. /\ status[t] = "pending" /\ SetStatus(t, "aborted")
          /\ Apply("abort", t, Primary[t])
          /\ UNCHANGED <<lock, commit_ts, rolled_back, cts, phase, sent>>
      BY <1>5, <2>2, Zenon DEF ApplyStatusAbort
    <3>2. \A o \in {"single", "prewrite", "commit", "rollback"} : \A v, j :
             <<o, v, j>> \in applied' <=> <<o, v, j>> \in applied
      BY <3>1, Zenon DEF Apply
    <3> QED
      BY <1>0, <3>1, <3>2, AbortInv, Zenon
  <2> QED
    BY <2>1, <2>2, Zenon
<1> QED
  BY <1>1, <1>2, <1>3, <1>4, <1>5, Zenon DEF TabletStep

LEMMA RecoveryInv ==
    ASSUME IInv, NEW t \in Txns, RecoveryStep(t) PROVE IInv'
<1>0. TypeOK'
  BY RecoveryType, Zenon DEF IInv
<1>1. ASSUME ExpirePending(t) PROVE IInv'
  <2>1. /\ status[t] = "pending" /\ SetStatus(t, "aborted")
        /\ UNCHANGED <<lock, commit_ts, rolled_back, cts, phase, sent>>
        /\ applied' = applied
    BY <1>1, Zenon DEF ExpirePending
  <2> QED
    BY <1>0, <2>1, AbortInv, Zenon
<1>2. ASSUME NEW k \in Keys, ApplyResolveIntent(t, k) PROVE IInv'
  <2>1. /\ UNCHANGED <<cts, phase, status>>
        /\ status[t] \in {"committed", "aborted"}
        /\ <<"prewrite", t, k>> \in applied
        /\ sent' = sent \cup {<<"resolve", t, k>>}
    BY <1>2, Zenon DEF ApplyResolveIntent, Resolvable, Reject
  <2>2. Distributed(t) /\ k \in WriteSet[t]
    BY <2>1, Zenon DEF IInv, SentInv, TypeOK
  <2>3. \A o \in {"single", "prewrite", "commit", "rollback", "abort"} : \A v, j :
           <<o, v, j>> \in sent' <=> <<o, v, j>> \in sent
    BY <2>1, Zenon
  <2>4. CASE Reject("resolve", t, k)
    BY <1>0, <2>1, <2>4, RejectInv, Zenon
  <2>5. CASE ~Reject("resolve", t, k) /\ status[t] = "committed"
    <3>1. CommitIntent(t, k, cts[t]) /\ Apply("resolve", t, k)
      BY <1>2, <2>5, Zenon DEF ApplyResolveIntent
    <3> QED
      BY <1>0, <2>1, <2>2, <2>3, <2>5, <3>1, ResolveCommitInv, Zenon
  <2>6. CASE ~Reject("resolve", t, k) /\ status[t] # "committed"
    <3>1. RollbackIntent(t, k) /\ Apply("resolve", t, k) /\ ~RollbackConflict(t, k)
      BY <1>2, <2>6, Zenon DEF ApplyResolveIntent, ResolveConflict
    <3> QED
      BY <1>0, <2>1, <2>2, <2>3, <2>6, <3>1, RollbackInv, Zenon
  <2> QED
    BY <2>4, <2>5, <2>6, Zenon
<1> QED
  BY <1>1, <1>2, Zenon DEF RecoveryStep

LEMMA InvStep == IInv /\ [Next]_vars => IInv'
<1> SUFFICES ASSUME IInv, [Next]_vars PROVE IInv'
  OBVIOUS
<1>1. CASE Next
  BY <1>1, CoordinatorInv, TabletInv, RecoveryInv, Zenon DEF Next
<1>2. CASE UNCHANGED vars
  <2>1. TypeOK'
    BY <1>2, Zenon DEF IInv, TypeOK, vars
  <2>2. ASSUME NEW u \in Txns
        PROVE  (PhaseInv(u) /\ SentInv(u) /\ IntentInv(u) /\ DecisionInv(u))'
    BY <1>2, Zenon DEF vars, IInv, PhaseInv, SentInv, IntentInv, DecisionInv, Committed
  <2> QED
    BY <2>1, <2>2, Zenon DEF IInv
<1> QED
  BY <1>1, <1>2, Zenon

LEMMA Invariance == Spec => []IInv
  BY InitInv, InvStep, PTL DEF Spec

(***************************************************************************)
(* What the invariant gives                                                *)
(***************************************************************************)
LEMMA InvExclusion == IInv => RollbackExcludesCommit
<1> SUFFICES ASSUME IInv, NEW t \in Txns, NEW k \in Keys, t \in rolled_back[k]
             PROVE  ~Committed(t)
  BY Zenon DEF RollbackExcludesCommit
<1>1. Distributed(t) /\ status[t] # "committed"
  BY Zenon DEF IInv, DecisionInv
<1>2. <<"single", t, Primary[t]>> \notin applied
  BY <1>1, Zenon DEF IInv, SentInv, TypeOK
<1> QED
  BY <1>1, <1>2, Zenon DEF Committed

LEMMA InvAtomicity == IInv => Atomicity
<1> SUFFICES ASSUME IInv, NEW t \in Txns
             PROVE  /\ Committed(t) => \A k \in WriteSet[t] :
                                         lock[k] = t \/ commit_ts[k][t] = cts[t]
                    /\ ~Committed(t) => \A k \in Keys : commit_ts[k][t] = 0
  BY Zenon DEF Atomicity
<1>0. WriteSet[t] \subseteq Keys
  BY Constants, Zenon
<1>1. ASSUME ~Committed(t), NEW k \in Keys PROVE commit_ts[k][t] = 0
  BY <1>1, Zenon DEF IInv, IntentInv
<1>2. ASSUME status[t] = "committed", NEW k \in WriteSet[t]
      PROVE  lock[k] = t \/ commit_ts[k][t] = cts[t]
  <2>1. cts[t] # 0 /\ Distributed(t)
    BY <1>2, Zenon DEF IInv, DecisionInv
  <2>2. <<"prewrite", t, k>> \in applied
    BY <2>1, <1>2, Zenon DEF IInv, PhaseInv
  <2>3. t \notin rolled_back[k]
    BY <1>0, <1>2, InvExclusion, Zenon DEF RollbackExcludesCommit, Committed
  <2> QED
    BY <1>0, <1>2, <2>2, <2>3, Zenon DEF IInv, IntentInv
<1>3. ASSUME <<"single", t, Primary[t]>> \in applied, NEW k \in WriteSet[t]
      PROVE  commit_ts[k][t] = cts[t]
  BY <1>3, Zenon DEF IInv, DecisionInv
<1> QED
  BY <1>1, <1>2, <1>3, Zenon DEF Committed

\* Two-phase commit is atomic for any transactions, keys, tablets, oracles and any
\* loss or delay of commands and replies.
THEOREM CommitIsAtomic == Spec => []Atomicity
  BY Invariance, InvAtomicity, PTL

\* A transaction rolled back on any key is never committed.
THEOREM RollbackIsFinal == Spec => []RollbackExcludesCommit
  BY Invariance, InvExclusion, PTL

\* No step replaces a Committed or an Aborted status record.
THEOREM StatusIsFinal == Spec => DecisionIsFinal
<1>1. IInv /\ [Next]_vars =>
        [\A t \in Txns : status[t] \in {"committed", "aborted"}
                          => status'[t] = status[t]]_vars
  <2> SUFFICES ASSUME IInv, Next, NEW u \in Txns, status[u] \in {"committed", "aborted"}
               PROVE  status'[u] = status[u]
    OBVIOUS
  <2>1. PICK t \in Txns : CoordinatorStep(t) \/ TabletStep(t) \/ RecoveryStep(t)
    BY Zenon DEF Next
  <2>2. CASE CoordinatorStep(t)
    <3>1. UNCHANGED status
      BY <2>2, Zenon DEF CoordinatorStep, Begin, SubmitSingleShard, DispatchPrewrite,
           DispatchCommit, DispatchRollback, DispatchStatusAbort, Dispatch,
           AllocateCommitTimestamp, RollbackPrepared, Acknowledge, Complete, Rejected,
           NotAdmitted, LostAfterAdmission, OutcomeUnknown, Crash
    <3> QED
      BY <3>1, Zenon
  <2>3. CASE TabletStep(t)
    <3>1. \/ UNCHANGED status
          \/ status[t] \in {"none", "pending"} /\ \E s : SetStatus(t, s)
      BY <2>3, Zenon DEF TabletStep, ApplySingleShardCommit, ApplyStatusAbort, ApplyPrewrite,
           ApplyCommit, ApplyRollback, Reject, PrewriteRejected, PrewriteStatusValid,
           CommitRejected, CommitStatusValid
    <3> QED
      BY <3>1, Zenon DEF SetStatus, IInv, TypeOK
  <2>4. CASE RecoveryStep(t)
    <3>1. \/ UNCHANGED status
          \/ status[t] = "pending" /\ \E s : SetStatus(t, s)
      BY <2>4, Zenon DEF RecoveryStep, ExpirePending, ApplyResolveIntent, Reject
    <3> QED
      BY <3>1, Zenon DEF SetStatus, IInv, TypeOK
  <2> QED
    BY <2>1, <2>2, <2>3, <2>4, Zenon
<1> QED
  BY <1>1, Invariance, PTL DEF Spec, DecisionIsFinal

(***************************************************************************)
(* Atomic commit.  By the inductive invariant, the writes a transaction has*)
(* installed are those of its whole write set exactly when it is committed,*)
(* so the steps to look at are the few that change a decision.             *)
(***************************************************************************)
Single(t) == <<"single", t, Primary[t]>> \in applied

\* Nothing is installed before the decision, and everything after it.
InstalledAreDecided ==
    \A k \in Keys : Installed(k) = {t \in Txns : Committed(t) /\ k \in WriteSet[t]}

LEMMA InvInstalled == IInv => InstalledAreDecided
<1> SUFFICES ASSUME IInv, NEW k \in Keys, NEW t \in Txns
             PROVE  (commit_ts[k][t] # 0 \/ (lock[k] = t /\ Committed(t)))
                    <=> (Committed(t) /\ k \in WriteSet[t])
  BY Zenon DEF InstalledAreDecided, Installed
<1>1. ASSUME commit_ts[k][t] # 0 PROVE Committed(t) /\ k \in WriteSet[t]
  BY <1>1, Zenon DEF IInv, IntentInv
<1>2. ASSUME lock[k] = t PROVE k \in WriteSet[t]
  <2>1. <<"prewrite", t, k>> \in applied
    BY <1>2, Zenon DEF IInv, IntentInv
  <2> QED
    BY <2>1, Zenon DEF IInv, SentInv, TypeOK
<1>3. ASSUME Committed(t), k \in WriteSet[t]
      PROVE  commit_ts[k][t] # 0 \/ lock[k] = t
  <2>1. lock[k] = t \/ commit_ts[k][t] = cts[t]
    BY <1>3, InvAtomicity, Zenon DEF Atomicity
  <2>2. cts[t] # 0
    BY <1>3, Zenon DEF Committed, IInv, DecisionInv, SentInv, TypeOK
  <2> QED
    BY <2>1, <2>2, Zenon
<1> QED
  BY <1>1, <1>2, <1>3, Zenon

\* The steps that touch a status record or decide a one-tablet commit.
LEMMA DecisionSteps ==
    ASSUME IInv, [Next]_vars
    PROVE  \/ UNCHANGED status /\ \A u \in Txns : Single(u)' <=> Single(u)
           \/ \E t \in Txns : /\ UNCHANGED status /\ status[t] = "none"
                              /\ Single(t)' /\ ~Single(t)
                              /\ \A u \in Txns \ {t} : Single(u)' <=> Single(u)
           \/ \E t \in Txns, s \in {"pending", "committed", "aborted"} :
                 /\ SetStatus(t, s)
                 /\ \/ s = "pending" /\ status[t] = "none"
                    \/ s # "pending" /\ status[t] = "pending"
                 /\ \A u \in Txns : Single(u)' <=> Single(u)
<1>1. CASE UNCHANGED vars
  BY <1>1, Zenon DEF vars, Single
<1>2. ASSUME NEW t \in Txns, CoordinatorStep(t)
      PROVE  UNCHANGED <<status, applied>>
  <2>1. ASSUME NEW k \in Keys,
               DispatchPrewrite(t, k) \/ DispatchCommit(t, k) \/ DispatchRollback(t, k)
        PROVE  UNCHANGED <<status, applied>>
    BY <2>1, Zenon DEF DispatchPrewrite, DispatchCommit, DispatchRollback, Dispatch
  <2>2. ASSUME \/ Begin(t) \/ SubmitSingleShard(t) \/ AllocateCommitTimestamp(t)
               \/ RollbackPrepared(t) \/ DispatchStatusAbort(t) \/ Acknowledge(t)
               \/ Complete(t) \/ Rejected(t) \/ NotAdmitted(t)
               \/ LostAfterAdmission(t) \/ OutcomeUnknown(t) \/ Crash(t)
        PROVE  UNCHANGED <<status, applied>>
    BY <2>2, Zenon DEF Begin, SubmitSingleShard, AllocateCommitTimestamp, RollbackPrepared,
       DispatchStatusAbort, Dispatch, Acknowledge, Complete, Rejected, NotAdmitted,
       LostAfterAdmission, OutcomeUnknown, Crash
  <2> QED
    BY <1>2, <2>1, <2>2, Zenon DEF CoordinatorStep
<1>3. ASSUME NEW op \in Ops \ {"single"}, NEW t, NEW k, Apply(op, t, k) \/ Reject(op, t, k)
      PROVE  \A u \in Txns : Single(u)' <=> Single(u)
  BY <1>3 DEF Apply, Reject, Single
<1>4. ASSUME NEW t \in Txns, ApplySingleShardCommit(t), ~UNCHANGED applied
      PROVE  /\ UNCHANGED status /\ status[t] = "none" /\ Single(t)' /\ ~Single(t)
             /\ \A u \in Txns \ {t} : Single(u)' <=> Single(u)
  <2>1. Pending("single", t, Primary[t]) /\ UNCHANGED status /\ Apply("single", t, Primary[t])
    BY <1>4, Zenon DEF ApplySingleShardCommit, Reject
  <2>2. ~Distributed(t)
    BY <2>1, Zenon DEF Pending, IInv, SentInv
  <2> QED
    BY <2>1, <2>2, Zenon DEF Pending, Apply, Single, IInv, DecisionInv
<1>5. ASSUME NEW t \in Txns, ApplySingleShardCommit(t) PROVE UNCHANGED status
  BY <1>5, Zenon DEF ApplySingleShardCommit, Reject
<1>6. ASSUME NEW t \in Txns, ApplyStatusAbort(t) \/ ExpirePending(t)
      PROVE  /\ UNCHANGED status \/ (SetStatus(t, "aborted") /\ status[t] = "pending")
             /\ \A u \in Txns : Single(u)' <=> Single(u)
  BY <1>3, <1>6, Zenon DEF ApplyStatusAbort, ExpirePending, Reject, Ops, Single
<1>7. ASSUME NEW t \in Txns, NEW k \in Keys, ApplyPrewrite(t, k)
      PROVE  /\ UNCHANGED status \/ (SetStatus(t, "pending") /\ status[t] = "none")
             /\ \A u \in Txns : Single(u)' <=> Single(u)
  BY <1>3, <1>7, Zenon DEF ApplyPrewrite, Reject, PrewriteRejected, PrewriteStatusValid, Ops
<1>8. ASSUME NEW t \in Txns, NEW k \in Keys, ApplyCommit(t, k)
      PROVE  /\ UNCHANGED status \/ (SetStatus(t, "committed") /\ status[t] = "pending")
             /\ \A u \in Txns : Single(u)' <=> Single(u)
  BY <1>3, <1>8, Zenon DEF ApplyCommit, Reject, CommitRejected, CommitStatusValid, Ops
<1>9. ASSUME NEW t \in Txns, NEW k \in Keys, ApplyRollback(t, k) \/ ApplyResolveIntent(t, k)
      PROVE  UNCHANGED status /\ \A u \in Txns : Single(u)' <=> Single(u)
  BY <1>3, <1>9, Zenon DEF ApplyRollback, ApplyResolveIntent, Reject, Ops
<1>10. ASSUME NEW t \in Txns, TabletStep(t) \/ RecoveryStep(t),
              ~(UNCHANGED status /\ \A u \in Txns : Single(u)' <=> Single(u))
       PROVE  \/ /\ UNCHANGED status /\ status[t] = "none" /\ Single(t)' /\ ~Single(t)
                 /\ \A u \in Txns \ {t} : Single(u)' <=> Single(u)
              \/ \E s \in {"pending", "committed", "aborted"} :
                   /\ SetStatus(t, s)
                   /\ \/ s = "pending" /\ status[t] = "none"
                      \/ s # "pending" /\ status[t] = "pending"
                   /\ \A u \in Txns : Single(u)' <=> Single(u)
  <2>1. CASE ApplySingleShardCommit(t)
    BY <1>4, <1>5, <1>10, <2>1, Zenon DEF Single
  <2>2. CASE ~ApplySingleShardCommit(t)
    BY <1>6, <1>7, <1>8, <1>9, <1>10, <2>2, Zenon DEF TabletStep, RecoveryStep
  <2> QED
    BY <2>1, <2>2, Zenon
<1>11. ASSUME NEW t \in Txns, CoordinatorStep(t)
       PROVE  UNCHANGED status /\ \A u \in Txns : Single(u)' <=> Single(u)
  BY <1>2, <1>11, Zenon DEF Single
<1> QED
  BY <1>1, <1>10, <1>11, Zenon DEF Next

LEMMA InvInstalledNext == IInv' => InstalledAreDecided'
  BY InvInstalled, PTL

\* Each of them is a step of the abstract specification, or changes nothing in it.
LEMMA RefinementStep ==
    ASSUME IInv, IInv', [Next]_vars
    PROVE  [Abstract!ACNext]_(Abstract!acVars)
<1> DEFINE d == [t \in Txns |-> Decision(t)]
           i == [k \in Keys |-> Installed(k)]
<1>1. /\ i = [k \in Keys |-> {t \in Txns : Committed(t) /\ k \in WriteSet[t]}]
      /\ i' = [k \in Keys |-> {t \in Txns : Committed(t)' /\ k \in WriteSet[t]}]
  BY InvInstalled, InvInstalledNext, Zenon DEF InstalledAreDecided
<1>2. \A t \in Txns : /\ Committed(t) <=> status[t] = "committed" \/ Single(t)
                      /\ Committed(t)' <=> status'[t] = "committed" \/ Single(t)'
                      /\ status[t] # "none" => ~Single(t)
  BY Zenon DEF Committed, Single, IInv, DecisionInv, SentInv, TypeOK
<1>3. \A t \in Txns :
         /\ d[t] = IF Committed(t) THEN "committed"
                   ELSE IF status[t] = "aborted" THEN "aborted" ELSE "open"
         /\ d'[t] = IF Committed(t)' THEN "committed"
                    ELSE IF status'[t] = "aborted" THEN "aborted" ELSE "open"
  BY Zenon DEF Decision
<1>4. ASSUME \A t \in Txns : d'[t] = d[t] /\ (Committed(t)' <=> Committed(t))
      PROVE  d' = d /\ i' = i
  <2>1. \A k \in Keys : i'[k] = i[k]
    BY <1>1, <1>4, Zenon
  <2> QED
    BY <1>4, <2>1, Zenon
<1>5. ASSUME NEW t \in Txns, ~Committed(t), d[t] = "open", Committed(t)',
             \A u \in Txns \ {t} : d'[u] = d[u] /\ (Committed(u)' <=> Committed(u))
      PROVE  /\ d' = [d EXCEPT ![t] = "committed"]
             /\ i' = [k \in Keys |-> IF k \in WriteSet[t] THEN i[k] \cup {t} ELSE i[k]]
  <2>1. \A k \in Keys : i'[k] = IF k \in WriteSet[t] THEN i[k] \cup {t} ELSE i[k]
    BY <1>1, <1>5
  <2>2. d'[t] = "committed"
    BY <1>3, <1>5, Zenon
  <2> QED
    BY <1>5, <2>1, <2>2, Zenon
<1>6. ASSUME NEW t \in Txns, d[t] = "open", d'[t] = "aborted", \A u \in Txns \ {t} : d'[u] = d[u],
             \A u \in Txns : Committed(u)' <=> Committed(u)
      PROVE  d' = [d EXCEPT ![t] = "aborted"] /\ i' = i
  <2>1. \A k \in Keys : i'[k] = i[k]
    BY <1>1, <1>6, Zenon
  <2> QED
    BY <1>6, <2>1, Zenon
<1>7. \/ d' = d /\ i' = i
      \/ \E t \in Txns :
           /\ d[t] = "open" /\ d' = [d EXCEPT ![t] = "committed"]
           /\ i' = [k \in Keys |-> IF k \in WriteSet[t] THEN i[k] \cup {t} ELSE i[k]]
      \/ \E t \in Txns : d[t] = "open" /\ d' = [d EXCEPT ![t] = "aborted"] /\ i' = i
  <2> HIDE DEF d, i
  <2>1. CASE UNCHANGED status /\ \A u \in Txns : Single(u)' <=> Single(u)
    BY <1>2, <1>3, <1>4, <2>1, Zenon
  <2>2. ASSUME NEW t \in Txns, UNCHANGED status, status[t] = "none", Single(t)', ~Single(t),
               \A u \in Txns \ {t} : Single(u)' <=> Single(u)
        PROVE  /\ d[t] = "open" /\ d' = [d EXCEPT ![t] = "committed"]
               /\ i' = [k \in Keys |-> IF k \in WriteSet[t] THEN i[k] \cup {t} ELSE i[k]]
    BY <1>2, <1>3, <1>5, <2>2
  <2>3. ASSUME NEW t \in Txns, NEW s \in {"pending", "committed", "aborted"},
               SetStatus(t, s),
               \/ s = "pending" /\ status[t] = "none"
               \/ s # "pending" /\ status[t] = "pending",
               \A u \in Txns : Single(u)' <=> Single(u)
        PROVE  \/ d' = d /\ i' = i
               \/ /\ d[t] = "open" /\ d' = [d EXCEPT ![t] = "committed"]
                  /\ i' = [k \in Keys |-> IF k \in WriteSet[t] THEN i[k] \cup {t} ELSE i[k]]
               \/ d[t] = "open" /\ d' = [d EXCEPT ![t] = "aborted"] /\ i' = i
    <3>1. status'[t] = s /\ \A u \in Txns \ {t} : status'[u] = status[u]
      BY <2>3 DEF SetStatus, IInv, TypeOK
    <3>2. CASE s = "pending"
      BY <1>2, <1>3, <1>4, <2>3, <3>1, <3>2, Zenon
    <3>3. CASE s = "committed"
      BY <1>2, <1>3, <1>5, <2>3, <3>1, <3>3
    <3>4. CASE s = "aborted"
      BY <1>2, <1>3, <1>6, <2>3, <3>1, <3>4
    <3> QED
      BY <3>2, <3>3, <3>4, Zenon
  <2> QED
    BY <2>1, <2>2, <2>3, DecisionSteps, Zenon
<1> QED
  BY <1>7, Zenon DEF Abstract!ACNext, Abstract!Commit, Abstract!Abort, Abstract!acVars

LEMMA RefinementInit == Init => Abstract!ACInit
<1> SUFFICES ASSUME Init PROVE Abstract!ACInit
  OBVIOUS
<1>1. \A t \in Txns : Decision(t) = "open"
  BY Zenon DEF Init, Decision, Committed
<1>2. \A k \in Keys : Installed(k) = {}
  <2>1. \A t \in Txns : t # None
    BY Constants, Zenon
  <2> QED
    BY <2>1, Zenon DEF Init, StoreInit, Installed
<1> QED
  BY <1>1, <1>2, Zenon DEF Abstract!ACInit

\* Two-phase commit with its retries, crashes, lost replies, expiry and recovery
\* implements transactions that take effect in one step or not at all.
THEOREM Refinement == Spec => ImplementsAtomicCommit
<1>1. IInv /\ IInv' /\ [Next]_vars => [Abstract!ACNext]_(Abstract!acVars)
  BY RefinementStep, Zenon
<1> QED
  BY <1>1, Invariance, RefinementInit, PTL DEF Spec, ImplementsAtomicCommit, Abstract!ACSpec

\* A commit is reported only after the reply that decided it.
LEMMA ReportSteps ==
    ASSUME IInv, [Next]_vars, NEW t \in Txns,
           result'[t] = "committed", result[t] # "committed"
    PROVE  Committed(t)
<1>1. PICK u \in Txns : CoordinatorStep(u) \/ TabletStep(u) \/ RecoveryStep(u)
  BY Zenon DEF Next, vars
<1>2. \/ Complete(u) \/ Rejected(u) \/ NotAdmitted(u) \/ LostAfterAdmission(u)
      \/ OutcomeUnknown(u) \/ Crash(u)
  <2>1. ASSUME NEW k \in Keys,
               DispatchPrewrite(u, k) \/ DispatchCommit(u, k) \/ DispatchRollback(u, k)
        PROVE  FALSE
    BY <2>1, Zenon DEF DispatchPrewrite, DispatchCommit, DispatchRollback, Dispatch
  <2>2. ASSUME \/ Begin(u) \/ SubmitSingleShard(u) \/ AllocateCommitTimestamp(u)
               \/ RollbackPrepared(u) \/ DispatchStatusAbort(u) \/ Acknowledge(u)
        PROVE  FALSE
    BY <2>2, Zenon DEF Begin, SubmitSingleShard, AllocateCommitTimestamp, RollbackPrepared,
       StartRollback, DispatchStatusAbort, Dispatch, Acknowledge
  <2>3. ~TabletStep(u)
    BY Zenon DEF TabletStep, ApplySingleShardCommit, ApplyStatusAbort, ApplyPrewrite,
       ApplyCommit, ApplyRollback
  <2>4. ~RecoveryStep(u)
    BY Zenon DEF RecoveryStep, ExpirePending, ApplyResolveIntent
  <2> QED
    BY <1>1, <2>1, <2>2, <2>3, <2>4, Zenon DEF CoordinatorStep
<1>3. ASSUME NEW told, Finish(u, told) PROVE u = t /\ told = "committed"
  BY <1>3, Zenon DEF Finish, IInv, TypeOK
<1>4. ~StartRollback(u)
  BY Zenon DEF StartRollback
<1>5. \/ Acked("single", t, {Primary[t]})
      \/ phase[t] = "commit" /\ Acked("commit", t, WriteSet[t])
      \/ phase[t] = "commit" /\ Acked("commit", t, {Primary[t]})
  <2>1. ~Finish(u, "failed") /\ ~Finish(u, "unknown") /\ (Finish(u, "committed") => u = t)
    BY <1>3
  <2>2. CASE Complete(u)
    BY <2>1, <2>2, Zenon DEF Complete
  <2>3. CASE DefiniteError(u)
    BY <1>4, <2>1, <2>3, Zenon DEF DefiniteError
  <2>4. CASE OutcomeUnknown(u)
    BY <2>1, <2>4, Zenon DEF OutcomeUnknown
  <2>5. ~Crash(u)
    BY <2>1, Zenon DEF Crash
  <2> QED
    BY <1>2, <2>2, <2>3, <2>4, <2>5, Zenon DEF Rejected, NotAdmitted, LostAfterAdmission
<1>6. <<"single", t, Primary[t]>> \in acked \/ <<"commit", t, Primary[t]>> \in acked
  BY <1>5, Constants, Zenon DEF Acked
<1> QED
  BY <1>6, Zenon DEF Committed, IInv, DecisionInv, TypeOK

LEMMA CommittedStays ==
    ASSUME IInv, [Next]_vars, NEW t \in Txns, Committed(t)
    PROVE  Committed(t)'
<1>1. Committed(t) <=> status[t] = "committed" \/ Single(t)
  BY Zenon DEF Committed, Single
<1>2. Committed(t)' <=> status'[t] = "committed" \/ Single(t)'
  BY Zenon DEF Committed, Single
<1>3. status \in [Txns -> {"none", "pending", "committed", "aborted"}]
  BY Zenon DEF IInv, TypeOK
<1> QED
  BY <1>1, <1>2, <1>3, DecisionSteps, Zenon DEF SetStatus

\* What the coordinator tells its client of a commit is the decision, whatever
\* became of the secondaries and of lost replies
\* (`commit_prepared_distributed_transaction`).
THEOREM ReportsAreTrue == Spec => []ReportedCommitIsReal
<1>1. Init => ReportedCommitIsReal
  BY Zenon DEF Init, ReportedCommitIsReal
<1>2. IInv /\ ReportedCommitIsReal /\ [Next]_vars => ReportedCommitIsReal'
  <2> SUFFICES ASSUME IInv, ReportedCommitIsReal, [Next]_vars, NEW t \in Txns,
                      result'[t] = "committed"
               PROVE  Committed(t)'
    BY Zenon DEF ReportedCommitIsReal
  <2>1. Committed(t)
    BY ReportSteps, Zenon DEF ReportedCommitIsReal
  <2> QED
    BY <2>1, CommittedStays, Zenon
<1> QED
  BY <1>1, <1>2, Invariance, PTL DEF Spec

(***************************************************************************)
(* No lost updates.  A commit finds no write record newer than its start   *)
(* timestamp; that the newest one is strictly older needs timestamps that  *)
(* are never handed out twice, across transactions and across nodes.       *)
(***************************************************************************)
TimeInv ==
    /\ \A t \in Txns :
         /\ start[t] \in NodeTimestamps[NodeOf[t]] \cup {0}
         /\ cts[t] \in NodeTimestamps[NodeOf[t]] \cup {0}
         /\ start[t] <= clock[NodeOf[t]] /\ cts[t] <= clock[NodeOf[t]]
    /\ \A t, u \in Txns : start[t] # 0 => cts[u] # start[t]

\* A timestamp just taken differs from every timestamp in use.
LEMMA FreshTimestamp ==
    ASSUME TypeOK, TimeInv, NEW t \in Txns, NEW ts \in NodeTimestamps[NodeOf[t]],
           NextTimestamp(NodeOf[t], ts)
    PROVE  /\ ts \in Nat \ {0}
           /\ \A u \in Txns : /\ start[u] # ts /\ cts[u] # ts
                              /\ clock[NodeOf[u]] <= clock'[NodeOf[u]]
                              /\ NodeOf[u] = NodeOf[t] => clock'[NodeOf[u]] = ts
<1>1. /\ NodeOf[t] \in Nodes /\ ts \in Nat \ {0}
      /\ ts > clock[NodeOf[t]] /\ clock' = [clock EXCEPT ![NodeOf[t]] = ts]
  BY Constants, Zenon DEF NextTimestamp
<1> SUFFICES ASSUME NEW u \in Txns
             PROVE  /\ start[u] # ts /\ cts[u] # ts
                    /\ clock[NodeOf[u]] <= clock'[NodeOf[u]]
                    /\ NodeOf[u] = NodeOf[t] => clock'[NodeOf[u]] = ts
  BY <1>1, Zenon
<1>2. /\ NodeOf[u] \in Nodes /\ start[u] \in Nat /\ cts[u] \in Nat
      /\ clock[NodeOf[u]] \in Nat /\ clock[NodeOf[t]] \in Nat
  BY <1>1, Constants, Zenon DEF TypeOK
<1>3. CASE NodeOf[u] = NodeOf[t]
  BY <1>1, <1>2, <1>3 DEF TimeInv, TypeOK
<1>4. CASE NodeOf[u] # NodeOf[t]
  <2>1. NodeTimestamps[NodeOf[u]] \cap NodeTimestamps[NodeOf[t]] = {}
    BY <1>1, <1>2, <1>4, TxnAssumption, Zenon
  <2>2. start[u] # ts /\ cts[u] # ts
    BY <1>1, <2>1, Zenon DEF TimeInv
  <2>3. clock'[NodeOf[u]] = clock[NodeOf[u]]
    BY <1>1, <1>2, <1>4, Zenon DEF TypeOK
  <2> QED
    BY <1>2, <1>4, <2>2, <2>3
<1> QED
  BY <1>3, <1>4, Zenon

\* Only three actions take a timestamp.
LEMMA TimestampSteps ==
    ASSUME [Next]_vars
    PROVE  \/ UNCHANGED <<start, cts, clock>>
           \/ \E t \in Txns : Begin(t) \/ SubmitSingleShard(t) \/ AllocateCommitTimestamp(t)
<1>1. CASE UNCHANGED vars
  BY <1>1, Zenon DEF vars
<1>2. ASSUME NEW t \in Txns, CoordinatorStep(t)
      PROVE  \/ UNCHANGED <<start, cts, clock>>
             \/ Begin(t) \/ SubmitSingleShard(t) \/ AllocateCommitTimestamp(t)
  <2>1. ASSUME NEW k \in Keys,
               DispatchPrewrite(t, k) \/ DispatchCommit(t, k) \/ DispatchRollback(t, k)
        PROVE  UNCHANGED <<start, cts, clock>>
    BY <2>1, Zenon DEF DispatchPrewrite, DispatchCommit, DispatchRollback, Dispatch
  <2>2. ASSUME \/ RollbackPrepared(t) \/ DispatchStatusAbort(t) \/ Acknowledge(t)
               \/ Complete(t) \/ Rejected(t) \/ NotAdmitted(t)
               \/ LostAfterAdmission(t) \/ OutcomeUnknown(t) \/ Crash(t)
        PROVE  UNCHANGED <<start, cts, clock>>
    BY <2>2, Zenon DEF RollbackPrepared, DispatchStatusAbort, Dispatch, Acknowledge, Complete,
       Rejected, NotAdmitted, LostAfterAdmission, OutcomeUnknown, Crash
  <2> QED
    BY <1>2, <2>1, <2>2, Zenon DEF CoordinatorStep
<1>3. ASSUME NEW t \in Txns, TabletStep(t) \/ RecoveryStep(t)
      PROVE  UNCHANGED <<start, cts, clock>>
  <2>1. CASE TabletStep(t)
    BY <2>1, Zenon DEF TabletStep, ApplySingleShardCommit, ApplyStatusAbort, ApplyPrewrite,
       ApplyCommit, ApplyRollback
  <2>2. CASE RecoveryStep(t)
    BY <2>2, Zenon DEF RecoveryStep, ExpirePending, ApplyResolveIntent
  <2> QED
    BY <1>3, <2>1, <2>2, Zenon
<1> QED
  BY <1>1, <1>2, <1>3, Zenon DEF Next

LEMMA TimeStep == IInv /\ TimeInv /\ [Next]_vars => TimeInv'
<1> SUFFICES ASSUME IInv, TimeInv, [Next]_vars PROVE TimeInv'
  OBVIOUS
<1>0. TypeOK /\ TypeOK' /\ \A u \in Txns : NodeOf[u] \in Nodes
  BY TypeStep, Constants, Zenon DEF IInv
<1>1. \/ UNCHANGED <<start, cts, clock>>
      \/ \E t \in Txns : Begin(t) \/ SubmitSingleShard(t) \/ AllocateCommitTimestamp(t)
  BY TimestampSteps, Zenon
<1>2. CASE UNCHANGED <<start, cts, clock>>
  BY <1>2, Zenon DEF TimeInv
<1>3. ASSUME NEW t \in Txns, Begin(t) PROVE TimeInv'
  <2>1. PICK ts \in NodeTimestamps[NodeOf[t]] :
           NextTimestamp(NodeOf[t], ts) /\ start' = [start EXCEPT ![t] = ts]
    BY <1>3, Zenon DEF Begin
  <2>2. UNCHANGED cts
    BY <1>3, Zenon DEF Begin
  <2>3. \A u \in Txns : start'[u] = IF u = t THEN ts ELSE start[u]
    BY <1>0, <2>1, Zenon DEF TypeOK
  <2>4. /\ ts \in Nat \ {0}
        /\ \A u \in Txns : /\ start[u] # ts /\ cts[u] # ts
                           /\ clock[NodeOf[u]] <= clock'[NodeOf[u]]
                           /\ NodeOf[u] = NodeOf[t] => clock'[NodeOf[u]] = ts
    BY <1>0, <2>1, FreshTimestamp, Zenon
  <2>5. \A u \in Txns : /\ start[u] \in Nat /\ cts[u] \in Nat
                        /\ clock[NodeOf[u]] \in Nat /\ clock'[NodeOf[u]] \in Nat
    BY <1>0, Zenon DEF TypeOK
  <2> QED
    BY <2>1, <2>2, <2>3, <2>4, <2>5 DEF TimeInv
<1>4. ASSUME NEW t \in Txns, SubmitSingleShard(t) \/ AllocateCommitTimestamp(t)
      PROVE  TimeInv'
  <2>1. PICK ts \in NodeTimestamps[NodeOf[t]] :
           NextTimestamp(NodeOf[t], ts) /\ cts' = [cts EXCEPT ![t] = ts]
    BY <1>4, Zenon DEF SubmitSingleShard, AllocateCommitTimestamp
  <2>2. UNCHANGED start
    BY <1>4, Zenon DEF SubmitSingleShard, AllocateCommitTimestamp
  <2>3. \A u \in Txns : cts'[u] = IF u = t THEN ts ELSE cts[u]
    BY <1>0, <2>1, Zenon DEF TypeOK
  <2>4. /\ ts \in Nat \ {0}
        /\ \A u \in Txns : /\ start[u] # ts /\ cts[u] # ts
                           /\ clock[NodeOf[u]] <= clock'[NodeOf[u]]
                           /\ NodeOf[u] = NodeOf[t] => clock'[NodeOf[u]] = ts
    BY <1>0, <2>1, FreshTimestamp, Zenon
  <2>5. \A u \in Txns : /\ start[u] \in Nat /\ cts[u] \in Nat
                        /\ clock[NodeOf[u]] \in Nat /\ clock'[NodeOf[u]] \in Nat
    BY <1>0, Zenon DEF TypeOK
  <2> QED
    BY <2>1, <2>2, <2>3, <2>4, <2>5 DEF TimeInv
<1> QED
  BY <1>1, <1>2, <1>3, <1>4, Zenon

LEMMA TimeInit == Init => TimeInv
<1> SUFFICES ASSUME Init PROVE TimeInv
  OBVIOUS
<1>1. \A t \in Txns : NodeOf[t] \in Nodes
  BY Constants, Zenon
<1> QED
  BY <1>1 DEF Init, TimeInv

\* A write record that appears in a step was allowed by validate_write_history.
LEMMA NewRecord ==
    ASSUME IInv, [Next]_vars, NEW t \in Txns, NEW k \in Keys,
           commit_ts'[k][t] # commit_ts[k][t]
    PROVE  /\ ~CommittedAfter(k, start[t])
           /\ commit_ts[k][t] = 0 /\ cts[t] # 0
           /\ \A u \in Txns : u # t => commit_ts'[k][u] = commit_ts[k][u]
<1>0. IInv' /\ UNCHANGED <<start, cts>>
           /\ \/ \E u \in Txns, j \in Keys :
                   /\ CommitIntent(u, j, cts[u]) /\ ~CommitConflict(u, j, cts[u])
              \/ \E u \in Txns :
                   /\ CommitBatch(u, WriteSet[u], cts[u])
                   /\ ~BatchConflict(u, WriteSet[u], cts[u])
                   /\ <<"single", u, Primary[u]>> \in sent \ applied
  <2>1. IInv'
    BY InvStep, Zenon
  <2>2. PICK v \in Txns : TabletStep(v) \/ RecoveryStep(v)
    BY Zenon DEF Next, CoordinatorStep, DispatchPrewrite, DispatchCommit, DispatchRollback,
       DispatchStatusAbort, Dispatch, RollbackPrepared, Acknowledge, Complete, Rejected,
       NotAdmitted, LostAfterAdmission, OutcomeUnknown, Crash, Begin, SubmitSingleShard,
       AllocateCommitTimestamp, vars
  <2>3. UNCHANGED <<start, cts>>
    BY <2>2, Zenon DEF TabletStep, ApplySingleShardCommit, ApplyStatusAbort, ApplyPrewrite,
       ApplyCommit, ApplyRollback, RecoveryStep, ExpirePending, ApplyResolveIntent
  <2>4. CASE ApplySingleShardCommit(v)
    BY <2>1, <2>3, <2>4, Zenon DEF ApplySingleShardCommit, Reject, Pending
  <2>5. CASE ApplyStatusAbort(v) \/ ExpirePending(v)
    BY <2>5, Zenon DEF ApplyStatusAbort, ExpirePending, Reject
  <2>6. ASSUME NEW j \in Keys, ApplyPrewrite(v, j) \/ ApplyRollback(v, j)
        PROVE  FALSE
    BY <2>6, Zenon DEF ApplyPrewrite, ApplyRollback, Reject, InstallIntent, RollbackIntent
  <2>7. ASSUME NEW j \in Keys, ApplyCommit(v, j) \/ ApplyResolveIntent(v, j)
        PROVE  CommitIntent(v, j, cts[v]) /\ ~CommitConflict(v, j, cts[v])
    BY <2>7, Zenon DEF ApplyCommit, ApplyResolveIntent, Reject, CommitRejected,
       ResolveConflict, RollbackIntent
  <2> QED
    BY <2>1, <2>2, <2>3, <2>4, <2>5, <2>6, <2>7, Zenon DEF TabletStep, RecoveryStep
<1>1. ASSUME NEW u \in Txns, NEW j \in Keys,
             CommitIntent(u, j, cts[u]), ~CommitConflict(u, j, cts[u])
      PROVE  /\ u = t /\ j = k /\ ~CommittedAfter(k, start[t])
             /\ commit_ts'[k][t] = cts[t]
             /\ \A v \in Txns : v # t => commit_ts'[k][v] = commit_ts[k][v]
  <2>1. \A i \in Keys, v \in Txns : commit_ts'[i][v] =
           IF i = j /\ v = u THEN cts[u] ELSE commit_ts[i][v]
    BY <1>1, Zenon DEF CommitIntent, IInv, TypeOK
  <2>2. u = t /\ j = k /\ ~CommitReplay(t, k, cts[t])
    BY <2>1, Zenon DEF CommitReplay
  <2> QED
    BY <1>1, <2>1, <2>2, Zenon DEF CommitConflict, HistoryConflict
<1>2. ASSUME NEW u \in Txns, CommitBatch(u, WriteSet[u], cts[u]),
             ~BatchConflict(u, WriteSet[u], cts[u])
      PROVE  /\ ~CommittedAfter(k, start[t]) /\ commit_ts'[k][t] = cts[t]
             /\ \A v \in Txns : v # t => commit_ts'[k][v] = commit_ts[k][v]
  <2>1. \A i \in Keys, v \in Txns : commit_ts'[i][v] =
           IF i \in WriteSet[u] /\ v = u THEN cts[u] ELSE commit_ts[i][v]
    BY <1>2, Zenon DEF CommitBatch, IInv, TypeOK
  <2>2. u = t /\ k \in WriteSet[t] /\ ~BatchReplay(t, WriteSet[t], cts[t])
    BY <2>1, Zenon DEF CommitReplay, BatchReplay
  <2> QED
    BY <1>2, <2>1, <2>2, Zenon DEF BatchConflict, HistoryConflict
<1>3. /\ ~CommittedAfter(k, start[t]) /\ commit_ts'[k][t] = cts[t]
      /\ \A v \in Txns : v # t => commit_ts'[k][v] = commit_ts[k][v]
  BY <1>0, <1>1, <1>2, Zenon
<1>4. commit_ts[k][t] = 0 \/ commit_ts[k][t] = cts[t]
  BY Zenon DEF IInv, IntentInv
<1> QED
  BY <1>3, <1>4, Zenon

LEMMA LostUpdateStep == IInv /\ TimeInv /\ NoLostUpdate /\ [Next]_vars => NoLostUpdate'
<1> SUFFICES ASSUME IInv, TimeInv, NoLostUpdate, [Next]_vars,
                    NEW k \in Keys, NEW t \in Txns, NEW u \in Txns,
                    t # u, commit_ts'[k][t] # 0, commit_ts'[k][u] # 0
             PROVE  commit_ts'[k][t] < start'[u] \/ commit_ts'[k][u] < start'[t]
  BY Zenon DEF NoLostUpdate
<1>1. ASSUME NEW v \in Txns, cts[v] # 0 PROVE start'[v] = start[v]
  <2>1. phase[v] # "idle"
    BY <1>1, Zenon DEF IInv, PhaseInv
  <2>2. UNCHANGED start \/ \E w \in Txns : Begin(w)
    BY TimestampSteps, Zenon DEF SubmitSingleShard, AllocateCommitTimestamp
  <2> QED
    BY <2>1, <2>2, Zenon DEF Begin, IInv, TypeOK
<1>2. ASSUME NEW v \in Txns, NEW w \in Txns, v # w, commit_ts'[k][v] # commit_ts[k][v],
             commit_ts'[k][w] # 0
      PROVE  commit_ts'[k][w] < start'[v]
  <2>1. /\ ~CommittedAfter(k, start[v]) /\ cts[v] # 0
        /\ commit_ts'[k][w] = commit_ts[k][w]
    BY <1>2, NewRecord, Zenon
  <2>2. commit_ts[k][w] = cts[w] /\ commit_ts[k][w] # 0
    BY <1>2, <2>1, Zenon DEF IInv, IntentInv
  <2>3. start[v] \in Nat /\ commit_ts[k][w] \in Nat
    BY Zenon DEF IInv, TypeOK
  <2>4. ~(commit_ts[k][w] > start[v])
    BY <2>1, Zenon DEF CommittedAfter
  <2>5. commit_ts[k][w] # start[v]
    BY <2>2, Zenon DEF TimeInv
  <2>6. start'[v] = start[v]
    BY <1>1, <2>1, Zenon
  <2> QED
    BY <2>1, <2>3, <2>4, <2>5, <2>6
<1>3. CASE commit_ts'[k][t] # commit_ts[k][t]
  BY <1>2, <1>3, Zenon
<1>4. CASE commit_ts'[k][u] # commit_ts[k][u]
  BY <1>2, <1>4, Zenon
<1>5. CASE commit_ts'[k][t] = commit_ts[k][t] /\ commit_ts'[k][u] = commit_ts[k][u]
  <2>1. commit_ts[k][t] = cts[t] /\ commit_ts[k][u] = cts[u]
    BY <1>5, Zenon DEF IInv, IntentInv
  <2>2. start'[t] = start[t] /\ start'[u] = start[u]
    BY <1>1, <1>5, <2>1, Zenon
  <2> QED
    BY <1>5, <2>2, Zenon DEF NoLostUpdate
<1> QED
  BY <1>3, <1>4, <1>5, Zenon

\* Two committed writers of one key never overlapped, when no timestamp is handed
\* out twice.
THEOREM UpdatesAreNotLost == Spec => []NoLostUpdate
<1>1. Init => NoLostUpdate
  BY DEF Init, StoreInit, NoLostUpdate
<1>2. Spec => [](IInv /\ TimeInv)
  BY InitInv, InvStep, TimeInit, TimeStep, PTL DEF Spec
<1> QED
  BY <1>1, <1>2, LostUpdateStep, PTL DEF Spec

(***************************************************************************)
(* With one oracle, an intent of a committed transaction never stands in   *)
(* the way of its own commit: what other transactions leave on the key     *)
(* while the intent is there, and before it, is older than its commit      *)
(* timestamp.                                                              *)
(***************************************************************************)
OneOracle == \A t, u \in Txns : NodeOf[t] = NodeOf[u]

\* nothing is known of a transaction that has not begun
BegunInv ==
    \A t \in Txns : phase[t] = "idle" => /\ \A c \in sent : c[2] # t
                                         /\ \A k \in Keys : t \notin rolled_back[k]

OrderInv == \A t \in Txns : cts[t] # 0 => start[t] < cts[t]

LockInv ==
    \A k \in Keys : \A t \in Txns : lock[k] = t =>
       /\ \A u \in Txns : commit_ts[k][u] <= start[t]
       /\ cts[t] # 0 => \A u \in rolled_back[k] : start[u] < cts[t]

\* The tablets' steps, by what they do to the rows.
LEMMA RowSteps ==
    ASSUME [Next]_vars
    PROVE  \/ UNCHANGED <<lock, commit_ts, rolled_back>>
           \/ \E t \in Txns, k \in Keys :
                \/ InstallIntent(t, k) /\ ~PrewriteConflict(t, k) /\ Pending("prewrite", t, k)
                   /\ UNCHANGED <<start, cts, phase, sent>>
                \/ CommitIntent(t, k, cts[t]) /\ ~CommitConflict(t, k, cts[t])
                \/ /\ RollbackIntent(t, k) /\ ~RollbackConflict(t, k)
                   /\ Pending("rollback", t, k) \/ <<"prewrite", t, k>> \in applied
                   /\ UNCHANGED phase
           \/ \E t \in Txns : /\ CommitBatch(t, WriteSet[t], cts[t])
                              /\ ~BatchConflict(t, WriteSet[t], cts[t])
<1>1. CASE UNCHANGED vars
  BY <1>1, Zenon DEF vars
<1>2. ASSUME NEW t \in Txns, CoordinatorStep(t)
      PROVE  UNCHANGED <<lock, commit_ts, rolled_back>>
  BY <1>2, Zenon DEF CoordinatorStep, DispatchPrewrite, DispatchCommit, DispatchRollback,
     DispatchStatusAbort, Dispatch, RollbackPrepared, Acknowledge, Complete, Rejected,
     NotAdmitted, LostAfterAdmission, OutcomeUnknown, Crash, Begin, SubmitSingleShard,
     AllocateCommitTimestamp
<1>3. ASSUME NEW t \in Txns, ApplySingleShardCommit(t)
      PROVE  \/ UNCHANGED <<lock, commit_ts, rolled_back>>
             \/ /\ CommitBatch(t, WriteSet[t], cts[t])
                /\ ~BatchConflict(t, WriteSet[t], cts[t])
  BY <1>3, Zenon DEF ApplySingleShardCommit, Reject
<1>4. ASSUME NEW t \in Txns, ApplyStatusAbort(t) \/ ExpirePending(t)
      PROVE  UNCHANGED <<lock, commit_ts, rolled_back>>
  BY <1>4, Zenon DEF ApplyStatusAbort, ExpirePending, Reject
<1>5. ASSUME NEW t \in Txns, NEW k \in Keys, ApplyPrewrite(t, k)
      PROVE  \/ UNCHANGED <<lock, commit_ts, rolled_back>>
             \/ InstallIntent(t, k) /\ ~PrewriteConflict(t, k) /\ Pending("prewrite", t, k)
                /\ UNCHANGED <<start, cts, phase, sent>>
  BY <1>5, Zenon DEF ApplyPrewrite, Reject, PrewriteRejected
<1>6. ASSUME NEW t \in Txns, NEW k \in Keys, ApplyCommit(t, k)
      PROVE  \/ UNCHANGED <<lock, commit_ts, rolled_back>>
             \/ CommitIntent(t, k, cts[t]) /\ ~CommitConflict(t, k, cts[t])
  BY <1>6, Zenon DEF ApplyCommit, Reject, CommitRejected
<1>7. ASSUME NEW t \in Txns, NEW k \in Keys, ApplyRollback(t, k) \/ ApplyResolveIntent(t, k)
      PROVE  \/ UNCHANGED <<lock, commit_ts, rolled_back>>
             \/ CommitIntent(t, k, cts[t]) /\ ~CommitConflict(t, k, cts[t])
             \/ /\ RollbackIntent(t, k) /\ ~RollbackConflict(t, k)
                /\ Pending("rollback", t, k) \/ <<"prewrite", t, k>> \in applied
                /\ UNCHANGED phase
  BY <1>7, Zenon DEF ApplyRollback, ApplyResolveIntent, Reject, ResolveConflict, Resolvable
<1> QED
  BY <1>1, <1>2, <1>3, <1>4, <1>5, <1>6, <1>7, Zenon DEF Next, TabletStep, RecoveryStep

LEMMA BegunStep == IInv /\ BegunInv /\ [Next]_vars => BegunInv'
<1> SUFFICES ASSUME IInv, BegunInv, [Next]_vars, NEW t \in Txns, phase'[t] = "idle"
             PROVE  /\ \A c \in sent' : c[2] # t
                    /\ \A k \in Keys : t \notin rolled_back'[k]
  BY Zenon DEF BegunInv
<1>0. TypeOK /\ applied \subseteq sent
  BY Zenon DEF IInv, TypeOK
<1>1. phase[t] = "idle" /\ sent' \subseteq sent \cup {c \in sent' : c[2] # t}
  <2>1. CASE UNCHANGED vars
    BY <2>1, Zenon DEF vars
  <2>2. ASSUME NEW u \in Txns, NEW k \in Keys,
               DispatchPrewrite(u, k) \/ DispatchCommit(u, k) \/ DispatchRollback(u, k)
        PROVE  /\ UNCHANGED phase /\ phase[u] # "idle"
               /\ \E op : sent' = sent \cup {<<op, u, k>>}
    BY <2>2, Zenon DEF DispatchPrewrite, DispatchCommit, DispatchRollback, Dispatch
  <2>3. ASSUME NEW u \in Txns, DispatchStatusAbort(u) \/ SubmitSingleShard(u)
        PROVE  /\ phase[u] # "idle" /\ phase'[u] # "idle"
               /\ \A v \in Txns \ {u} : phase'[v] = phase[v]
               /\ \E op : sent' = sent \cup {<<op, u, Primary[u]>>}
    BY <1>0, <2>3, Zenon DEF DispatchStatusAbort, SubmitSingleShard, Dispatch, TypeOK
  <2>4. ASSUME NEW u \in Txns,
               \/ Begin(u) \/ AllocateCommitTimestamp(u) \/ RollbackPrepared(u)
               \/ Acknowledge(u) \/ Complete(u)
               \/ Rejected(u) \/ NotAdmitted(u) \/ LostAfterAdmission(u)
               \/ OutcomeUnknown(u) \/ Crash(u)
        PROVE  UNCHANGED sent /\ (phase'[t] = "idle" => phase[t] = "idle")
    BY <1>0, <2>4 DEF Begin, AllocateCommitTimestamp, RollbackPrepared, StartRollback,
       Acknowledge, Complete, Rejected, NotAdmitted, LostAfterAdmission, DefiniteError,
       OutcomeUnknown, Crash, Finish, TypeOK
  <2>5. ASSUME NEW u \in Txns, TabletStep(u) \/ ExpirePending(u)
        PROVE  UNCHANGED <<sent, phase>>
    BY <2>5, Zenon DEF TabletStep, ApplySingleShardCommit, ApplyStatusAbort, ApplyPrewrite,
       ApplyCommit, ApplyRollback, ExpirePending
  <2>6. ASSUME NEW u \in Txns, NEW k \in Keys, ApplyResolveIntent(u, k)
        PROVE  /\ UNCHANGED phase /\ <<"prewrite", u, k>> \in sent
               /\ sent' = sent \cup {<<"resolve", u, k>>}
    BY <1>0, <2>6, Zenon DEF ApplyResolveIntent, Resolvable
  <2>7. ASSUME NEW u \in Txns, NEW op, NEW k, sent' = sent \cup {<<op, u, k>>}, u # t
        PROVE  sent' \subseteq sent \cup {c \in sent' : c[2] # t}
    BY <2>7
  <2>8. ASSUME NEW k, <<"prewrite", t, k>> \in sent PROVE phase[t] # "idle"
    BY <2>8, Zenon DEF BegunInv
  <2>9. ASSUME NEW u \in Txns, CoordinatorStep(u)
        PROVE  phase[t] = "idle" /\ sent' \subseteq sent \cup {c \in sent' : c[2] # t}
    <3>1. CASE \E k \in Keys : \/ DispatchPrewrite(u, k) \/ DispatchCommit(u, k)
                              \/ DispatchRollback(u, k)
      <4>1. PICK k \in Keys : /\ UNCHANGED phase /\ phase[u] # "idle"
                             /\ \E op : sent' = sent \cup {<<op, u, k>>}
        BY <2>2, <3>1, Zenon
      <4> QED
        BY <2>7, <4>1, Zenon
    <3>2. CASE DispatchStatusAbort(u) \/ SubmitSingleShard(u)
      <4>1. u # t /\ phase[t] = "idle" /\ \E op : sent' = sent \cup {<<op, u, Primary[u]>>}
        BY <2>3, <3>2, Zenon
      <4> QED
        BY <2>7, <4>1, Zenon
    <3> QED
      BY <2>4, <2>9, <3>1, <3>2, Zenon DEF CoordinatorStep
  <2>10. ASSUME NEW u \in Txns, RecoveryStep(u)
        PROVE  phase[t] = "idle" /\ sent' \subseteq sent \cup {c \in sent' : c[2] # t}
    <3>1. ASSUME NEW k \in Keys, ApplyResolveIntent(u, k)
          PROVE  phase[t] = "idle" /\ sent' \subseteq sent \cup {c \in sent' : c[2] # t}
      <4>1. phase[t] = "idle" /\ u # t
        BY <2>6, <2>8, <3>1, Zenon
      <4>2. sent' = sent \cup {<<"resolve", u, k>>}
        BY <2>6, <3>1, Zenon
      <4> QED
        BY <2>7, <4>1, <4>2, Zenon
    <3>2. CASE ExpirePending(u)
      BY <2>5, <3>2, Zenon
    <3> QED
      BY <2>10, <3>1, <3>2, Zenon DEF RecoveryStep
  <2> QED
    BY <2>1, <2>5, <2>9, <2>10, Zenon DEF Next
<1>2. \A c \in sent' : c[2] # t
  BY <1>1, Zenon DEF BegunInv
<1>3. ASSUME NEW k \in Keys PROVE t \notin rolled_back'[k]
  <2>1. t \notin rolled_back[k] /\ \A c \in sent : c[2] # t
    BY <1>1, Zenon DEF BegunInv
  <2>2. ASSUME NEW u \in Txns, NEW j \in Keys, RollbackIntent(u, j),
               Pending("rollback", u, j) \/ <<"prewrite", u, j>> \in applied
        PROVE  t \notin rolled_back'[k]
    <3>1. u # t
      BY <1>0, <2>1, <2>2, Zenon DEF Pending
    <3> QED
      BY <1>0, <2>1, <2>2, <3>1, Zenon DEF RollbackIntent, TypeOK
  <2>3. ASSUME UNCHANGED rolled_back PROVE t \notin rolled_back'[k]
    BY <2>1, <2>3, Zenon
  <2> QED
    BY <2>2, <2>3, RowSteps, Zenon DEF InstallIntent, CommitIntent, CommitBatch
<1> QED
  BY <1>2, <1>3, Zenon

\* Nobody else commits or leaves a Rollback record on a key that stays locked.
LEMMA LockedKeyStable ==
    ASSUME IInv, [Next]_vars, NEW k \in Keys, NEW t \in Txns, lock[k] = t, lock'[k] = t
    PROVE  commit_ts'[k] = commit_ts[k] /\ rolled_back'[k] = rolled_back[k]
<1>0. TypeOK /\ t # None
  BY Constants, Zenon DEF IInv
<1>1. ASSUME NEW u \in Txns, NEW j \in Keys, InstallIntent(u, j)
      PROVE  commit_ts' = commit_ts /\ rolled_back' = rolled_back
  BY <1>1, Zenon DEF InstallIntent
<1>2. ASSUME NEW u \in Txns, NEW j \in Keys,
             CommitIntent(u, j, cts[u]), ~CommitConflict(u, j, cts[u])
      PROVE  commit_ts'[k] = commit_ts[k] /\ rolled_back' = rolled_back
  <2>1. CASE j # k
    BY <1>0, <1>2, <2>1, Zenon DEF CommitIntent, TypeOK
  <2>2. CASE j = k /\ CommitReplay(u, j, cts[u])
    BY <1>0, <1>2, <2>2, Zenon DEF CommitIntent, CommitReplay, TypeOK
  <2>3. CASE j = k /\ ~CommitReplay(u, j, cts[u])
    BY <1>0, <1>2, <2>3, Zenon DEF CommitIntent, CommitConflict, ReleaseLock, TypeOK
  <2> QED
    BY <2>1, <2>2, <2>3, Zenon
<1>3. ASSUME NEW u \in Txns, NEW j \in Keys, RollbackIntent(u, j), ~RollbackConflict(u, j)
      PROVE  commit_ts' = commit_ts /\ rolled_back'[k] = rolled_back[k]
  BY <1>0, <1>3, Zenon DEF RollbackIntent, RollbackConflict, ReleaseLock, TypeOK
<1>4. ASSUME NEW u \in Txns, CommitBatch(u, WriteSet[u], cts[u]),
             ~BatchConflict(u, WriteSet[u], cts[u])
      PROVE  commit_ts'[k] = commit_ts[k] /\ rolled_back' = rolled_back
  <2>1. CASE k \notin WriteSet[u]
    BY <1>4, <2>1, Zenon DEF CommitBatch
  <2>2. CASE k \in WriteSet[u] /\ BatchReplay(u, WriteSet[u], cts[u])
    BY <1>0, <1>4, <2>2, Zenon DEF CommitBatch, BatchReplay, CommitReplay, TypeOK
  <2>3. CASE k \in WriteSet[u] /\ ~BatchReplay(u, WriteSet[u], cts[u])
    BY <1>0, <1>4, <2>3, Zenon DEF CommitBatch, BatchConflict
  <2> QED
    BY <2>1, <2>2, <2>3, Zenon
<1>5. CASE UNCHANGED <<lock, commit_ts, rolled_back>>
  BY <1>5, Zenon
<1> QED
  BY <1>1, <1>2, <1>3, <1>4, <1>5, RowSteps, Zenon

\* An intent is installed on a key without newer commits, before its transaction
\* has a commit timestamp.
LEMMA NewIntent ==
    ASSUME IInv, [Next]_vars, NEW k \in Keys, NEW t \in Txns, lock[k] # t, lock'[k] = t
    PROVE  /\ ~CommittedAfter(k, start[t]) /\ cts[t] = 0
           /\ UNCHANGED <<start, cts, commit_ts, rolled_back>>
<1>0. TypeOK /\ t # None
  BY Constants, Zenon DEF IInv
<1>1. InstallIntent(t, k) /\ ~PrewriteConflict(t, k) /\ Pending("prewrite", t, k)
      /\ UNCHANGED <<start, cts, phase, sent>>
  <2>1. ASSUME NEW u \in Txns, NEW j \in Keys, InstallIntent(u, j) PROVE u = t /\ j = k
    BY <1>0, <2>1, Zenon DEF InstallIntent, TypeOK
  <2>2. ASSUME NEW u \in Txns, NEW j \in Keys, ReleaseLock(u, j) PROVE FALSE
    BY <1>0, <2>2, Zenon DEF ReleaseLock, TypeOK
  <2>3. ASSUME NEW u \in Txns, CommitBatch(u, WriteSet[u], cts[u]) PROVE FALSE
    BY <1>0, <2>3, Zenon DEF CommitBatch
  <2> QED
    BY <2>1, <2>2, <2>3, RowSteps, Zenon DEF CommitIntent, RollbackIntent
<1>2. cts[t] = 0
  <2>1. <<"prewrite", t, k>> \in sent /\ <<"prewrite", t, k>> \notin applied
    BY <1>1, Zenon DEF Pending
  <2> QED
    BY <2>1, Zenon DEF IInv, SentInv, PhaseInv
<1> QED
  BY <1>1, <1>2, Zenon DEF PrewriteConflict, HistoryConflict, InstallIntent

\* The timestamp of a begun transaction never changes.
LEMMA StartKept ==
    ASSUME IInv, [Next]_vars, NEW t \in Txns, phase[t] # "idle"
    PROVE  start'[t] = start[t]
<1>1. UNCHANGED start \/ \E w \in Txns : Begin(w)
  BY TimestampSteps, Zenon DEF SubmitSingleShard, AllocateCommitTimestamp
<1> QED
  BY <1>1, Zenon DEF Begin, IInv, TypeOK

\* A commit timestamp allocated in this step is newer than every timestamp.
LEMMA NewCommitTimestamp ==
    ASSUME OneOracle, IInv, TimeInv, [Next]_vars, NEW t \in Txns, cts'[t] # cts[t]
    PROVE  UNCHANGED start /\ \A u \in Txns : start[u] < cts'[t]
<1>1. SubmitSingleShard(t) \/ AllocateCommitTimestamp(t)
  <2>1. PICK w \in Txns : Begin(w) \/ SubmitSingleShard(w) \/ AllocateCommitTimestamp(w)
    BY TimestampSteps, Zenon
  <2> QED
    BY <2>1, Zenon DEF Begin, SubmitSingleShard, AllocateCommitTimestamp, IInv, TypeOK
<1>2. PICK ts \in NodeTimestamps[NodeOf[t]] :
         NextTimestamp(NodeOf[t], ts) /\ cts' = [cts EXCEPT ![t] = ts]
  BY <1>1, Zenon DEF SubmitSingleShard, AllocateCommitTimestamp
<1>3. UNCHANGED start
  BY <1>1, Zenon DEF SubmitSingleShard, AllocateCommitTimestamp
<1>4. cts'[t] = ts /\ ts > clock[NodeOf[t]] /\ ts \in Nat
  BY <1>2, Constants, Zenon DEF NextTimestamp, IInv, TypeOK
<1>5. ASSUME NEW u \in Txns PROVE start[u] < ts
  <2>1. NodeOf[u] = NodeOf[t] /\ start[u] \in Nat /\ clock[NodeOf[t]] \in Nat
    BY Constants, Zenon DEF OneOracle, IInv, TypeOK
  <2> QED
    BY <1>4, <2>1 DEF TimeInv
<1> QED
  BY <1>3, <1>4, <1>5, Zenon

ResolveInv == BegunInv /\ OrderInv /\ LockInv

LEMMA OrderStep ==
    ASSUME OneOracle, IInv, TimeInv, OrderInv, [Next]_vars
    PROVE  OrderInv'
<1> SUFFICES ASSUME NEW t \in Txns, cts'[t] # 0 PROVE start'[t] < cts'[t]
  BY Zenon DEF OrderInv
<1>1. CASE cts'[t] = cts[t]
  <2>1. phase[t] # "idle"
    BY <1>1, Zenon DEF IInv, PhaseInv
  <2> QED
    BY <1>1, <2>1, StartKept, Zenon DEF OrderInv
<1>2. CASE cts'[t] # cts[t]
  BY <1>2, NewCommitTimestamp, Zenon
<1> QED
  BY <1>1, <1>2, Zenon

LEMMA LockStep ==
    ASSUME OneOracle, IInv, TimeInv, ResolveInv, [Next]_vars
    PROVE  LockInv'
<1> SUFFICES ASSUME NEW k \in Keys, NEW t \in Txns, lock'[k] = t
             PROVE  /\ \A u \in Txns : commit_ts'[k][u] <= start'[t]
                    /\ cts'[t] # 0 => \A u \in rolled_back'[k] : start'[u] < cts'[t]
  BY Zenon DEF LockInv
<1>1. CASE lock[k] # t
  <2>1. /\ ~CommittedAfter(k, start[t]) /\ cts'[t] = 0
        /\ commit_ts' = commit_ts /\ start' = start
    BY <1>1, NewIntent, Zenon
  <2>2. \A u \in Txns : commit_ts[k][u] \in Nat /\ start[t] \in Nat
    BY Zenon DEF IInv, TypeOK
  <2> QED
    BY <2>1, <2>2 DEF CommittedAfter
<1>2. CASE lock[k] = t
  <2>1. commit_ts'[k] = commit_ts[k] /\ rolled_back'[k] = rolled_back[k]
    BY <1>2, LockedKeyStable, Zenon
  <2>2. phase[t] # "idle"
    <3>1. <<"prewrite", t, k>> \in sent
      BY <1>2, Zenon DEF IInv, IntentInv, TypeOK
    <3> QED
      BY <3>1, Zenon DEF ResolveInv, BegunInv
  <2>3. start'[t] = start[t]
    BY <2>2, StartKept, Zenon
  <2>4. ASSUME NEW u \in rolled_back[k], cts'[t] # 0 PROVE start'[u] < cts'[t]
    <3>1. u \in Txns /\ phase[u] # "idle"
      BY <2>4, Zenon DEF ResolveInv, BegunInv, IInv, TypeOK
    <3>2. start'[u] = start[u]
      BY <3>1, StartKept, Zenon
    <3>3. CASE cts'[t] = cts[t]
      BY <1>2, <2>4, <3>2, <3>3, Zenon DEF ResolveInv, LockInv
    <3>4. CASE cts'[t] # cts[t]
      BY <3>1, <3>2, <3>4, NewCommitTimestamp, Zenon
    <3> QED
      BY <3>3, <3>4, Zenon
  <2> QED
    BY <1>2, <2>1, <2>3, <2>4, Zenon DEF ResolveInv, LockInv
<1> QED
  BY <1>1, <1>2, Zenon

\* The write record of a committed transaction finds its place.
LEMMA InvResolvable ==
    ASSUME IInv, ResolveInv PROVE CommittedIntentResolvable
<1> SUFFICES ASSUME NEW t \in Txns, NEW k \in Keys, lock[k] = t, status[t] = "committed",
                    CommitConflict(t, k, cts[t])
             PROVE  FALSE
  BY Zenon DEF CommittedIntentResolvable
<1>1. cts[t] # 0 /\ cts[t] \in Nat /\ start[t] \in Nat /\ start[t] < cts[t]
  BY Zenon DEF IInv, DecisionInv, TypeOK, ResolveInv, OrderInv
<1>2. t \notin rolled_back[k]
  BY InvExclusion, Zenon DEF RollbackExcludesCommit, Committed
<1>3. \A u \in Txns : commit_ts[k][u] \in Nat /\ commit_ts[k][u] <= start[t]
  BY Zenon DEF IInv, TypeOK, ResolveInv, LockInv
<1>4. \A u \in rolled_back[k] : u \in Txns /\ start[u] \in Nat /\ start[u] < cts[t]
  BY <1>1, Zenon DEF IInv, TypeOK, ResolveInv, LockInv
<1>5. ~CommittedAfter(k, start[t])
  BY <1>1, <1>3 DEF CommittedAfter
<1>6. ~TimestampTaken(k, cts[t])
  BY <1>1, <1>3, <1>4 DEF TimestampTaken
<1> QED
  BY <1>2, <1>5, <1>6, Zenon DEF CommitConflict, HistoryConflict

\* With one oracle, an intent whose transaction is committed can always be turned
\* into its write record (`prepare_intent_commit`, `validate_commit_timestamp`).
THEOREM CommittedIntentsResolve ==
    ASSUME OneOracle PROVE Spec => []CommittedIntentResolvable
<1>1. Init => ResolveInv
  <2>1. \A t \in Txns : t # None
    BY Constants, Zenon
  <2> QED
    BY <2>1 DEF Init, StoreInit, ResolveInv, BegunInv, OrderInv, LockInv
<1>2. Spec => [](IInv /\ TimeInv)
  BY InitInv, InvStep, TimeInit, TimeStep, PTL DEF Spec
<1>3. IInv /\ TimeInv /\ ResolveInv /\ [Next]_vars => ResolveInv'
  BY BegunStep, OrderStep, LockStep, Zenon DEF ResolveInv
<1>4. IInv /\ ResolveInv => CommittedIntentResolvable
  BY InvResolvable, Zenon
<1> QED
  BY <1>1, <1>2, <1>3, <1>4, PTL DEF Spec
=============================================================================
