---------------------------- MODULE DistributedTxn ----------------------------
(***************************************************************************)
(* Two-phase commit across tablets: the SQL node's coordinator, the        *)
(* tablet state machines that apply its commands, and the recovery of      *)
(* intents by readers and by the background cleaner.                       *)
(*                                                                         *)
(* A tablet is a Raft group; what reaches its state machine is a sequence  *)
(* of commands, each with a logical identity (phase, transaction, key).    *)
(* A command that was sent may be applied at any later time, or never, and *)
(* its reply may be lost.  Resending it after a route refresh, a leader    *)
(* change or an outcome query returns the outcome cached under its         *)
(* identity, so `applied` and `rejected` hold every command's only         *)
(* outcome.                                                                *)
(*                                                                         *)
(* Timestamps come from the oracle of the coordinator's node.  A node's    *)
(* timestamps are a set of its own: one node for all transactions is the   *)
(* single oracle, several nodes are several reserved ranges.               *)
(***************************************************************************)
EXTENDS MvccStore

CONSTANTS WriteSet,       \* the keys each transaction writes
          Primary,        \* its first key, whose tablet keeps the status record
          TabletOf,       \* the tablet that owns each key
          Nodes,          \* SQL nodes
          NodeOf,         \* the node that coordinates each transaction
          NodeTimestamps, \* the timestamps each node's oracle hands out
          RemoteTablets   \* participants are led by other nodes than the coordinator

ASSUME TxnAssumption ==
    /\ Keys \subseteq Nat
    /\ TabletOf \in [Keys -> Nat]
    /\ WriteSet \in [Txns -> SUBSET Keys]
    /\ Primary \in [Txns -> Keys]
    /\ \A t \in Txns : /\ Primary[t] \in WriteSet[t]
                       /\ \A k \in WriteSet[t] : Primary[t] <= k
    /\ NodeOf \in [Txns -> Nodes]
    /\ NodeTimestamps \in [Nodes -> SUBSET (Nat \ {0})]
    /\ \A m, n \in Nodes : m # n => NodeTimestamps[m] \cap NodeTimestamps[n] = {}
    /\ RemoteTablets \in BOOLEAN
    /\ None \notin Txns

VARIABLES clock,     \* the last timestamp each node's oracle handed out
          cts,       \* commit timestamp of each transaction, 0 before it is allocated
          phase,     \* what the coordinator of each transaction is doing
          result,    \* what the client was told
          sent,      \* commands on their way to a tablet, or arrived
          acked,     \* commands whose success the coordinator has seen
          applied,   \* commands applied by their tablet
          rejected,  \* commands whose rejection their tablet has cached, and commands
                     \* that never reached it
          status     \* the transaction's status record on its primary tablet

vars == <<start, lock, data, commit_ts, rolled_back, clock, cts, phase, result,
          sent, acked, applied, rejected, status>>

Ops == {"single", "prewrite", "commit", "rollback", "abort", "resolve"}
Commands == Ops \X Txns \X Keys

Init ==
    /\ StoreInit
    /\ start = [t \in Txns |-> 0]
    /\ clock = [n \in Nodes |-> 0]
    /\ cts = [t \in Txns |-> 0]
    /\ phase = [t \in Txns |-> "idle"]
    /\ result = [t \in Txns |-> "none"]
    /\ sent = {} /\ acked = {} /\ applied = {} /\ rejected = {}
    /\ status = [t \in Txns |-> "none"]

(***************************************************************************)
(* Coordinator                                                             *)
(***************************************************************************)
Distributed(t) == \E j, k \in WriteSet[t] : TabletOf[j] # TabletOf[k]

\* the keys of the primary participant's batch
PrimaryBatch(t) == {k \in WriteSet[t] : TabletOf[k] = TabletOf[Primary[t]]}

\* keys dispatched one after the other: the primary batch, then the batches in
\* tablet order, each batch in key order
Preceding(t, k) ==
    {j \in WriteSet[t] :
       \/ TabletOf[j] = TabletOf[k] /\ j < k
       \/ /\ k \notin PrimaryBatch(t)
          /\ j \in PrimaryBatch(t) \/ TabletOf[j] < TabletOf[k]}

\* the prewrites of the secondary batches may overlap (dispatch_prewrite_parallel);
\* the gateway's dispatcher sends the batches one after the other, all of them before
\* it looks at an error, which is one of the orders allowed here
PrecedingPrewrite(t, k) ==
    {j \in WriteSet[t] :
       \/ TabletOf[j] = TabletOf[k] /\ j < k
       \/ k \notin PrimaryBatch(t) /\ j \in PrimaryBatch(t)}

Acked(op, t, ks) == \A k \in ks : <<op, t, k>> \in acked

\* the next timestamp of a node's oracle
NextTimestamp(n, ts) ==
    /\ ts > clock[n]
    /\ \A other \in NodeTimestamps[n] : other > clock[n] => ts <= other
    /\ clock' = [clock EXCEPT ![n] = ts]

Begin(t) ==
    /\ phase[t] = "idle"
    /\ \E ts \in NodeTimestamps[NodeOf[t]] :
         NextTimestamp(NodeOf[t], ts) /\ start' = [start EXCEPT ![t] = ts]
    /\ phase' = [phase EXCEPT ![t] = IF Distributed(t) THEN "prewrite" ELSE "active"]
    /\ UNCHANGED <<lock, data, commit_ts, rolled_back, cts, result, sent, acked,
                   applied, rejected, status>>

Dispatch(op, t, k) ==
    /\ <<op, t, k>> \notin sent
    /\ sent' = sent \cup {<<op, t, k>>}
    /\ UNCHANGED <<start, lock, data, commit_ts, rolled_back, clock, cts, phase,
                   result, acked, applied, rejected, status>>

\* a one-tablet transaction takes its commit timestamp before it is submitted
SubmitSingleShard(t) ==
    /\ phase[t] = "active"
    /\ \E ts \in NodeTimestamps[NodeOf[t]] :
         NextTimestamp(NodeOf[t], ts) /\ cts' = [cts EXCEPT ![t] = ts]
    /\ phase' = [phase EXCEPT ![t] = "single"]
    /\ sent' = sent \cup {<<"single", t, Primary[t]>>}
    /\ UNCHANGED <<start, lock, data, commit_ts, rolled_back, result, acked,
                   applied, rejected, status>>

DispatchPrewrite(t, k) ==
    /\ phase[t] = "prewrite"
    /\ k \in WriteSet[t]
    /\ Acked("prewrite", t, PrecedingPrewrite(t, k))
    /\ Dispatch("prewrite", t, k)

Prepared(t) == phase[t] = "prewrite" /\ Acked("prewrite", t, WriteSet[t])

AllocateCommitTimestamp(t) ==
    /\ Prepared(t)
    /\ \E ts \in NodeTimestamps[NodeOf[t]] :
         NextTimestamp(NodeOf[t], ts) /\ cts' = [cts EXCEPT ![t] = ts]
    /\ phase' = [phase EXCEPT ![t] = "commit"]
    /\ UNCHANGED <<start, lock, data, commit_ts, rolled_back, result, sent, acked,
                   applied, rejected, status>>

\* the replies of a phase are forgotten when the phase ends
Forget(t) == acked' = {c \in acked : c[2] # t}

Finish(t, told) ==
    /\ phase' = [phase EXCEPT ![t] = "done"]
    /\ result' = [result EXCEPT ![t] = told]
    /\ Forget(t)

StartRollback(t) ==
    /\ phase' = [phase EXCEPT ![t] = "rollback"]
    /\ Forget(t)
    /\ UNCHANGED result

\* the timestamp allocation fails, or the transaction turns out too old after it
RollbackPrepared(t) ==
    /\ \/ Prepared(t)
       \/ phase[t] = "commit" /\ \A k \in WriteSet[t] : <<"commit", t, k>> \notin sent
    /\ StartRollback(t)
    /\ UNCHANGED <<start, lock, data, commit_ts, rolled_back, clock, cts, sent,
                   applied, rejected, status>>

DispatchCommit(t, k) ==
    /\ phase[t] = "commit"
    /\ k \in WriteSet[t]
    /\ Acked("commit", t, Preceding(t, k))
    /\ Dispatch("commit", t, k)

DispatchRollback(t, k) ==
    /\ phase[t] = "rollback"
    /\ k \in WriteSet[t]
    /\ Acked("rollback", t, Preceding(t, k))
    /\ Dispatch("rollback", t, k)

DispatchStatusAbort(t) ==
    /\ phase[t] = "rollback"
    /\ Acked("rollback", t, WriteSet[t])
    /\ Dispatch("abort", t, Primary[t])

\* commands of the current phase whose reply the coordinator waits for
Awaited(t) ==
    {c \in sent \ acked :
       /\ c[2] = t
       /\ c[1] = phase[t] \/ (c[1] = "abort" /\ phase[t] = "rollback")}

Acknowledge(t) ==
    /\ \E c \in Awaited(t) \cap applied : acked' = acked \cup {c}
    /\ UNCHANGED <<start, lock, data, commit_ts, rolled_back, clock, cts, phase,
                   result, sent, applied, rejected, status>>

\* every command of the last phase succeeded
Complete(t) ==
    /\ \/ /\ phase[t] = "single" /\ Acked("single", t, {Primary[t]})
          /\ Finish(t, "committed")
       \/ /\ phase[t] = "commit" /\ Acked("commit", t, WriteSet[t])
          /\ Finish(t, "committed")
       \/ /\ phase[t] = "rollback" /\ Acked("abort", t, {Primary[t]})
          /\ Finish(t, "failed")
    /\ UNCHANGED <<start, lock, data, commit_ts, rolled_back, clock, cts, sent,
                   applied, rejected, status>>

\* an error other than RequestOutcomeUnknown ends the phase
DefiniteError(t) ==
    \/ phase[t] \in {"single", "rollback"} /\ Finish(t, "failed")
    \/ /\ phase[t] = "prewrite"
       /\ \/ Acked("prewrite", t, PrimaryBatch(t)) /\ StartRollback(t)
          \/ ~Acked("prewrite", t, PrimaryBatch(t)) /\ Finish(t, "failed")
    \/ /\ phase[t] = "commit"
       /\ \/ Acked("commit", t, {Primary[t]}) /\ Finish(t, "committed")
          \/ ~Acked("commit", t, {Primary[t]}) /\ StartRollback(t)

\* a tablet answered with a rejection
Rejected(t) ==
    /\ Awaited(t) \cap rejected # {}
    /\ DefiniteError(t)
    /\ UNCHANGED <<start, lock, data, commit_ts, rolled_back, clock, cts, sent,
                   applied, rejected, status>>

\* the command never reached a tablet leader
NotAdmitted(t) ==
    /\ \E c \in Awaited(t) \ (applied \cup rejected) : rejected' = rejected \cup {c}
    /\ DefiniteError(t)
    /\ UNCHANGED <<start, lock, data, commit_ts, rolled_back, clock, cts, sent,
                   applied, status>>

\* a remote leader admitted the command and then lost its leadership or reached
\* its deadline: ProposalUnavailable travels as TABLET_UNAVAILABLE
LostAfterAdmission(t) ==
    /\ RemoteTablets
    /\ Awaited(t) # {}
    /\ DefiniteError(t)
    /\ UNCHANGED <<start, lock, data, commit_ts, rolled_back, clock, cts, sent,
                   applied, rejected, status>>

\* MUTANT: a commit whose reply is lost is reported as committed
OutcomeUnknownAsCommitted(t) ==
    /\ Awaited(t) # {}
    /\ \/ phase[t] \in {"single", "commit"} /\ Finish(t, "committed")
       \/ phase[t] \notin {"single", "commit"} /\ Finish(t, "unknown")
    /\ UNCHANGED <<start, lock, data, commit_ts, rolled_back, clock, cts, sent,
                   applied, rejected, status>>

\* RequestOutcomeUnknown: no rollback, the intents are left to recovery
OutcomeUnknown(t) ==
    /\ Awaited(t) # {}
    /\ \/ phase[t] = "commit" /\ Acked("commit", t, {Primary[t]}) /\ Finish(t, "committed")
       \/ ~(phase[t] = "commit" /\ Acked("commit", t, {Primary[t]})) /\ Finish(t, "unknown")
    /\ UNCHANGED <<start, lock, data, commit_ts, rolled_back, clock, cts, sent,
                   applied, rejected, status>>

\* the node stops, or a participant moved after Pending (RecoveryRequired)
Crash(t) ==
    /\ phase[t] \notin {"idle", "done"}
    /\ Finish(t, "unknown")
    /\ UNCHANGED <<start, lock, data, commit_ts, rolled_back, clock, cts, sent,
                   applied, rejected, status>>

(***************************************************************************)
(* Tablet state machine                                                    *)
(***************************************************************************)

Pending(op, t, k) == <<op, t, k>> \in sent \ (applied \cup rejected)

Apply(op, t, k) == applied' = applied \cup {<<op, t, k>>} /\ UNCHANGED rejected

Reject(op, t, k) ==
    /\ rejected' = rejected \cup {<<op, t, k>>}
    /\ UNCHANGED <<lock, data, commit_ts, rolled_back, applied, status>>

ApplySingleShardCommit(t) ==
    /\ Pending("single", t, Primary[t])
    /\ ~BatchCorrupt(t, WriteSet[t], cts[t])
    /\ \/ /\ BatchConflict(t, WriteSet[t], cts[t])
          /\ Reject("single", t, Primary[t])
       \/ /\ ~BatchConflict(t, WriteSet[t], cts[t])
          /\ CommitBatch(t, WriteSet[t], cts[t])
          /\ Apply("single", t, Primary[t])
          /\ UNCHANGED status
    /\ UNCHANGED <<start, clock, cts, phase, result, sent, acked>>

SetStatus(t, s) == status' = [status EXCEPT ![t] = s]

\* validate_prewrite_status_transition: only the primary's prewrite has a record
PrewriteStatusValid(t, k) == k = Primary[t] => status[t] = "none"

PrewriteRejected(t, k) == ~PrewriteStatusValid(t, k) \/ PrewriteConflict(t, k)

\* the primary's prewrite publishes Pending in the same apply
ApplyPrewrite(t, k) ==
    /\ Pending("prewrite", t, k)
    /\ ~PrewriteCorrupt(t, k)
    /\ \/ PrewriteRejected(t, k) /\ Reject("prewrite", t, k)
       \/ /\ ~PrewriteRejected(t, k)
          /\ InstallIntent(t, k)
          /\ Apply("prewrite", t, k)
          /\ \/ k = Primary[t] /\ SetStatus(t, "pending")
             \/ k # Primary[t] /\ UNCHANGED status
    /\ UNCHANGED <<start, clock, cts, phase, result, sent, acked>>

\* validate_commit_status_transition: only the primary's commit carries a record
CommitStatusValid(t, k) == k = Primary[t] => status[t] = "pending"

CommitRejected(t, k) == ~CommitStatusValid(t, k) \/ CommitConflict(t, k, cts[t])

ApplyCommit(t, k) ==
    /\ Pending("commit", t, k)
    /\ ~CommitCorrupt(t, k, cts[t])
    /\ \/ CommitRejected(t, k) /\ Reject("commit", t, k)
       \/ /\ ~CommitRejected(t, k)
          /\ CommitIntent(t, k, cts[t])
          /\ Apply("commit", t, k)
          /\ \/ k = Primary[t] /\ SetStatus(t, "committed")
             \/ k # Primary[t] /\ UNCHANGED status
    /\ UNCHANGED <<start, clock, cts, phase, result, sent, acked>>

ApplyRollback(t, k) ==
    /\ Pending("rollback", t, k)
    /\ ~RollbackCorrupt(t, k)
    /\ \/ RollbackConflict(t, k) /\ Reject("rollback", t, k)
       \/ /\ ~RollbackConflict(t, k)
          /\ RollbackIntent(t, k)
          /\ Apply("rollback", t, k)
          /\ UNCHANGED status
    /\ UNCHANGED <<start, clock, cts, phase, result, sent, acked>>

\* the record of an expired transaction keeps its lease and differs from the
\* coordinator's, so a second abort is rejected
ApplyStatusAbort(t) ==
    /\ Pending("abort", t, Primary[t])
    /\ \/ /\ status[t] = "pending"
          /\ SetStatus(t, "aborted")
          /\ Apply("abort", t, Primary[t])
          /\ UNCHANGED <<lock, data, commit_ts, rolled_back>>
       \/ status[t] # "pending" /\ Reject("abort", t, Primary[t])
    /\ UNCHANGED <<start, clock, cts, phase, result, sent, acked>>

(***************************************************************************)
(* Recovery.  The cleaner, and a reader or writer that has met an intent,  *)
(* ask the primary's tablet for the status.  The cleaner aborts a Pending  *)
(* record whose lease is over; clocks are not related to the coordinator's *)
(* progress, so this may happen at any time.  A terminal status is turned  *)
(* into a ResolveIntent command, which may arrive long after the intent it *)
(* was sent for has gone.                                                  *)
(***************************************************************************)
ExpirePending(t) ==
    /\ status[t] = "pending"
    /\ SetStatus(t, "aborted")
    /\ UNCHANGED <<start, lock, data, commit_ts, rolled_back, clock, cts, phase,
                   result, sent, acked, applied, rejected>>

ResolveConflict(t, k) ==
    \/ status[t] = "committed" /\ CommitConflict(t, k, cts[t])
    \/ status[t] # "committed" /\ RollbackConflict(t, k)

ResolveCorrupt(t, k) ==
    \/ status[t] = "committed" /\ CommitCorrupt(t, k, cts[t])
    \/ status[t] # "committed" /\ RollbackCorrupt(t, k)

\* MUTANT: an intent whose transaction is still Pending is resolved
ResolvableEarly(t, k) == <<"prewrite", t, k>> \in applied /\ status[t] # "none"

\* MUTANT: intents of aborted transactions are left alone
ResolvableIfCommitted(t, k) ==
    <<"prewrite", t, k>> \in applied /\ status[t] = "committed"

\* an intent was installed, and recovery read a terminal status for it
Resolvable(t, k) ==
    <<"prewrite", t, k>> \in applied /\ status[t] \in {"committed", "aborted"}

ApplyResolveIntent(t, k) ==
    /\ <<"resolve", t, k>> \notin applied \cup rejected
    /\ Resolvable(t, k)
    /\ sent' = sent \cup {<<"resolve", t, k>>}
    /\ ~ResolveCorrupt(t, k)
    /\ \/ ResolveConflict(t, k) /\ Reject("resolve", t, k)
       \/ /\ ~ResolveConflict(t, k)
          /\ \/ status[t] = "committed" /\ CommitIntent(t, k, cts[t])
             \/ status[t] # "committed" /\ RollbackIntent(t, k)
          /\ Apply("resolve", t, k)
          /\ UNCHANGED status
    /\ UNCHANGED <<start, clock, cts, phase, result, acked>>

CoordinatorStep(t) ==
    \/ Begin(t) \/ SubmitSingleShard(t)
    \/ \E k \in Keys : \/ DispatchPrewrite(t, k) \/ DispatchCommit(t, k)
                       \/ DispatchRollback(t, k)
    \/ AllocateCommitTimestamp(t) \/ RollbackPrepared(t) \/ DispatchStatusAbort(t)
    \/ Acknowledge(t) \/ Complete(t)
    \/ Rejected(t) \/ NotAdmitted(t) \/ LostAfterAdmission(t)
    \/ OutcomeUnknown(t) \/ Crash(t)

TabletStep(t) ==
    \/ ApplySingleShardCommit(t) \/ ApplyStatusAbort(t)
    \/ \E k \in Keys : \/ ApplyPrewrite(t, k) \/ ApplyCommit(t, k)
                       \/ ApplyRollback(t, k)

RecoveryStep(t) ==
    \/ ExpirePending(t)
    \/ \E k \in Keys : ApplyResolveIntent(t, k)

Next == \E t \in Txns : CoordinatorStep(t) \/ TabletStep(t) \/ RecoveryStep(t)

Spec == Init /\ [][Next]_vars

(***************************************************************************)
(* Properties                                                              *)
(***************************************************************************)
\* Every map holds transactions and timestamps, every coordinator is in a phase,
\* and a command has at most one outcome.
TypeOK ==
    /\ start \in [Txns -> Nat] /\ cts \in [Txns -> Nat]
    /\ clock \in [Nodes -> Nat]
    /\ lock \in [Keys -> Txns \cup {None}]
    /\ data \in [Keys -> SUBSET Txns]
    /\ commit_ts \in [Keys -> [Txns -> Nat]]
    /\ rolled_back \in [Keys -> SUBSET Txns]
    /\ phase \in [Txns -> {"idle", "active", "single", "prewrite", "commit",
                           "rollback", "done"}]
    /\ result \in [Txns -> {"none", "committed", "failed", "unknown"}]
    /\ sent \in SUBSET Commands
    /\ acked \subseteq applied /\ applied \cup rejected \subseteq sent
    /\ applied \cap rejected = {}
    /\ status \in [Txns -> {"none", "pending", "committed", "aborted"}]

\* the decision: the status record, or the one command of a one-tablet commit
Committed(t) ==
    status[t] = "committed" \/ <<"single", t, Primary[t]>> \in applied

\* All or nothing, in every interleaving of the coordinator, the tablets, delayed
\* commands and recovery: a committed transaction has, on every key of its write
\* set, its write record at the one commit timestamp or the intent that recovery
\* turns into it, and a transaction that is not committed has no write record
\* anywhere (commit_prepared_distributed_transaction, apply_commit,
\* apply_resolve_intent).
Atomicity ==
    \A t \in Txns :
       /\ Committed(t) => \A k \in WriteSet[t] :
                            lock[k] = t \/ commit_ts[k][t] = cts[t]
       /\ ~Committed(t) => \A k \in Keys : commit_ts[k][t] = 0

\* A Rollback record on any key, left by the coordinator's rollback or by
\* recovery, means the transaction never commits: a commit still on its way to
\* the primary is refused (prepare_intent_rollback, validate_write_history,
\* validate_commit_status_transition).
RollbackExcludesCommit ==
    \A t \in Txns, k \in Keys : t \in rolled_back[k] => ~Committed(t)

\* Snapshot isolation forbids lost updates: two committed writers of one key did
\* not overlap, one of them began after the other had committed
\* (validate_write_history together with the intent lock).
NoLostUpdate ==
    \A k \in Keys : \A t, u \in Txns :
       (t # u /\ commit_ts[k][t] # 0 /\ commit_ts[k][u] # 0)
       => commit_ts[k][t] < start[u] \/ commit_ts[k][u] < start[t]

\* A client told "committed" has a committed transaction, although secondaries
\* may have failed and replies may have been lost.
ReportedCommitIsReal ==
    \A t \in Txns : result[t] = "committed" => Committed(t)

\* An intent of a committed transaction can be turned into its write record, so
\* a reader or the cleaner that meets it can always proceed.
CommittedIntentResolvable ==
    \A t \in Txns, k \in Keys :
       lock[k] = t /\ status[t] = "committed" => ~CommitConflict(t, k, cts[t])

\* A terminal status record is never replaced, by a late commit, a second abort
\* or an expiry (validate_commit_status_transition,
\* validate_abort_status_transition, apply_expire_pending_transaction_status).
DecisionIsFinal ==
    [][\A t \in Txns : status[t] \in {"committed", "aborted"}
                        => status'[t] = status[t]]_vars

(***************************************************************************)
(* Refinement: the writes a transaction has installed under a key are its  *)
(* write records and the intents its committed status has yet to resolve.  *)
(***************************************************************************)
Decision(t) ==
    IF Committed(t) THEN "committed"
    ELSE IF status[t] = "aborted" THEN "aborted" ELSE "open"

Installed(k) ==
    {t \in Txns : commit_ts[k][t] # 0 \/ (lock[k] = t /\ Committed(t))}

Abstract == INSTANCE AtomicCommit
              WITH decision <- [t \in Txns |-> Decision(t)],
                   installed <- [k \in Keys |-> Installed(k)]

\* Prewrites, commits key by key, rollbacks, lost replies, expiry and intent
\* resolution together behave like transactions that install all their writes in
\* one step or none of them, and the step is the primary's commit.
ImplementsAtomicCommit == Abstract!ACSpec

(***************************************************************************)
(* Progress of recovery.  The cleaner scans every tablet periodically; a   *)
(* coordinator renews its lease no longer than the maximum transaction     *)
(* age, so a record that stays Pending is expired, and a ResolveIntent     *)
(* command is resent until it is applied.  Nothing is assumed of the       *)
(* coordinator.                                                            *)
(***************************************************************************)
RecoverySpec ==
    /\ Spec
    /\ \A t \in Txns : /\ WF_vars(ExpirePending(t))
                       /\ \A k \in Keys : WF_vars(ApplyResolveIntent(t, k))

\* Every intent goes away, whatever its coordinator does or fails to do: no key
\* stays unreadable for ever (clean_intents_once, resolve_foreground_intent).
IntentsGoAway ==
    \A t \in Txns, k \in Keys : lock[k] = t ~> lock[k] # t
=============================================================================
