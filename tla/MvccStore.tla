------------------------------ MODULE MvccStore ------------------------------
(***************************************************************************)
(* The multi-version row store of a tablet (MvccTable), key by key.        *)
(*                                                                         *)
(* The three column maps of the code are kept, indexed by transaction      *)
(* instead of by timestamp, because a transaction's start timestamp is its *)
(* identity: `data` is the default map, `lock` the lock map, and the write *)
(* map is split into `commit_ts` (the Put or Delete record of a            *)
(* transaction, 0 when it has none) and `rolled_back` (its Rollback record *)
(* at the start timestamp).  Row bytes are left out: a transaction writes  *)
(* a key once, so its row is determined by the transaction.                *)
(*                                                                         *)
(* Each operation has a Conflict predicate (Error::WriteConflict), a       *)
(* Corrupt predicate (Error::CorruptData) and the state change it makes    *)
(* when neither holds.  The change of an exact replay is no change.        *)
(***************************************************************************)
EXTENDS Integers

CONSTANTS Txns,      \* transactions
          Keys,      \* encoded row keys, ordered
          Deletes,   \* pairs <<t, k>> whose mutation of k is a Delete
          None       \* no lock

VARIABLES start,       \* start timestamp of each transaction, 0 before it begins
          lock,        \* the transaction whose intent is on each key
          data,        \* transactions with a default value under each key
          commit_ts,   \* commit timestamp of each transaction's write record
          rolled_back  \* transactions with a Rollback record under each key

Puts(t, k) == <<t, k>> \notin Deletes

\* the default value is there exactly when the mutation is a Put
DataMismatch(t, k) == (t \in data[k]) # Puts(t, k)

StoreInit ==
    /\ lock = [k \in Keys |-> None]
    /\ data = [k \in Keys |-> {}]
    /\ commit_ts = [k \in Keys |-> [t \in Txns |-> 0]]
    /\ rolled_back = [k \in Keys |-> {}]

CommittedAfter(k, ts) == \E u \in Txns : commit_ts[k][u] > ts

\* validate_write_history
HistoryConflict(t, k) == t \in rolled_back[k] \/ CommittedAfter(k, start[t])

\* validate_commit_timestamp: Rollback records count as well
TimestampTaken(k, ts) ==
    \/ \E u \in Txns : commit_ts[k][u] >= ts
    \/ \E u \in rolled_back[k] : start[u] >= ts

\* another transaction's record sits at this write timestamp
SlotOccupied(t, k, ts) ==
    \E u \in Txns \ {t} : \/ commit_ts[k][u] = ts
                          \/ u \in rolled_back[k] /\ start[u] = ts

(***************************************************************************)
(* prewrite                                                                *)
(***************************************************************************)
PrewriteConflict(t, k) == HistoryConflict(t, k) \/ lock[k] \notin {None, t}

PrewriteCorrupt(t, k) ==
    \/ ~Puts(t, k) /\ t \in data[k]
    \/ /\ ~PrewriteConflict(t, k)
       /\ \/ lock[k] = t /\ DataMismatch(t, k)
          \/ lock[k] = None /\ t \in data[k]

InstallIntent(t, k) ==
    /\ lock' = [lock EXCEPT ![k] = t]
    /\ data' = [data EXCEPT ![k] = IF Puts(t, k) THEN @ \cup {t} ELSE @]
    /\ UNCHANGED <<commit_ts, rolled_back>>

(***************************************************************************)
(* commit_intent                                                           *)
(***************************************************************************)
CommitReplay(t, k, ts) == commit_ts[k][t] = ts

CommitConflict(t, k, ts) ==
    /\ ~CommitReplay(t, k, ts)
    /\ lock[k] # t \/ HistoryConflict(t, k) \/ TimestampTaken(k, ts)

CommitCorrupt(t, k, ts) ==
    \/ SlotOccupied(t, k, ts)
    \/ /\ CommitReplay(t, k, ts)
       /\ t \in rolled_back[k] \/ lock[k] = t \/ DataMismatch(t, k)
    \/ ~CommitReplay(t, k, ts) /\ lock[k] = t /\ DataMismatch(t, k)

ReleaseLock(t, k) == lock' = [lock EXCEPT ![k] = IF @ = t THEN None ELSE @]

CommitIntent(t, k, ts) ==
    /\ commit_ts' = [commit_ts EXCEPT ![k][t] = ts]
    /\ ReleaseLock(t, k)
    /\ UNCHANGED <<data, rolled_back>>

(***************************************************************************)
(* rollback_intent.  With no intent on the key it leaves a Rollback record *)
(* that refuses a prewrite still on its way.                               *)
(***************************************************************************)
RollbackConflict(t, k) ==
    \/ commit_ts[k][t] # 0
    \/ t \notin rolled_back[k] /\ lock[k] \notin {None, t}

RollbackCorrupt(t, k) ==
    /\ ~RollbackConflict(t, k)
    /\ \/ \E u \in Txns : commit_ts[k][u] = start[t]
       \/ t \in rolled_back[k] /\ (lock[k] = t \/ t \in data[k])
       \/ t \notin rolled_back[k] /\ lock[k] = t /\ DataMismatch(t, k)
       \/ t \notin rolled_back[k] /\ lock[k] = None /\ t \in data[k]

RollbackIntent(t, k) ==
    /\ data' = [data EXCEPT ![k] = @ \ {t}]
    /\ ReleaseLock(t, k)
    /\ rolled_back' = [rolled_back EXCEPT ![k] = @ \cup {t}]
    /\ UNCHANGED commit_ts

(***************************************************************************)
(* commit_batch, the atomic one-tablet commit of the key set ks.           *)
(***************************************************************************)
BatchReplay(t, ks, ts) == \A k \in ks : CommitReplay(t, k, ts)

\* MUTANT: a one-tablet commit does not look for the intents of others
BatchIgnoresLocks(t, ks, ts) ==
    /\ ~BatchReplay(t, ks, ts)
    /\ \E k \in ks : HistoryConflict(t, k) \/ TimestampTaken(k, ts)

BatchConflict(t, ks, ts) ==
    /\ ~BatchReplay(t, ks, ts)
    /\ \E k \in ks : \/ lock[k] \notin {None, t}
                     \/ HistoryConflict(t, k)
                     \/ TimestampTaken(k, ts)

BatchCorrupt(t, ks, ts) ==
    \/ \E k \in ks : \/ SlotOccupied(t, k, ts)
                     \/ ~Puts(t, k) /\ t \in data[k]
                     \/ CommitReplay(t, k, ts) /\ DataMismatch(t, k)
    \/ ~BatchReplay(t, ks, ts) /\ \E k \in ks : CommitReplay(t, k, ts)

CommitBatch(t, ks, ts) ==
    /\ commit_ts' = [k \in Keys |->
                       IF k \in ks THEN [commit_ts[k] EXCEPT ![t] = ts]
                                   ELSE commit_ts[k]]
    /\ data' = [k \in Keys |-> IF k \in ks /\ Puts(t, k)
                               THEN data[k] \cup {t} ELSE data[k]]
    /\ lock' = [k \in Keys |-> IF k \in ks /\ lock[k] = t THEN None ELSE lock[k]]
    /\ UNCHANGED rolled_back
=============================================================================
