----------------------------- MODULE AtomicCommit -----------------------------
(***************************************************************************)
(* What a multi-key transaction promises: it is decided once, and if it    *)
(* commits, all its writes are installed in the same step.                 *)
(***************************************************************************)
CONSTANTS Txns, Keys, WriteSet

VARIABLES decision,   \* of each transaction: "open", "committed" or "aborted"
          installed   \* the transactions whose write of each key took effect

acVars == <<decision, installed>>

ACInit ==
    /\ decision = [t \in Txns |-> "open"]
    /\ installed = [k \in Keys |-> {}]

Commit(t) ==
    /\ decision[t] = "open"
    /\ decision' = [decision EXCEPT ![t] = "committed"]
    /\ installed' = [k \in Keys |-> IF k \in WriteSet[t] THEN installed[k] \cup {t}
                                                         ELSE installed[k]]

Abort(t) ==
    /\ decision[t] = "open"
    /\ decision' = [decision EXCEPT ![t] = "aborted"]
    /\ UNCHANGED installed

ACNext == \E t \in Txns : Commit(t) \/ Abort(t)

ACSpec == ACInit /\ [][ACNext]_acVars
=============================================================================
