---------------------------- MODULE TabletReplica ----------------------------
(***************************************************************************)
(* The replicas of one tablet: the proposal registry of the replica that   *)
(* admits a command, the Raft log, and the deduplication of commands when  *)
(* they are applied, under changes of leadership, retries through other    *)
(* gateways, snapshots and restarts.                                       *)
(*                                                                         *)
(* A replica is one thread that works in turns (run_turn): any number of   *)
(* Raft controls (Elect, StepDown, AppendEntries, AdvanceCommit),          *)
(* each followed by the drain of what became committed (ApplyBarrier,      *)
(* ApplyCommand, ApplyMismatch), and then admission and housekeeping       *)
(* (StartTerm, Admit, FinishTurn).  While a drain is unfinished the        *)
(* replica does nothing else.  Log entries hold one command each.          *)
(*                                                                         *)
(* The Raft core is not part of the repository.  It is abstracted to the   *)
(* log it agrees on: only the leader of the newest term commits, a new     *)
(* leader's log extends what is committed by entries some replica holds,   *)
(* and a replica hears of it later, by a step that may carry committed     *)
(* entries.  Replicas that are never leader need not be named.             *)
(***************************************************************************)
EXTENDS CommandDedup

CONSTANTS Replicas, Gateways,
          Acknowledging, \* sessions that acknowledge what they were answered
          FirstLeader,   \* leader of term 1 when the model starts
          MaxTerm, MaxLog, MaxRestarts \* bounds

ASSUME ReplicaAssumption == FirstLeader \in Replicas

VARIABLES
    committed,    \* the entries [term, env] the group agrees on
    epoch,        \* newest term of the group
    term, lead,   \* the term a replica last led, and leader_id = own id
    log, commit,  \* its log and the commit index it knows
    applied,      \* applied frontier
    sm,           \* the tablet state machine
    registry,     \* ProposalRegistry.pending
    activation,   \* leader_activation: position of this term's barrier
    was_leader,   \* was_leader of the last turn
    completed,    \* completions not yet forwarded to their gateways
    failed,       \* the group stopped with HostedGroupError::Group
    restarts,     \* restarts so far
    gw,           \* what each gateway is doing
    cur,          \* the request each client session is waiting for
    answered      \* <<request, outcome>> a gateway returned to its caller

raftVars    == <<committed, epoch, term, lead, log, commit>>
applyVars   == <<applied, sm>>
runtimeVars == <<registry, activation, was_leader, completed>>
clientVars  == <<gw, cur, answered>>
vars == <<raftVars, applyVars, runtimeVars, failed, restarts, clientVars>>

NoPosition == [term |-> 0, index |-> 0]
NoEntry    == [term |-> 0, index |-> 0, live |-> FALSE, gateway |-> None]
NoEnvelope == [req |-> [client |-> None, sequence |-> 0], ack |-> None]
Barrier(t) == [term |-> t, env |-> NoEnvelope]
Idle       == [state |-> "idle"]

Init ==
    /\ committed = <<Barrier(1)>>
    /\ epoch = 1
    /\ term = [r \in Replicas |-> IF r = FirstLeader THEN 1 ELSE 0]
    /\ lead = [r \in Replicas |-> r = FirstLeader]
    /\ log = [r \in Replicas |-> <<Barrier(1)>>]
    /\ commit = [r \in Replicas |-> 1]
    /\ applied = [r \in Replicas |-> 1]
    /\ sm = [r \in Replicas |-> EmptyState]
    /\ registry = [r \in Replicas |-> [q \in Requests |-> NoEntry]]
    /\ activation = [r \in Replicas |-> IF r = FirstLeader
                                        THEN [term |-> 1, index |-> 1]
                                        ELSE NoPosition]
    /\ was_leader = [r \in Replicas |-> r = FirstLeader]
    /\ completed = [r \in Replicas |-> {}]
    /\ failed = [r \in Replicas |-> FALSE]
    /\ restarts = 0
    /\ gw = [g \in Gateways |-> Idle]
    /\ cur = [c \in Clients |-> 1]
    /\ answered = {}

\* between two controls: nothing committed is left to apply
Ready(r) == ~failed[r] /\ applied[r] = commit[r]

(***************************************************************************)
(* The Raft core (external).                                               *)
(***************************************************************************)
\* prefixes of a log that hold everything committed
Extensions(l) ==
    {SubSeq(l, 1, k) : k \in {i \in Len(committed)..Len(l) :
                                SubSeq(l, 1, Len(committed)) = committed}}

\* the winner holds the committed entries, and may hold others of some replica
Elect(r) ==
    /\ Ready(r) /\ ~lead[r] /\ epoch < MaxTerm
    /\ epoch' = epoch + 1
    /\ term' = [term EXCEPT ![r] = epoch + 1]
    /\ lead' = [lead EXCEPT ![r] = TRUE]
    /\ \E l \in {committed} \cup UNION {Extensions(log[s]) : s \in Replicas} :
         log' = [log EXCEPT ![r] = l]
    /\ UNCHANGED <<committed, commit, applyVars, runtimeVars, failed, restarts,
                   clientVars>>

AdvanceCommit(r) ==
    /\ lead[r] /\ term[r] = epoch /\ Ready(r)
    /\ \E i \in (Len(committed) + 1)..Len(log[r]) :
         /\ log[r][i].term = epoch
         /\ committed' = SubSeq(log[r], 1, i)
         /\ commit' = [commit EXCEPT ![r] = i]
    /\ UNCHANGED <<epoch, term, lead, log, applyVars, runtimeVars, failed,
                   restarts, clientVars>>

\* a message of a newer term, without and with entries
StepDown(r) ==
    /\ lead[r] /\ term[r] < epoch /\ Ready(r)
    /\ lead' = [lead EXCEPT ![r] = FALSE]
    /\ UNCHANGED <<committed, epoch, term, log, commit, applyVars, runtimeVars,
                   failed, restarts, clientVars>>

AppendEntries(r) ==
    /\ Ready(r) /\ ~(lead[r] /\ term[r] = epoch)
    /\ lead' = [lead EXCEPT ![r] = FALSE]
    /\ \E i \in (commit[r] + 1)..Len(committed) :
         /\ commit' = [commit EXCEPT ![r] = i]
         /\ log' = [log EXCEPT ![r] = SubSeq(committed, 1, i)]
    /\ UNCHANGED <<committed, epoch, term, applyVars, runtimeVars, failed,
                   restarts, clientVars>>

(***************************************************************************)
(* drain_ready: the committed entries in order.                            *)
(***************************************************************************)
\* advance_applied_frontier of the registry
Released(reg, index) ==
    [q \in Requests |-> IF ~reg[q].live /\ reg[q].index <= index
                        THEN NoEntry ELSE reg[q]]

Draining(r) == ~failed[r] /\ applied[r] < commit[r]

Position(r) == [term |-> log[r][applied[r] + 1].term, index |-> applied[r] + 1]

\* resolve_applied and resolve_rejected refuse a live waiter of another position
Mismatch(r, q) ==
    LET entry == registry[r][q]
    IN entry.live /\ [term |-> entry.term, index |-> entry.index] # Position(r)

Drained(r) ==
    /\ applied' = [applied EXCEPT ![r] = @ + 1]
    /\ UNCHANGED <<raftVars, activation, was_leader, restarts, clientVars>>

\* the registry hears of the frontier when the last committed entry is applied
Frontier(r, reg) ==
    IF applied[r] + 1 = commit[r] THEN Released(reg, applied[r] + 1) ELSE reg

ApplyBarrier(r) ==
    /\ Draining(r) /\ Drained(r)
    /\ log[r][applied[r] + 1].env = NoEnvelope
    /\ registry' = [registry EXCEPT ![r] = Frontier(r, @)]
    /\ UNCHANGED <<sm, completed, failed>>

\* apply_committed_entry and publish_committed_entry
ApplyCommand(r) ==
    LET env   == log[r][applied[r] + 1].env
        done  == Apply(sm[r], env)
        entry == registry[r][env.req]
    IN /\ Draining(r) /\ Drained(r)
       /\ env # NoEnvelope /\ ~Mismatch(r, env.req)
       /\ sm' = [sm EXCEPT ![r] = done.sm]
       /\ registry' = [registry EXCEPT ![r] = Frontier(r, [@ EXCEPT ![env.req] = NoEntry])]
       /\ completed' = [completed EXCEPT ![r] = IF entry.live
            THEN @ \cup {[gateway |-> entry.gateway, req |-> env.req, out |-> done.out]}
            ELSE @]
       /\ UNCHANGED failed

\* the state machine has already changed when the waiter turns out not to match:
\* the group stops with HostedGroupError::Group
ApplyMismatch(r) ==
    LET env == log[r][applied[r] + 1].env
    IN /\ Draining(r)
       /\ env # NoEnvelope /\ Mismatch(r, env.req)
       /\ sm' = [sm EXCEPT ![r] = Apply(sm[r], env).sm]
       /\ failed' = [failed EXCEPT ![r] = TRUE]
       /\ UNCHANGED <<raftVars, applied, runtimeVars, restarts, clientVars>>

\* finalising a received snapshot: image of the leader's applied state
InstallSnapshot(r, l) ==
    /\ lead[l] /\ term[l] = epoch /\ Ready(l)
    /\ Ready(r) /\ applied[r] < applied[l]
    /\ lead' = [lead EXCEPT ![r] = FALSE]
    /\ log' = [log EXCEPT ![r] = SubSeq(log[l], 1, applied[l])]
    /\ commit' = [commit EXCEPT ![r] = applied[l]]
    /\ applied' = [applied EXCEPT ![r] = applied[l]]
    /\ sm' = [sm EXCEPT ![r] = Restored(sm[l])]
    /\ registry' = [registry EXCEPT ![r] = Released(@, applied[l])]
    /\ UNCHANGED <<committed, epoch, term, activation, was_leader, completed,
                   failed, restarts, clientVars>>

(***************************************************************************)
(* The end of a turn: refresh_leader_activation, admission of commands,    *)
(* expired deadlines, loss of leadership, completions.                     *)
(***************************************************************************)
\* MUTANT: a leader serves as soon as its barrier is in its log
ServingAtOnce(r) == lead[r] /\ activation[r].term = term[r]

\* serving_leader
Serving(r) ==
    /\ lead[r] /\ activation[r].term = term[r]
    /\ applied[r] >= activation[r].index

\* MUTANT: the identity of an abandoned proposal is given away at once
AdmissibleAbandoned(r, g) ==
    gw[g].state = "sent" /\ ~registry[r][gw[g].req].live

\* a request in flight that this replica's registry does not know
Admissible(r, g) ==
    gw[g].state = "sent" /\ registry[r][gw[g].req] = NoEntry

\* admit_prepared_command
Proposed(r, g) == [term |-> term[r], env |-> [req |-> gw[g].req, ack |-> gw[g].ack]]

Registered(r, g) == [term |-> term[r], index |-> Len(log[r]) + 1, live |-> TRUE,
                     gateway |-> g]

\* the waiters that go: all of them when leadership was lost, else the late ones
Leaving(r, late) ==
    IF was_leader[r] /\ ~lead[r] THEN {q \in Requests : registry[r][q].live} ELSE late

\* expire_deadlines and mark_leadership_lost take the sender, not the identity
Abandoned(reg, Q) == [q \in Requests |-> IF q \in Q THEN [reg[q] EXCEPT !.live = FALSE]
                                          ELSE reg[q]]

\* forward_completions: an outcome goes to a gateway that still waits here; a
\* gateway whose waiter was abandoned tries again
Waits(r, g) == gw[g].state = "waiting" /\ gw[g].at = r

Outcomes(r) ==
    {c \in completed[r] : Waits(r, c.gateway) /\ gw[c.gateway].req = c.req}

Forwarded(r, g, Q) ==
    IF \E c \in Outcomes(r) : c.gateway = g THEN Idle
    ELSE IF Waits(r, g) /\ gw[g].req \in Q THEN [gw[g] EXCEPT !.state = "sent"]
    ELSE gw[g]

\* a client session that gets the answer it waits for goes on to its next request
Answered(S) ==
    /\ answered' = answered \cup S
    /\ cur' = [c \in Clients |->
                 IF \E a \in S : a[1] = [client |-> c, sequence |-> cur[c]]
                 THEN cur[c] + 1 ELSE cur[c]]

\* what follows admission in a turn, given the registry and the gateways it left
EndTurn(r, reg, gws) ==
    \E late \in SUBSET {q \in Requests : registry[r][q].live} :
      LET Q == Leaving(r, late)
      IN /\ registry' = [registry EXCEPT ![r] = Abandoned(reg, Q)]
         /\ was_leader' = [was_leader EXCEPT ![r] = lead[r]]
         /\ completed' = [completed EXCEPT ![r] = {}]
         /\ gw' = [g \in Gateways |-> IF gws[g] = gw[g] THEN Forwarded(r, g, Q)
                                       ELSE gws[g]]
         /\ Answered({<<c.req, c.out>> : c \in Outcomes(r)})
         /\ UNCHANGED <<committed, epoch, term, lead, commit, applyVars, failed,
                        restarts>>

\* a turn of a new leader: its barrier is proposed before anything is admitted
StartTerm(r) ==
    /\ Ready(r) /\ lead[r] /\ activation[r].term # term[r] /\ Len(log[r]) < MaxLog
    /\ log' = [log EXCEPT ![r] = Append(@, Barrier(term[r]))]
    /\ activation' = [activation EXCEPT ![r] =
                        [term |-> term[r], index |-> Len(log[r]) + 1]]
    /\ EndTurn(r, registry[r], gw)

\* a turn that admits the command of a gateway
Admit(r, g) ==
    /\ Ready(r) /\ Serving(r) /\ Admissible(r, g) /\ Len(log[r]) < MaxLog
    /\ log' = [log EXCEPT ![r] = Append(@, Proposed(r, g))]
    /\ EndTurn(r, [registry[r] EXCEPT ![gw[g].req] = Registered(r, g)],
               [gw EXCEPT ![g].state = "waiting", ![g].at = r])
    /\ UNCHANGED activation

\* a turn that admits nothing
FinishTurn(r) ==
    /\ Ready(r)
    /\ lead[r] => activation[r].term = term[r]
    /\ activation' = [activation EXCEPT ![r] = IF lead[r] THEN @ ELSE NoPosition]
    /\ EndTurn(r, registry[r], gw)
    /\ UNCHANGED log

(***************************************************************************)
(* The gateways: submit_command_with_identity_and_ack, its retries, and    *)
(* query_original_outcome when an outcome is unknown.  Which request a     *)
(* client sends through which gateway is the client's choice (external).   *)
(***************************************************************************)
Submit(g, c) ==
    /\ gw[g] = Idle /\ cur[c] <= MaxSequence
    /\ gw' = [gw EXCEPT ![g] =
                [state |-> "sent", at |-> None,
                 req |-> [client |-> c, sequence |-> cur[c]],
                 ack |-> IF c \in Acknowledging /\ cur[c] > 1 THEN cur[c] - 1
                         ELSE None]]
    /\ UNCHANGED <<raftVars, applyVars, runtimeVars, failed, restarts, cur, answered>>

\* the attempt timed out, or its replica stopped, and a serving leader is asked
\* for the outcome (admit_outcome_query); the proposal may still apply
QueryOutcome(g, r) ==
    LET out == sm[r].outcome[gw[g].req]
    IN /\ gw[g] # Idle
       /\ Ready(r) /\ Serving(r)
       /\ Answered(IF out = NoOutcome THEN {} ELSE {<<gw[g].req, out>>})
       /\ gw' = [gw EXCEPT ![g] = Idle]
       /\ UNCHANGED <<raftVars, applyVars, runtimeVars, failed, restarts>>

\* the same without an answer: the caller gets REQUEST_OUTCOME_UNKNOWN
OutcomeUnknown(g) ==
    /\ gw[g] # Idle
    /\ gw' = [gw EXCEPT ![g] = Idle]
    /\ UNCHANGED <<raftVars, applyVars, runtimeVars, failed, restarts, cur, answered>>

(***************************************************************************)
(* The process restarts: log and term are durable, the rest is rebuilt     *)
(* from them as the commit index becomes known again.  Restarts are        *)
(* bounded to terms after which another election can follow.               *)
(***************************************************************************)
\* MUTANT: the frontier comes back without the state it stands for
RestartForgetting(r) ==
    /\ restarts < MaxRestarts /\ epoch < MaxTerm
    /\ restarts' = restarts + 1
    /\ lead' = [lead EXCEPT ![r] = FALSE]
    /\ sm' = [sm EXCEPT ![r] = EmptyState]
    /\ UNCHANGED <<committed, epoch, term, log, commit, applied, runtimeVars, failed,
                   clientVars>>

Restart(r) ==
    /\ restarts < MaxRestarts /\ epoch < MaxTerm
    /\ restarts' = restarts + 1
    /\ lead' = [lead EXCEPT ![r] = FALSE]
    /\ commit' = [commit EXCEPT ![r] = 0]
    /\ applied' = [applied EXCEPT ![r] = 0]
    /\ sm' = [sm EXCEPT ![r] = EmptyState]
    /\ registry' = [registry EXCEPT ![r] = [q \in Requests |-> NoEntry]]
    /\ activation' = [activation EXCEPT ![r] = NoPosition]
    /\ was_leader' = [was_leader EXCEPT ![r] = FALSE]
    /\ completed' = [completed EXCEPT ![r] = {}]
    /\ failed' = [failed EXCEPT ![r] = FALSE]
    /\ gw' = [g \in Gateways |-> IF Waits(r, g) THEN Idle ELSE gw[g]]
    /\ UNCHANGED <<committed, epoch, term, log, cur, answered>>

Next ==
    \/ \E r \in Replicas :
         \/ Elect(r) \/ AdvanceCommit(r)
         \/ ApplyBarrier(r) \/ ApplyCommand(r) \/ ApplyMismatch(r)
         \/ StepDown(r) \/ AppendEntries(r)
         \/ StartTerm(r) \/ FinishTurn(r) \/ Restart(r)
         \/ \E g \in Gateways : Admit(r, g)
         \/ \E l \in Replicas : InstallSnapshot(r, l)
    \/ \E g \in Gateways :
         \/ \E c \in Clients : Submit(g, c)
         \/ OutcomeUnknown(g)
         \/ \E r \in Replicas : QueryOutcome(g, r)

Spec == Init /\ [][Next]_vars

(***************************************************************************)
(* Properties                                                              *)
(***************************************************************************)
Entries == [term : Nat, env : Envelopes \cup {NoEnvelope}]

Sent == [state : {"sent", "waiting"}, at : Replicas \cup {None}, req : Requests,
         ack : Acks]

FrontiersOK ==
    /\ committed \in Seq(Entries)
    /\ epoch \in Nat
    /\ term \in [Replicas -> Nat]
    /\ lead \in [Replicas -> BOOLEAN]
    /\ log \in [Replicas -> Seq(Entries)]
    /\ commit \in [Replicas -> Nat]
    /\ applied \in [Replicas -> Nat]
    /\ \A r \in Replicas : /\ applied[r] <= commit[r]
                            /\ commit[r] <= Len(log[r])
                            /\ commit[r] <= Len(committed)

Waiter == [term : Nat, index : Nat, live : BOOLEAN, gateway : Gateways \cup {None}]

Completion == [gateway : Gateways, req : Requests, out : Results]

WaitersOK ==
    /\ registry \in [Replicas -> [Requests -> Waiter]]
    /\ \A r \in Replicas : \A q \in Requests :
         registry[r][q].live => registry[r][q].gateway \in Gateways
    /\ completed \in [Replicas -> SUBSET Completion]
    /\ gw \in [Gateways -> {Idle} \cup Sent]
    /\ cur \in [Clients -> 1..(MaxSequence + 1)]

\* Types, and the order of the frontiers of a replica (`AppliedRaftFrontier`).
TypeOK == FrontiersOK /\ sm \in [Replicas -> States] /\ WaitersOK

\* A command is executed at most once, whatever positions of the log its retries
\* reached and although acknowledged outcomes are forgotten
\* (`TabletStateMachine::apply`, `apply_retry_horizon`).
AtMostOnce == \A r \in Replicas : ExecutedOnce(sm[r])

\* What a caller is told of a command is what its only execution produced, on
\* every replica (cached outcomes, `publish_committed_command`).
AnswerIsOriginal ==
    \A a \in answered : a[2].kind \in {"applied", "rejected"} =>
        \A r \in Replicas : \A i \in 1..Len(sm[r].executed) :
            sm[r].executed[i].req = a[1] => sm[r].executed[i].out = a[2]

\* A leader of the newest term that serves has applied every answered command:
\* an outcome query or a retry finds it (`refresh_leader_activation`).
ServingLeaderKnowsAnswers ==
    \A r \in Replicas : \A a \in answered :
        /\ Serving(r) /\ Ready(r) /\ term[r] = epoch
        /\ a[2].kind \in {"applied", "rejected"}
        => \E i \in 1..Len(sm[r].executed) : sm[r].executed[i].req = a[1]

\* Replicas with the same frontier hold the same state, also when one of them
\* got it as a snapshot (`restore_from_snapshot`).
ReplicasAgree ==
    \A r, s \in Replicas :
        Ready(r) /\ Ready(s) /\ applied[r] = applied[s] => sm[r] = sm[s]

\* A waiter of the current term can only meet its own entry: the commands that
\* are still to be applied hold its request at its position and nowhere else.
WaiterMeetsItsEntry ==
    \A r \in Replicas : \A q \in Requests :
        lead[r] /\ registry[r][q].live /\ registry[r][q].term = term[r] =>
            \A i \in (applied[r] + 1)..Len(log[r]) :
                log[r][i].env.req = q => i = registry[r][q].index

\* A client is never told REQUEST_ID_EXPIRED, or that its acknowledgement went
\* backwards, for the request it is waiting for.
NoLiveRequestExpires ==
    [][\A a \in answered' \ answered :
          a[2].kind \in {"expired", "regressed"} => a[1].sequence < cur[a[1].client]]_vars

\* Retrying a request under its identity never stops a replica: "Expiration must
\* release the waiter while retaining the request ID reservation" so that an
\* apply does not "resolve against the wrong proposal and quarantine the group"
\* (proposal_registry.rs tests).
NeverQuarantined == \A r \in Replicas : ~failed[r]
=============================================================================
