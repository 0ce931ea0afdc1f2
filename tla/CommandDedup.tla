---------------------------- MODULE CommandDedup ----------------------------
(***************************************************************************)
(* What a tablet's replicated state machine keeps of the commands it has   *)
(* applied: the cached outcome of each logical command, and per client     *)
(* session the floor through which the client has acknowledged.            *)
(*                                                                         *)
(* A logical command is named by its client and request sequence (one      *)
(* session epoch, one command per request).  What a command does to the    *)
(* rows is abstracted to its place in the order of execution, so that a    *)
(* second execution would have another result; commands of Conflicting     *)
(* lose against whatever executed before them.                             *)
(***************************************************************************)
EXTENDS Integers, Sequences

CONSTANTS Clients,     \* client sessions
          MaxSequence, \* requests of one session
          Conflicting  \* commands rejected with WriteConflict if not first

ASSUME DedupAssumption == MaxSequence \in Nat

Requests == [client : Clients, sequence : 1..MaxSequence]

None == -1  \* Option::None of acknowledged_through, and a session without floor

Acks == {None} \cup 0..MaxSequence

Envelopes == [req : Requests, ack : Acks]

Applied(n) == [kind |-> "applied", result |-> n]
Answer(k)  == [kind |-> k, result |-> 0]
NoOutcome  == Answer("none")

Results == [kind : {"none", "applied", "rejected", "expired", "regressed"},
            result : Nat]

Executions == [req : Requests, out : Results]

States == [outcome : [Requests -> Results], floor : [Clients -> Int],
           executed : Seq(Executions)]

EmptyState ==
    [outcome |-> [q \in Requests |-> NoOutcome],   \* logical_command_deduplication
     floor   |-> [c \in Clients |-> None],         \* logical_client_retry_horizons
     executed |-> << >>]                           \* what dispatch_command has done

\* MUTANT: outcomes are dropped and the floor is not raised
RaiseFloorForgetting(sm, c, ack) ==
    [sm EXCEPT !.outcome = [q \in Requests |->
                              IF q.client = c /\ q.sequence <= ack
                              THEN NoOutcome ELSE sm.outcome[q]]]

\* apply_retry_horizon past its checks: the floor moves and what it covers goes
RaiseFloor(sm, c, ack) ==
    [sm EXCEPT !.floor[c] = ack,
               !.outcome = [q \in Requests |->
                              IF q.client = c /\ q.sequence <= ack
                              THEN NoOutcome ELSE sm.outcome[q]]]

Horizon(sm, env) ==
    IF env.ack = None \/ env.ack = sm.floor[env.req.client]
    THEN sm ELSE RaiseFloor(sm, env.req.client, env.ack)

\* dispatch_command
Dispatch(sm, q) ==
    IF q \in Conflicting /\ sm.executed # << >>
    THEN Answer("rejected") ELSE Applied(Len(sm.executed) + 1)

Execute(sm, q) ==
    LET out == Dispatch(sm, q)
    IN [sm EXCEPT !.outcome[q] = out,
                  !.executed = Append(@, [req |-> q, out |-> out])]

\* MUTANT: the client's own sequence counts as acknowledged one too early
ExpiredEarly(sm, q) == q.sequence <= sm.floor[q.client] + 1

Expired(sm, q) == q.sequence <= sm.floor[q.client]

\* TabletStateMachine::apply of a command with a logical identity: the next
\* state and what the waiter is told
Apply(sm, env) ==
    LET next == Horizon(sm, env)
        told(state, out) == [sm |-> state, out |-> out]
    IN IF env.ack # None /\ env.ack < sm.floor[env.req.client]
       THEN told(sm, Answer("regressed"))
       ELSE IF Expired(next, env.req) THEN told(next, Answer("expired"))
       ELSE IF next.outcome[env.req] # NoOutcome
       THEN told(next, next.outcome[env.req])
       ELSE told(Execute(next, env.req), Dispatch(next, env.req))

\* restore_from_snapshot of encode_snapshot_state, with the rows of the image
Restored(sm) ==
    [outcome |-> sm.outcome, floor |-> sm.floor, executed |-> sm.executed]

\* An executed command is remembered by its outcome or covered by the floor.
Covered(sm) ==
    \A i \in 1..Len(sm.executed) :
        \/ sm.outcome[sm.executed[i].req] # NoOutcome
        \/ sm.executed[i].req.sequence <= sm.floor[sm.executed[i].req.client]

\* No command is executed twice by this state (see AtMostOnce).
ExecutedOnce(sm) ==
    \A i, j \in 1..Len(sm.executed) :
        i # j => sm.executed[i].req # sm.executed[j].req
=============================================================================
