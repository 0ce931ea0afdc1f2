----------------------------- MODULE TabletReads -----------------------------
(***************************************************************************)
(* Latest reads of one replicated tablet: the turn of its reactor          *)
(* (ReadyOwner::run_turn), leader activation, read barriers confirmed by   *)
(* Raft ReadIndex, the log barrier that replaces an unconfirmed one,       *)
(* admission and batching of commands, deadlines, loss of leadership and   *)
(* the forwarding of completions.                                          *)
(*                                                                         *)
(* The Raft core is external and kept to what its caller sees of it:       *)
(* terms, who believes to lead, the chosen prefix, the proposals of a      *)
(* leader that are not chosen yet, and ReadIndex rounds whose              *)
(* confirmations travel for as long as they like.  core[n] is the Raft     *)
(* core of node n, node[n] the state its reactor owns.                     *)
(***************************************************************************)
EXTENDS Integers, Sequences, FiniteSets, SequencesExt, FiniteSetsExt

CONSTANTS
    Nodes,          \* the voters of the tablet's group
    Reactors,       \* those whose reactor is followed; the others only vote
    First,          \* the replica that leads in the first term
    Scenarios,      \* the instances to check, see below
    MaxWaiters,     \* MAX_PENDING_READ_BARRIER_WAITERS
    RequestBudget,  \* TABLET_REQUEST_BUDGET
    BatchLimit,     \* MAX_TABLET_COMMAND_BATCH_COMMANDS
    Capacity        \* requests a mailbox takes (CHANNEL_CAPACITY and its byte budget)

\* A scenario: the requests of clients by kind, each sent at most once - "write",
\* "rpc" (the Rpc reads: point, transaction status, inspection, scan), "handle"
\* (Barrier, then ReadPoint) -, those whose
\* deadline may pass, whether the core may refuse ReadIndex, and bounds on terms
\* and log positions.
ASSUME ReadConstants ==
    /\ First \in Reactors /\ Reactors \subseteq Nodes
    /\ {MaxWaiters, RequestBudget, BatchLimit, Capacity} \subseteq Nat \ {0}
    /\ \A s \in Scenarios :
         /\ \A q \in DOMAIN s.kind : s.kind[q] \in {"write", "rpc", "handle"}
         /\ s.timed \subseteq DOMAIN s.kind /\ s.refusals \subseteq BOOLEAN
         /\ {s.terms, s.indexes} \subseteq Nat \ {0}

VARIABLES
    scenario,   \* the instance at hand
    core,       \* external: the Raft core of each node
    chosen,     \* external: the entries a quorum has accepted for good
    flight,     \* external: confirmations of ReadIndex rounds under way
    node,       \* what the reactor of each node owns
    sent,       \* where each request was sent, and what was acknowledged before
    answers,    \* what each request was answered, in order
    due,        \* requests whose fallback time has come (READ_INDEX_FALLBACK_GRACE)
    late        \* requests whose deadline has passed

coreVars == <<core, chosen, flight>>
vars == <<scenario, core, chosen, flight, node, sent, answers, due, late>>

None == [term |-> 0, index |-> 0]
Requests == UNION {DOMAIN s.kind : s \in Scenarios}
Kind == scenario.kind
Writes == {q \in DOMAIN Kind : Kind[q] = "write"}
Quorums == {Q \in SUBSET Nodes : Cardinality(Q) = Cardinality(Nodes) \div 2 + 1}

\* A log entry: a command batch, or the no-op of a barrier.
CommandEntry(t, batch) == [term |-> t, batch |-> batch, barrier |-> 0]
NoopEntry(t, sequence) == [term |-> t, batch |-> <<>>, barrier |-> sequence]

WritesIn(entries) == UNION {ToSet(entries[i].batch) : i \in DOMAIN entries}

\* A reply; "owed" records what was acknowledged when the read's barrier began.
Ok(seen, owed) == [ok |-> TRUE, seen |-> seen, owed |-> owed]
Failed == [ok |-> FALSE, seen |-> {}, owed |-> {}]

Acknowledged == {w \in Writes : \E i \in DOMAIN answers[w] : answers[w][i].ok}

Init ==
    /\ scenario \in Scenarios
    /\ core = [n \in Nodes |->
                 [term |-> 1, leader |-> n = First, has |-> 1,
                  commit |-> IF n = First THEN 1 ELSE 0, tail |-> <<>>,
                  asked |-> {}, emitted |-> <<>>,
                  active |-> IF n = First THEN 1 ELSE 0]]
    /\ chosen = <<NoopEntry(1, 1)>>
    /\ flight = {}
    /\ node = [n \in Nodes |->
                 [applied |-> IF n = First THEN 1 ELSE 0,
                  wasLeader |-> n = First,
                  activation |-> IF n = First THEN [term |-> 1, index |-> 1] ELSE None,
                  allocator |-> IF n = First THEN [term |-> 1, next |-> 2]
                                ELSE [term |-> 0, next |-> 0],
                  barriers |-> <<>>, states |-> <<>>, clients |-> <<>>,
                  queue |-> <<>>, context |-> 1]]
    /\ sent = [q \in Requests |-> [at |-> First, since |-> {}, owed |-> {}, stage |-> "unsent"]]
    /\ answers = [q \in Requests |-> <<>>]
    /\ due = {} /\ late = {}

(***************************************************************************)
(* The Raft core (external).  Each operator is the effect of one control   *)
(* on the cores and the chosen log, with the condition under which the     *)
(* core does it; the turn that handles the control goes on from there.     *)
(***************************************************************************)
Demoted(c, t) ==
    IF c.term = t THEN c
    ELSE [c EXCEPT !.term = t, !.leader = FALSE, !.tail = <<>>, !.asked = {}, !.active = 0]

\* A candidate with the newest log of a quorum wins the next term.  What an
\* older leader proposed may have reached it.
CanWin(n, Q) ==
    /\ core[n].term < scenario.terms /\ ~core[n].leader /\ n \in Q
    /\ \A q \in Q : core[q].term <= core[n].term /\ core[q].has <= core[n].has
    /\ \A m \in Nodes : core[m].leader => core[m].term <= core[n].term

Reached(n) ==
    {<<>>} \cup {core[m].tail : m \in {k \in Nodes : core[k].leader /\ core[k].has = core[n].has}}

Won(n, Q, tail) ==
    LET t == core[n].term + 1
    IN [m \in Nodes |->
          IF m = n THEN [core[n] EXCEPT !.term = t, !.leader = TRUE, !.tail = tail, !.active = 0]
          ELSE IF m \in Q THEN Demoted(core[m], t) ELSE core[m]]

\* A quorum accepts the leader's log, whose last entry is of its term.
CanCommit(n, Q) ==
    /\ core[n].leader /\ core[n].tail # <<>> /\ n \in Q
    /\ Last(core[n].tail).term = core[n].term
    /\ \A q \in Q : core[q].term <= core[n].term

Committed(n, Q, log) ==
    [m \in Nodes |->
       IF m = n
       THEN [core[n] EXCEPT !.has = Len(log), !.commit = Len(log), !.tail = <<>>]
       ELSE IF m \in Q THEN [Demoted(core[m], core[n].term) EXCEPT !.has = Len(log)]
       ELSE core[m]]

\* A follower, or a leader of an older term, hears of a leader and its commit.
Heard(n, l) ==
    [core EXCEPT ![n] =
       [Demoted(@, core[l].term) EXCEPT !.has = Max({@, core[l].commit}),
                                        !.commit = Max({@, core[l].commit})]]

\* A peer confirms an open round of a leader whose term it has not passed.
Confirm(n, q, r) ==
    LET ack == [to |-> n, from |-> q, term |-> r.term, context |-> r.context]
    IN /\ n # q /\ core[n].leader /\ q \notin r.from
       /\ core[q].term <= r.term /\ ack \notin flight
       /\ core' = [core EXCEPT ![q] = Demoted(@, r.term)]
       /\ flight' = flight \cup {ack}
       /\ UNCHANGED <<scenario, chosen, node, sent, answers, due, late>>

\* The confirmation arrives; with a quorum the round is emitted as a ReadState.
Confirmed(ack) ==
    LET n == ack.to
        open == {r \in core[n].asked : r.term = ack.term /\ r.context = ack.context}
    IN IF ~core[n].leader \/ open = {} THEN core
       ELSE LET r == CHOOSE r \in open : TRUE
                from == r.from \cup {ack.from}
            IN IF \E Q \in Quorums : Q \subseteq from
               THEN [core EXCEPT ![n].asked = @ \ {r},
                       ![n].emitted = Append(@, [term |-> r.term, index |-> r.index,
                                                 context |-> r.context])]
               ELSE [core EXCEPT ![n].asked = (@ \ {r}) \cup {[r EXCEPT !.from = from]}]

(***************************************************************************)
(* One turn of a reactor.  T is the turn in progress: the node's own core  *)
(* and committed log, the state its reactor owns, the replies it has given.*)
(***************************************************************************)
Reply(T, q, reply) == [T EXCEPT !.replies = Append(@, [request |-> q, reply |-> reply])]

ReplyAll(T, qs, reply) == FoldLeft(LAMBDA U, q : Reply(U, q, reply), T, qs)

IsServing(T) ==
    /\ T.core.leader
    /\ T.node.activation.term = T.core.term
    /\ T.node.applied >= T.node.activation.index

\* drain_ready: the committed entries apply, their waiters learn it, and only
\* then are the read states of the core collected.
drain_ready(T) ==
    LET applied == T.core.commit
        Resolved(c) == c.index <= applied /\ T.log[c.index].term = c.term
    IN [T EXCEPT
          !.node.applied = applied,
          !.node.clients = [i \in DOMAIN @ |->
              IF @[i].outcome = "pending" /\ Resolved(@[i])
              THEN [@[i] EXCEPT !.outcome = "applied"] ELSE @[i]],
          !.node.states = @ \o T.core.emitted,
          !.core.emitted = <<>>]

Position(T) == T.core.has + Len(T.core.tail) + 1

Propose(T, entry) == [T EXCEPT !.core.tail = Append(@, entry)]

CanPropose(T) == T.core.leader /\ Position(T) <= scenario.indexes

\* InternalBarrierAllocator::candidate: a term's barriers are one client's
\* requests, numbered from what the tablet has applied of that client.
NextSequenceForClient(T, t) ==
    1 + Cardinality({i \in 1..T.node.applied : T.log[i].term = t /\ T.log[i].barrier > 0})

Candidate(T) ==
    IF T.node.allocator.term = T.core.term THEN T
    ELSE [T EXCEPT !.node.allocator = [term |-> T.core.term,
                                       next |-> NextSequenceForClient(T, T.core.term)]]

RecordAdmission(T) == [T EXCEPT !.node.allocator.next = @ + 1]

ProposeNoop(T) ==
    LET C == Candidate(T)
    IN RecordAdmission(Propose(C, NoopEntry(C.core.term, C.node.allocator.next)))

\* refresh_leader_activation: a leader commits a no-op of its term before it
\* serves, and enables ReadIndex once that no-op has applied.
ActivateAt(T, index) ==
    IF T.node.applied >= index THEN [T EXCEPT !.core.active = T.core.term] ELSE T

refresh_leader_activation(T) ==
    IF ~T.core.leader THEN [T EXCEPT !.node.activation = None]
    ELSE IF T.node.activation.term = T.core.term
    THEN IF T.core.active = T.core.term THEN T ELSE ActivateAt(T, T.node.activation.index)
    ELSE LET D == drain_ready(T)
             at == [term |-> D.core.term, index |-> Position(D)]
         IN IF ~CanPropose(D) THEN D
            ELSE ActivateAt([drain_ready(ProposeNoop(D)) EXCEPT !.node.activation = at],
                            at.index)

(***************************************************************************)
(* Reads: evaluation, log barriers, ReadIndex barriers.                    *)
(***************************************************************************)
evaluate_read(T, q, serving, owed) ==
    IF q \in late \/ ~serving THEN Reply(T, q, Failed)
    ELSE Reply(T, q, Ok(WritesIn(SubSeq(T.log, 1, T.node.applied)), owed))

\* The barrier of a handle is answered as such; an RPC read is evaluated at once.
complete_read_barrier_reply(T, q, passed, serving, owed) ==
    IF ~passed THEN Reply(T, q, Failed)
    ELSE IF Kind[q] = "handle" THEN Reply(T, q, Ok({}, owed))
    ELSE evaluate_read(T, q, serving, owed)

Register(T, batch, index) ==
    [T EXCEPT !.node.clients = @ \o
        [i \in DOMAIN batch |-> [request |-> batch[i], term |-> T.core.term, index |-> index,
                                 outcome |-> "pending", owed |-> Acknowledged]]]

\* admit_request of a Barrier: a no-op through the log
AdmitLogBarrier(T, q, serving) ==
    IF ~CanPropose(T) \/ ~serving THEN Reply(T, q, Failed)
    ELSE Register(ProposeNoop(T), <<q>>, Position(T))

WaiterCount(T) == FoldLeft(LAMBDA k, b : k + Len(b.waiters), 0, T.node.barriers)

BarrierOfTerm(T) == {i \in DOMAIN T.node.barriers : T.node.barriers[i].term = T.core.term}

\* A read joins the open barrier of the term, or opens one with a ReadIndex
\* round; a core that refuses the round leaves the log barrier.
OpenBarrier(T, n, q) ==
    LET round == [term |-> T.core.term, context |-> T.node.context,
                  index |-> T.core.commit, from |-> {n}]
    IN [T EXCEPT !.core.asked = @ \cup {round},
                 !.node.context = @ + 1,
                 !.node.barriers = Append(@, [term |-> T.core.term, context |-> T.node.context,
                                             waiters |-> <<q>>, since |-> Acknowledged])]

JoinBarrier(T, i, q) == [T EXCEPT !.node.barriers[i].waiters = Append(@, q)]

\* MUTANT: a leader answers from its own state, without asking a quorum
AdmitUnconfirmed(T, n, q, serving, refused) ==
    complete_read_barrier_reply(T, q, q \notin late /\ serving, serving, Acknowledged)

admit_read_barrier(T, n, q, serving, refused) ==
    IF q \in late \/ ~serving \/ WaiterCount(T) >= MaxWaiters THEN Reply(T, q, Failed)
    ELSE IF BarrierOfTerm(T) # {} THEN JoinBarrier(T, Min(BarrierOfTerm(T)), q)
    ELSE IF refused \/ T.core.active # T.core.term THEN AdmitLogBarrier(T, q, serving)
    ELSE OpenBarrier(T, n, q)

\* process_pending_read_states, for one state: late or foreign ones are dropped,
\* a state ahead of the applied frontier is kept, the others release the waiters.
ReleaseWaiters(T, i, serving, passed) ==
    LET b == T.node.barriers[i]
    IN FoldLeft(LAMBDA U, q : complete_read_barrier_reply(U, q, passed /\ q \notin late,
                                                          serving, b.since),
                [T EXCEPT !.node.barriers = RemoveAt(@, i)], b.waiters)

ProcessReadState(T, s, serving) ==
    LET found == {i \in DOMAIN T.node.barriers :
                    T.node.barriers[i].term = s.term /\ T.node.barriers[i].context = s.context}
    IN IF found = {} THEN T
       ELSE IF ~T.core.leader \/ s.term # T.core.term
       THEN ReleaseWaiters(T, Min(found), serving, FALSE)
       ELSE IF T.node.applied < s.index
       THEN [T EXCEPT !.node.states = Append(@, s)]
       ELSE ReleaseWaiters(T, Min(found), serving, TRUE)

process_pending_read_states(T, serving) ==
    FoldLeft(LAMBDA U, s : ProcessReadState(U, s, serving),
             [T EXCEPT !.node.states = <<>>], T.node.states)

reject_pending_read_barriers(T) ==
    FoldLeft(LAMBDA U, b : ReplyAll(U, b.waiters, Failed),
             [T EXCEPT !.node.states = <<>>, !.node.barriers = <<>>], T.node.barriers)

\* MUTANT: only the first waiter goes on to the log
FallBackForgetting(T, b, serving) ==
    LET U == ReplyAll(T, SelectSeq(b.waiters, LAMBDA q : q \in late), Failed)
        live == SelectSeq(b.waiters, LAMBDA q : q \notin late)
    IN IF live = <<>> THEN U
       ELSE IF ToSet(b.waiters) \cap due = {}
       THEN [U EXCEPT !.node.barriers = Append(@, [b EXCEPT !.waiters = live])]
       ELSE AdmitLogBarrier(U, Head(live), serving)

\* fallback_pending_read_barriers, for one barrier
FallBack(T, b, serving) ==
    LET U == ReplyAll(T, SelectSeq(b.waiters, LAMBDA q : q \in late), Failed)
        live == SelectSeq(b.waiters, LAMBDA q : q \notin late)
    IN IF live = <<>> THEN U
       ELSE IF ToSet(b.waiters) \cap due = {}
       THEN [U EXCEPT !.node.barriers = Append(@, [b EXCEPT !.waiters = live])]
       ELSE FoldLeft(LAMBDA V, q : AdmitLogBarrier(V, q, serving), U, live)

fallback_pending_read_barriers(T, serving) ==
    IF ~T.core.leader \/ \E i \in DOMAIN T.node.barriers : T.node.barriers[i].term # T.core.term
    THEN reject_pending_read_barriers(T)
    ELSE FoldLeft(LAMBDA U, b : FallBack(U, b, serving),
                  [T EXCEPT !.node.barriers = <<>>], T.node.barriers)

(***************************************************************************)
(* Admission of queued requests.  Consecutive commands share one entry; a  *)
(* read between them, or a command near its deadline, ends the batch and   *)
(* is handled next.                                                        *)
(***************************************************************************)
Pop(T) == [T EXCEPT !.node.queue = Tail(@)]

RECURSIVE CollectBatch(_, _, _, _)
CollectBatch(T, batch, left, serving) ==
    IF left = 0 \/ Len(batch) = BatchLimit \/ T.node.queue = <<>> \/ Head(batch) \in due
    THEN [turn |-> T, batch |-> batch, left |-> left]
    ELSE LET q == Head(T.node.queue)
         IN IF Kind[q] # "write"
            THEN [turn |-> T, batch |-> batch, left |-> left - 1]
            ELSE IF q \in late
            THEN CollectBatch(Reply(Pop(T), q, Failed), batch, left - 1, serving)
            ELSE IF q \in due
            THEN [turn |-> T, batch |-> batch, left |-> left - 1]
            ELSE CollectBatch(Pop(T), Append(batch, q), left - 1, serving)

AdmitBatch(T, batch) ==
    IF ~CanPropose(T) THEN ReplyAll(T, batch, Failed)
    ELSE Register(Propose(T, CommandEntry(T.core.term, batch)), batch, Position(T))

AdmitRead(T, n, q, serving, refused) ==
    IF sent[q].stage = "point" THEN evaluate_read(T, q, serving, sent[q].owed)
    ELSE admit_read_barrier(T, n, q, serving, refused)

RECURSIVE AdmitRequests(_, _, _, _, _)
AdmitRequests(T, n, left, serving, refused) ==
    IF left = 0 \/ T.node.queue = <<>> THEN T
    ELSE LET q == Head(T.node.queue)
             U == Pop(T)
         IN IF Kind[q] # "write"
            THEN AdmitRequests(drain_ready(AdmitRead(U, n, q, serving, refused)), n, left - 1,
                               serving, refused)
            ELSE IF ~serving \/ q \in late
            THEN AdmitRequests(Reply(U, q, Failed), n, left - 1, serving, refused)
            ELSE LET c == CollectBatch(U, <<q>>, left - 1, serving)
                 IN AdmitRequests(drain_ready(AdmitBatch(c.turn, c.batch)), n, c.left, serving,
                                  refused)

(***************************************************************************)
(* The end of a turn: deadlines, loss of leadership, completions.          *)
(***************************************************************************)
Abandon(T, Left(_)) ==
    [T EXCEPT !.node.clients =
        [i \in DOMAIN @ |-> IF @[i].outcome = "pending" /\ Left(@[i])
                            THEN [@[i] EXCEPT !.outcome = "retryable"] ELSE @[i]]]

\* MUTANT: a waiter is kept until its entry applies
ExpireNothing(T) == T

expire_deadlines(T) == Abandon(T, LAMBDA c : c.request \in late)

ObserveLeadership(T) ==
    LET lost == T.node.wasLeader /\ ~T.core.leader
        U == IF lost
             THEN reject_pending_read_barriers(
                    [Abandon(T, LAMBDA c : TRUE) EXCEPT
                        !.node.activation = None,
                        !.node.allocator = [term |-> 0, next |-> 0]])
             ELSE T
    IN [U EXCEPT !.node.wasLeader = T.core.leader]

forward_completion(T, c, serving) ==
    IF c.outcome = "retryable" THEN Reply(T, c.request, Failed)
    ELSE IF Kind[c.request] = "rpc" THEN evaluate_read(T, c.request, serving, c.owed)
    ELSE Reply(T, c.request, Ok({}, c.owed))

forward_completions(T, serving) ==
    FoldLeft(LAMBDA U, c : forward_completion(U, c, serving),
             [T EXCEPT !.node.clients = SelectSeq(@, LAMBDA c : c.outcome = "pending")],
             SelectSeq(T.node.clients, LAMBDA c : c.outcome # "pending"))

run_turn(n, c, log, refused) ==
    LET begun     == refresh_leader_activation(
                       [core |-> c, log |-> log, node |-> node[n], replies |-> <<>>])
        serving   == IsServing(begun)
        drained   == process_pending_read_states(drain_ready(begun), serving)
        fallen    == fallback_pending_read_barriers(drained, serving)
        admitted  == process_pending_read_states(
                       AdmitRequests(fallen, n, RequestBudget, serving, refused), serving)
        observed  == ObserveLeadership(expire_deadlines(admitted))
    IN forward_completions(observed, IsServing(observed))

\* A passed barrier of a handle lets its caller go on; other replies are final.
Passed(r) == r.reply.ok /\ Kind[r.request] = "handle" /\ sent[r.request].stage = "barrier"

Given(replies, q) ==
    LET final == SelectSeq(replies, LAMBDA r : r.request = q /\ ~Passed(r))
    IN [i \in DOMAIN final |-> final[i].reply]

\* The turn of node n that follows a control which left cores and log behind.
TurnAfter(n, cores, log) ==
    \E T \in {run_turn(n, cores[n], log, refused) : refused \in scenario.refusals} :
      LET passed == SelectSeq(T.replies, Passed)
      IN /\ core' = [cores EXCEPT ![n] = T.core]
         /\ chosen' = log
         /\ node' = [node EXCEPT ![n] = T.node]
         /\ answers' = [q \in Requests |-> answers[q] \o Given(T.replies, q)]
         /\ sent' = [q \in Requests |->
                       LET mine == SelectSeq(passed, LAMBDA r : r.request = q)
                       IN IF mine = <<>> THEN sent[q]
                          ELSE [sent[q] EXCEPT !.stage = "passed", !.owed = mine[1].reply.owed]]
         /\ UNCHANGED <<scenario, due, late>>

Turn(n) == TurnAfter(n, core, chosen) /\ UNCHANGED flight

Elect(n, Q) ==
    /\ CanWin(n, Q)
    /\ \E tail \in Reached(n) : TurnAfter(n, Won(n, Q, tail), chosen)
    /\ UNCHANGED flight

Commit(n, Q) ==
    /\ CanCommit(n, Q)
    /\ LET log == chosen \o core[n].tail IN TurnAfter(n, Committed(n, Q, log), log)
    /\ UNCHANGED flight

Hear(n, l) ==
    /\ n # l /\ core[l].leader /\ core[n].term <= core[l].term
    /\ Heard(n, l) # core
    /\ TurnAfter(n, Heard(n, l), chosen)
    /\ UNCHANGED flight

Arrive(ack) ==
    /\ flight' = flight \ {ack}
    /\ TurnAfter(ack.to, Confirmed(ack), chosen)

(***************************************************************************)
(* The callers of a tablet handle, and time.                               *)
(***************************************************************************)
\* A full mailbox refuses the request, and its caller is told at once.
Enqueue(n, q) ==
    IF Len(node[n].queue) < Capacity
    THEN node' = [node EXCEPT ![n].queue = Append(@, q)] /\ UNCHANGED answers
    ELSE answers' = [answers EXCEPT ![q] = Append(@, Failed)] /\ UNCHANGED node

\* submit_command, enqueue_rpc_read_point, read_barrier_until; callers follow
\* leader hints, which may be stale
Submit(q, n) ==
    /\ q \in DOMAIN Kind /\ sent[q].stage = "unsent" /\ (node[n].wasLeader \/ core[n].leader)
    /\ sent' = [sent EXCEPT ![q] = [@ EXCEPT !.at = n, !.since = Acknowledged,
                                            !.stage = "barrier"]]
    /\ Enqueue(n, q)
    /\ UNCHANGED <<scenario, coreVars, due, late>>

\* read_point_until, after the barrier of the same handle; a caller whose
\* deadline has passed gives up by itself
ReadPoint(q) ==
    /\ sent[q].stage = "passed"
    /\ sent' = [sent EXCEPT ![q].stage = "point"]
    /\ IF q \in late
       THEN answers' = [answers EXCEPT ![q] = Append(@, Failed)] /\ UNCHANGED node
       ELSE Enqueue(sent[q].at, q)
    /\ UNCHANGED <<scenario, coreVars, due, late>>

Open(q) == sent[q].stage # "unsent" /\ answers[q] = <<>>

NearDeadline(q) ==
    /\ Open(q) /\ q \in scenario.timed \ due
    /\ due' = due \cup {q}
    /\ UNCHANGED <<scenario, coreVars, node, sent, answers, late>>

PassDeadline(q) ==
    /\ Open(q) /\ q \in due /\ q \notin late
    /\ late' = late \cup {q}
    /\ UNCHANGED <<scenario, coreVars, node, sent, answers, due>>

Next ==
    \/ \E n \in Reactors : Turn(n)
    \/ \E n \in Reactors, Q \in Quorums : Elect(n, Q)
    \/ \E n \in Reactors, Q \in Quorums : Commit(n, Q)
    \/ \E n, l \in Reactors : Hear(n, l)
    \/ \E n \in Reactors, q \in Nodes : \E r \in core[n].asked : Confirm(n, q, r)
    \/ \E ack \in flight : Arrive(ack)
    \/ \E q \in Requests, n \in Reactors : Submit(q, n)
    \/ \E q \in Requests : ReadPoint(q)
    \/ \E q \in Requests : NearDeadline(q)
    \/ \E q \in Requests : PassDeadline(q)

Spec == Init /\ [][Next]_vars

(***************************************************************************)
(* Properties.                                                             *)
(***************************************************************************)
\* A read that is answered has seen every write that any leader had
\* acknowledged when the barrier it waited for began (its own ReadIndex round,
\* the round it joined, or its no-op in the log): a deposed leader that does
\* not know it yet never answers from an older state.
BarrierReadsAreFresh ==
    \A q \in Requests \ Writes : \A i \in DOMAIN answers[q] :
        answers[q][i].ok => answers[q][i].owed \subseteq answers[q][i].seen

\* Every request is answered once, and until then is in exactly one place: the
\* queue, a barrier's waiters, the proposals awaiting apply, or its caller
\* (between the barrier and the point read of a handle).  Falling back, joining,
\* batching, losing leadership and expiring all hand requests over.
RequestsAreNeverLost ==
    \A q \in Requests : sent[q].stage # "unsent" =>
        LET n == node[sent[q].at]
            Count(S) == Cardinality(S)
        IN Len(answers[q]) + Count({i \in DOMAIN n.queue : n.queue[i] = q})
           + Count({<<i, j>> \in (DOMAIN n.barriers) \X (1..MaxWaiters) :
                      j \in DOMAIN n.barriers[i].waiters /\ n.barriers[i].waiters[j] = q})
           + Count({i \in DOMAIN n.clients : n.clients[i].request = q})
           + (IF sent[q].stage = "passed" THEN 1 ELSE 0) = 1

\* No request outlives its deadline by more than its turn: whatever has become of
\* the leader, its round or its entry, the next turn of its node answers a late
\* request or brings it nearer to the head of the queue.  The host ticks every
\* group for ever, so every request with a deadline is answered in the end.
LateRequestsAreAnswered ==
    \A q \in late : Open(q) /\ sent[q].stage # "passed" =>
        LET n == sent[q].at
            T == run_turn(n, core[n], chosen, FALSE)
            Place(queue) == {i \in DOMAIN queue : queue[i] = q}
        IN \/ \E i \in DOMAIN T.replies : T.replies[i].request = q
           \/ \E i \in Place(node[n].queue), j \in Place(T.node.queue) : j < i

\* What the documentation says of latest reads: a read sees every write that
\* was acknowledged before the read was sent.
LatestReadsAreLinearizable ==
    \A q \in Requests \ Writes : \A i \in DOMAIN answers[q] :
        answers[q][i].ok => sent[q].since \subseteq answers[q][i].seen
=============================================================================
