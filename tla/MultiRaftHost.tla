---------------------------- MODULE MultiRaftHost ----------------------------
(***************************************************************************)
(* The host of one node: one thread that drives every local Raft group, a  *)
(* worker that writes their records to the node's shared log, and the      *)
(* reactors of the tablets.                                                *)
(*                                                                         *)
(* The host thread alternates between direct operations (a message is      *)
(* queued, the metadata group proposes, a replica is added or tombstoned)  *)
(* and bounded turns.  A turn expires timers, services runnable groups one *)
(* after the other, hands the outcome of the last batch to its groups and  *)
(* gives the worker the next batch.  The worker and the reactors run       *)
(* beside it.                                                              *)
(*                                                                         *)
(* Two kinds of group exist.  A tablet is a proxy: it forwards one         *)
(* operation at a time to its reactor and polls for the answer.  Any other *)
(* group (the metadata group) is a Ready loop: its Raft core produces a    *)
(* Ready generation, the loop prepares its records, the worker makes them  *)
(* durable, and only then are its messages released and entries applied.   *)
(***************************************************************************)
EXTENDS Integers, Sequences, SequencesExt, FiniteSets, FiniteSetsExt, FiniteSetsExt

CONSTANTS Groups,            \* Raft groups with a replica on this node
          Tablets,           \* those driven through a reactor
          Passive,           \* those whose replica is still joining: no timer
          Identities,        \* <<group, replica>>: the lifetimes the groups have here
          Recovered,         \* identities found by the scan of the shared log
          MaxGroupQueue,     \* max_pending_group_messages
          MaxQueue,          \* max_pending_messages
          GroupBudget,       \* max_groups of a turn
          MessageBudget,     \* max_messages of a turn
          MaxStaged,         \* max_pending_persistence_groups
          MaxArrivals,       \* bound on the messages received for one group
          MaxGenerations,    \* bound on the Ready generations of one group
          MaxFaults,         \* bound on the failures of the log, reactors and groups
          None

ASSUME HostAssumption ==
    /\ Tablets \subseteq Groups /\ Passive \subseteq Groups
    /\ \A i \in Identities : i[1] \in Groups
    /\ Recovered \subseteq Identities
    /\ \A g \in Groups : Cardinality({i \in Recovered : i[1] = g}) <= 1
    /\ GroupBudget \in Nat \ {0} /\ MessageBudget \in Nat \ {0}

VARIABLES
    state,             \* HostState
    recovery_required, \* the fence of the shared log
    pending_recovered, \* recovered identities not yet accounted for
    issued_writers,    \* identities that own a log handle
    tombstoned,        \* identities fenced for ever
    hosted,            \* group -> identity it runs, or None
    quarantined,       \* groups stopped for the rest of the process
    runnable,          \* the two lanes of the runnable queue
    armed,             \* groups in the timer wheel
    timer_due,         \* groups whose timer expired and was not delivered yet
    messages,          \* group -> lane -> number of queued messages
    pending_count,     \* pending_message_count
    work,              \* group -> what it has left to do
    staged,            \* the service's queue of prepared generations
    in_flight,         \* the batch the worker has, or None
    completion,        \* what the worker left for the host, or None
    pc,                \* where the host thread is
    serviced,          \* groups serviced in this turn
    processed,         \* messages stepped in this turn
    outbox,            \* generations whose messages this turn collects; None: it fails
    arrivals,          \* messages received so far
    generation,        \* Ready generations of each group so far
    durable,           \* generations whose records are in the log for certain
    sent,              \* generations whose messages left the node
    faults

registry == <<pending_recovered, issued_writers, tombstoned, hosted>>
queues == <<runnable, armed, timer_due, messages, pending_count>>
service == <<staged, in_flight, completion>>
turn == <<pc, serviced, processed, outbox>>
history == <<arrivals, generation, durable, sent, faults>>
vars == <<state, recovery_required, registry, quarantined, queues, work, service, turn, history>>

NoMessages == [control |-> 0, bulk |-> 0]

Init ==
    /\ state = "Registering"
    /\ recovery_required = FALSE
    /\ pending_recovered = Recovered
    /\ issued_writers = {}
    /\ tombstoned = {}
    /\ hosted = [g \in Groups |-> None]
    /\ quarantined = {}
    /\ runnable = [control |-> <<>>, bulk |-> <<>>]
    /\ armed = {} /\ timer_due = {}
    /\ messages = [g \in Groups |-> NoMessages]
    /\ pending_count = 0
    /\ work = [g \in Groups |-> {}]
    /\ staged = <<>> /\ in_flight = None /\ completion = None
    /\ pc = "between" /\ serviced = 0 /\ processed = 0 /\ outbox = {}
    /\ arrivals = 0
    /\ generation = [g \in Groups |-> 0]
    /\ durable = {} /\ sent = {}
    /\ faults = 0

----------------------------------------------------------------------------
(***************************************************************************)
(* Startup: every recovered identity is accounted for before the host runs.*)
(***************************************************************************)
Registering == state = "Registering" /\ ~recovery_required

IssueGroupWriter(i) ==
    /\ Registering
    /\ i \notin tombstoned \cup issued_writers
    /\ issued_writers' = issued_writers \cup {i}
    /\ UNCHANGED <<state, recovery_required, pending_recovered, tombstoned, hosted,
                   quarantined, queues, work, service, turn, history>>

\* register_new_group and register_recovered_group: which one applies to an
\* identity depends on whether the scan found it.
RegisterGroup(i) ==
    /\ Registering
    /\ i \in issued_writers \ tombstoned
    /\ hosted[i[1]] = None
    /\ hosted' = [hosted EXCEPT ![i[1]] = i]
    /\ pending_recovered' = pending_recovered \ {i}
    /\ UNCHANGED <<state, recovery_required, issued_writers, tombstoned, quarantined, queues,
                   work, service, turn, history>>

\* A lifetime that only counts for the retention of the log.
RegisterInactive(i) ==
    /\ Registering
    /\ i \in issued_writers \cap pending_recovered
    /\ pending_recovered' = pending_recovered \ {i}
    /\ UNCHANGED <<state, recovery_required, issued_writers, tombstoned, hosted, quarantined,
                   queues, work, service, turn, history>>

\* A lifetime that is fenced; its callers pass none that they materialised.
RegisterTombstoned(i) ==
    /\ Registering
    /\ i \in issued_writers
    /\ hosted[i[1]] # i
    /\ pending_recovered' = pending_recovered \ {i}
    /\ tombstoned' = tombstoned \cup {i}
    /\ UNCHANGED <<state, recovery_required, issued_writers, hosted, quarantined, queues,
                   work, service, turn, history>>

\* The host starts and seeds the timer of every group.
Activate ==
    /\ Registering
    /\ pending_recovered = {}
    /\ state' = "Active"
    /\ armed' = {g \in Groups : hosted[g] # None}
    /\ UNCHANGED <<recovery_required, registry, quarantined, runnable, timer_due, messages,
                   pending_count, work, service, turn, history>>

----------------------------------------------------------------------------
(***************************************************************************)
(* The scheduler's queues.                                                 *)
(***************************************************************************)
Enqueue(r, g) ==
    IF Contains(r.control \o r.bulk, g) THEN r ELSE [r EXCEPT !.bulk = Append(@, g)]

EnqueueControl(r, g) ==
    IF Contains(r.control, g) THEN r
    ELSE [control |-> Append(r.control, g), bulk |-> Remove(r.bulk, g)]

Without(r, g) == [control |-> Remove(r.control, g), bulk |-> Remove(r.bulk, g)]

Idle == runnable.control \o runnable.bulk = <<>>
Popped == Head(runnable.control \o runnable.bulk)

Queued(m, g) == m[g].control + m[g].bulk
Lane(m, g) == IF m[g].control > 0 THEN "control" ELSE "bulk"
EnqueueFor(r, m, g) ==
    IF Lane(m, g) = "control" THEN EnqueueControl(r, g) ELSE Enqueue(r, g)

\* reschedule_after_turn: a group with messages or unfinished work stays runnable.
Rescheduled(r, m, w, g) ==
    IF Queued(m, g) > 0 \/ w[g] # {} THEN EnqueueFor(r, m, g) ELSE r

Rearmed(a, g, rearm) ==
    IF ~rearm THEN a ELSE IF g \in Passive THEN a \ {g} ELSE a \cup {g}

\* The prepared generation of a group is with the persistence service.
Batch(b) == IF b = None THEN <<>> ELSE b
Contained == {p.group : p \in ToSet(staged \o Batch(in_flight))}
Current(g) == <<g, generation[g]>>

EnsureActive == state = "Active" /\ ~(recovery_required /\ in_flight = None)
Schedulable(g) == hosted[g] # None /\ g \notin quarantined

----------------------------------------------------------------------------
(***************************************************************************)
(* Direct operations, between two turns.                                   *)
(***************************************************************************)
Between == pc = "between" /\ EnsureActive

\* enqueue_message: validated, bounded, and its group made runnable.
EnqueueMessage(g, lane) ==
    /\ Between
    /\ Schedulable(g)
    /\ arrivals < MaxArrivals
    /\ Queued(messages, g) < MaxGroupQueue
    /\ pending_count < MaxQueue
    /\ messages' = [messages EXCEPT ![g][lane] = @ + 1]
    /\ pending_count' = pending_count + 1
    /\ arrivals' = arrivals + 1
    /\ runnable' = IF lane = "control" THEN EnqueueControl(runnable, g)
                                       ELSE Enqueue(runnable, g)
    /\ UNCHANGED <<state, recovery_required, registry, quarantined, armed, timer_due, work,
                   service, turn, generation, durable, sent, faults>>

\* propose and propose_conf_change of a Ready loop: the loop first drains one
\* generation or one apply bundle, then proposes and drains again, writing to the
\* log itself.  left is what remains to do afterwards.
Propose(g, left) ==
    /\ Between
    /\ g \notin Tablets
    /\ Schedulable(g)
    /\ "prepared" \notin work[g]
    /\ ~recovery_required
    /\ generation[g] < MaxGenerations
    /\ generation' = [generation EXCEPT ![g] = @ + 1]
    /\ durable' = durable \cup {Current(g)'}
    /\ sent' = sent \cup {Current(g)'}
    /\ work' = [work EXCEPT ![g] = left]
    /\ runnable' = Rescheduled(runnable, messages, work', g)
    /\ UNCHANGED <<state, recovery_required, registry, quarantined, armed, timer_due, messages,
                   pending_count, service, turn, arrivals, faults>>

\* The drain did something and the proposal was refused: not the leader, or work
\* is left.  Nothing is rescheduled.
ProposeRefused(g) ==
    /\ Between
    /\ g \notin Tablets
    /\ Schedulable(g)
    /\ "prepared" \notin work[g]
    /\ work[g] # {}
    /\ \E left \in SUBSET work[g] : work' = [work EXCEPT ![g] = left]
    /\ UNCHANGED <<state, recovery_required, registry, quarantined, queues, service, turn,
                   history>>

\* A direct operation of a group fails for good.
ProposeQuarantines(g) ==
    /\ Between
    /\ Schedulable(g)
    /\ g \in Tablets => work[g] = {}
    /\ "prepared" \notin work[g]
    /\ ~recovery_required
    /\ faults < MaxFaults
    /\ faults' = faults + 1
    /\ quarantined' = quarantined \cup {g}
    /\ UNCHANGED <<state, recovery_required, registry, queues, work, service, turn, arrivals,
                   generation, durable, sent>>

\* A replica created or fenced while the host runs.
IssueAfterActivation(i) ==
    /\ Between
    /\ ~recovery_required
    /\ i \notin tombstoned \cup issued_writers
    /\ issued_writers' = issued_writers \cup {i}
    /\ UNCHANGED <<state, recovery_required, pending_recovered, tombstoned, hosted, quarantined,
                   queues, work, service, turn, history>>

RegisterActiveGroup(i) ==
    /\ Between
    /\ ~recovery_required
    /\ i \in issued_writers \ tombstoned
    /\ hosted[i[1]] = None
    /\ hosted' = [hosted EXCEPT ![i[1]] = i]
    /\ armed' = armed \cup {i[1]}
    /\ runnable' = Enqueue(runnable, i[1])
    /\ UNCHANGED <<state, recovery_required, pending_recovered, issued_writers, tombstoned,
                   quarantined, timer_due, messages, pending_count, work, service, turn, history>>

\* Only tablets are retired.
TombstoneGroup(i) ==
    /\ Between
    /\ ~recovery_required
    /\ i[1] \in Tablets
    /\ i \in issued_writers \ tombstoned
    /\ hosted[i[1]] \in {None, i}
    /\ hosted' = [hosted EXCEPT ![i[1]] = None]
    /\ tombstoned' = tombstoned \cup {i}
    /\ runnable' = Without(runnable, i[1])
    /\ armed' = armed \ {i[1]}
    /\ timer_due' = timer_due \ {i[1]}
    /\ messages' = [messages EXCEPT ![i[1]] = NoMessages]
    /\ pending_count' = pending_count - Queued(messages, i[1])
    /\ quarantined' = quarantined \ {i[1]}
    /\ work' = [work EXCEPT ![i[1]] = {}]
    /\ UNCHANGED <<state, recovery_required, pending_recovered, issued_writers, service, turn,
                   history>>

----------------------------------------------------------------------------
(***************************************************************************)
(* A turn.                                                                 *)
(***************************************************************************)
\* run_turn begins: some timers have expired.
BeginTurn(expired) ==
    /\ Between
    /\ expired \subseteq armed
    /\ LET due == {g \in expired : Schedulable(g)} IN
       /\ timer_due' = timer_due \cup due
       /\ runnable' = FoldLeft(EnqueueControl, runnable, SetToSeq(due))
    /\ armed' = armed \ expired
    /\ pc' = "servicing"
    /\ serviced' = 0 /\ processed' = 0 /\ outbox' = {}
    /\ UNCHANGED <<state, recovery_required, registry, quarantined, messages, pending_count,
                   work, service, history>>

Servicing == pc = "servicing" /\ serviced < GroupBudget /\ ~Idle

SkipQuarantined ==
    LET g == Popped IN
    /\ Servicing
    /\ g \in quarantined
    /\ runnable' = Without(runnable, g)
    /\ timer_due' = timer_due \ {g}
    /\ messages' = [messages EXCEPT ![g] = NoMessages]
    /\ pending_count' = pending_count - Queued(messages, g)
    /\ UNCHANGED <<state, recovery_required, registry, quarantined, armed, work, service, turn,
                   history>>

\* The message budget is spent: the message goes back and the turn stops servicing.
MessageBudgetSpent ==
    LET g == Popped IN
    /\ Servicing
    /\ g \notin quarantined
    /\ Queued(messages, g) > 0
    /\ processed >= MessageBudget
    /\ runnable' = EnqueueFor(Without(runnable, g), messages, g)
    /\ pc' = "completing"
    /\ UNCHANGED <<state, recovery_required, registry, quarantined, armed, timer_due, messages,
                   pending_count, work, service, serviced, processed, outbox, history>>

\* The generation of the group is with the service: its completion makes the group
\* runnable again.
OwnedByService ==
    LET g == Popped IN
    /\ Servicing
    /\ g \notin quarantined
    /\ Queued(messages, g) = 0 \/ processed < MessageBudget
    /\ work[g] # {}
    /\ g \in Contained
    /\ runnable' = Without(runnable, g)
    /\ UNCHANGED <<state, recovery_required, registry, quarantined, armed, timer_due, messages,
                   pending_count, work, service, turn, history>>

Serviced(g) ==
    /\ Servicing
    /\ g = Popped
    /\ g \notin quarantined
    /\ Queued(messages, g) = 0 \/ processed < MessageBudget
    /\ ~(work[g] # {} /\ g \in Contained)

\* The popped group takes its next message rather than a tick or pending work.
ProcessesMessage(g) ==
    Queued(messages, g) > 0 /\ g \notin timer_due /\ work[g] = {}

Rearms(g) == g \in timer_due \/ ProcessesMessage(g)

MessageTaken(g) ==
    IF ProcessesMessage(g)
    THEN [messages EXCEPT ![g][Lane(messages, g)] = @ - 1]
    ELSE messages

\* Mutant: a message that is stepped still counts against the limit.
CountedLeaking(g) ==
    /\ serviced' = serviced + 1
    /\ processed' = processed + (IF ProcessesMessage(g) THEN 1 ELSE 0)
    /\ messages' = MessageTaken(g)
    /\ timer_due' = timer_due \ {g}
    /\ UNCHANGED pending_count

Counted(g) ==
    /\ serviced' = serviced + 1
    /\ processed' = processed + (IF ProcessesMessage(g) THEN 1 ELSE 0)
    /\ messages' = MessageTaken(g)
    /\ pending_count' = pending_count - (IF ProcessesMessage(g) THEN 1 ELSE 0)
    /\ timer_due' = timer_due \ {g}

\* ensure_shared_wal_healthy_for_turn and the error branches of the loop: a fenced
\* log ends the turn and the host, unless the worker still has a batch.
StopsHere == recovery_required /\ in_flight = None
Stops ==
    /\ state' = "RecoveryRequired" /\ pc' = "stopped"
    /\ UNCHANGED <<runnable, armed, outbox>>
Returns(g, w) ==
    /\ runnable' = Rescheduled(Without(runnable, g), messages', w, g)
    /\ armed' = Rearmed(armed, g, Rearms(g))
    /\ UNCHANGED <<state, pc, outbox>>
Finishes(g, w) == IF StopsHere THEN Stops ELSE Returns(g, w)

\* The group fails for good: its messages and its place in the queue go.
GroupFails(g) ==
    /\ Serviced(g)
    /\ faults < MaxFaults
    /\ faults' = faults + 1
    /\ serviced' = serviced + 1
    /\ processed' = processed + (IF ProcessesMessage(g) THEN 1 ELSE 0)
    /\ timer_due' = timer_due \ {g}
    /\ messages' = [messages EXCEPT ![g] = NoMessages]
    /\ pending_count' = pending_count - Queued(messages, g)
    /\ IF recovery_required
       THEN Stops /\ UNCHANGED quarantined
       ELSE /\ quarantined' = quarantined \cup {g}
            /\ runnable' = Without(runnable, g)
            /\ UNCHANGED <<state, pc, armed, outbox>>
    \* the proxy forgets the answer it waited for
    /\ work' = IF g \in Tablets THEN [work EXCEPT ![g] = {}] ELSE work
    /\ UNCHANGED <<recovery_required, registry, service, arrivals, generation, durable, sent>>

----------------------------------------------------------------------------
(***************************************************************************)
(* A tablet: ReplicatedTabletGroupProxy.                                   *)
(***************************************************************************)
\* submit_budgeted with no operation outstanding: the tick or the message goes to
\* the reactor.
TabletSubmits(g) ==
    /\ Serviced(g)
    /\ g \in Tablets
    /\ work[g] = {}
    /\ Counted(g)
    /\ work' = [work EXCEPT ![g] = {"awaiting"}]
    /\ Finishes(g, work')
    /\ UNCHANGED <<recovery_required, registry, quarantined, service, history>>

\* The reactor's queue is full.  A message goes back to the front of its lane and
\* its group to the queue; a tick is lost, and its timer armed again.
TabletQueueFull(g) ==
    /\ Serviced(g)
    /\ g \in Tablets
    /\ work[g] = {}
    /\ faults < MaxFaults
    /\ faults' = faults + 1
    /\ serviced' = serviced + 1
    /\ processed' = processed + (IF ProcessesMessage(g) THEN 1 ELSE 0)
    /\ timer_due' = timer_due \ {g}
    /\ IF recovery_required THEN Stops
       ELSE /\ runnable' = Rescheduled(Without(runnable, g), messages, work, g)
            /\ armed' = Rearmed(armed, g, g \in timer_due)
            /\ UNCHANGED <<state, pc, outbox>>
    /\ UNCHANGED <<recovery_required, registry, quarantined, messages, pending_count, work,
                   service, arrivals, generation, durable, sent>>

\* poll_pending: the outstanding operation is still running, or has its answer.
\* A tick that was due is dropped.
TabletPolls(g) ==
    /\ Serviced(g)
    /\ g \in Tablets
    /\ work[g] # {}
    /\ Counted(g)
    /\ work' = [work EXCEPT ![g] = @ \ (IF "answered" \in @ THEN @ ELSE {})]
    /\ Finishes(g, work')
    /\ UNCHANGED <<recovery_required, registry, quarantined, service, history>>

ReactorReplies(g) ==
    /\ "awaiting" \in work[g]
    /\ work' = [work EXCEPT ![g] = {"answered"}]
    /\ UNCHANGED <<state, recovery_required, registry, quarantined, queues, service, turn,
                   history>>

----------------------------------------------------------------------------
(***************************************************************************)
(* A Ready loop: ReadyLoopHostedGroup.                                     *)
(***************************************************************************)
\* PersistenceService::try_submit of the current generation of g.
Submit(g, w) ==
    \/ /\ g \notin Contained
       /\ Len(staged) + Len(Batch(in_flight)) < MaxStaged
       /\ staged' = Append(staged, [group |-> g, generation |-> generation'[g],
                                    rearm |-> Rearms(g)])
       /\ runnable' = Without(runnable, g)
       /\ UNCHANGED <<state, pc, armed, outbox, faults>>
    \/ /\ \/ g \in Contained                                 \* Capacity
          \/ Len(staged) + Len(Batch(in_flight)) >= MaxStaged
       /\ runnable' = Rescheduled(Without(runnable, g), messages', w, g)
       /\ armed' = Rearmed(armed, g, Rearms(g))
       /\ pc' = "completing"
       /\ UNCHANGED <<state, staged, outbox, faults>>
    \/ /\ faults < MaxFaults                                 \* RequestTooLarge
       /\ faults' = faults + 1
       /\ runnable' = Rescheduled(Without(runnable, g), messages', w, g)
       /\ armed' = Rearmed(armed, g, Rearms(g))
       /\ pc' = "completing"
       /\ outbox' = None
       /\ UNCHANGED <<state, staged>>

\* prepare_ready_budgeted: a generation prepared earlier is offered again, or the
\* Ready of the core becomes the prepared generation.
LoopPrepares(g) ==
    /\ Serviced(g)
    /\ g \notin Tablets
    /\ Counted(g)
    /\ \/ /\ "prepared" \in work[g]
          /\ UNCHANGED <<work, generation>>
       \/ /\ work[g] = {} \/ "ready" \in work[g]
          /\ "prepared" \notin work[g]
          /\ generation[g] < MaxGenerations
          /\ generation' = [generation EXCEPT ![g] = @ + 1]
          /\ work' = [work EXCEPT ![g] = (@ \ {"ready"}) \cup {"prepared"}]
    /\ Submit(g, work')
    /\ UNCHANGED <<recovery_required, registry, quarantined, in_flight, completion, arrivals,
                   durable, sent>>

\* The tick or the message leaves no Ready, or a part of an apply bundle is applied.
LoopRests(g) ==
    /\ Serviced(g)
    /\ g \notin Tablets
    /\ "prepared" \notin work[g]
    /\ work[g] = {} \/ "apply" \in work[g]
    /\ Counted(g)
    /\ \E left \in {work[g], work[g] \ {"apply"}} : work' = [work EXCEPT ![g] = left]
    /\ Finishes(g, work')
    /\ UNCHANGED <<recovery_required, registry, quarantined, service, history>>

----------------------------------------------------------------------------
(***************************************************************************)
(* The end of a turn: completions, the next batch, the messages.           *)
(***************************************************************************)
EndService ==
    /\ pc = "servicing"
    /\ serviced = GroupBudget \/ Idle
    /\ pc' = "completing"
    /\ UNCHANGED <<state, recovery_required, registry, quarantined, queues, work, service,
                   serviced, processed, outbox, history>>

Answered == Batch(in_flight)
Members == {p.group : p \in ToSet(Answered)}

\* Mutant: what is staged waits for the batch of a later turn.
DispatchesNothing(batch, published) ==
    /\ in_flight' = batch
    /\ completion' = None
    /\ pc' = "between"
    /\ sent' = sent \cup (IF outbox = None THEN {} ELSE published)
    /\ serviced' = 0 /\ processed' = 0 /\ outbox' = {}
    /\ UNCHANGED <<state, staged>>

\* dispatch_if_idle, the last look at the fence, and send_outbound.  batch is what
\* the worker has left, staged what waits.
Dispatches(batch, published) ==
    LET next == IF batch = None /\ staged # <<>> THEN staged ELSE batch IN
    /\ in_flight' = next
    /\ staged' = IF batch = None THEN <<>> ELSE staged
    /\ completion' = None
    /\ IF recovery_required /\ next = None
       THEN state' = "RecoveryRequired" /\ pc' = "stopped" /\ UNCHANGED sent
       ELSE /\ pc' = "between"
            /\ sent' = sent \cup (IF outbox = None THEN {} ELSE published)
            /\ UNCHANGED state
    /\ serviced' = 0 /\ processed' = 0 /\ outbox' = {}

NoCompletion ==
    /\ pc = "completing"
    /\ completion = None
    /\ Dispatches(in_flight, {})
    /\ UNCHANGED <<recovery_required, registry, quarantined, queues, work, arrivals,
                   generation, durable, faults>>

\* Mutant: a completion arms the timer of its group and leaves it out of the queue.
CompletesWithoutScheduling(w) ==
    /\ armed' = FoldLeft(LAMBDA a, p : Rearmed(a, p.group, p.rearm), armed, Answered)
    /\ UNCHANGED runnable

\* Every group of the answered batch is rescheduled.
CompletionReturns(w) ==
    /\ runnable' = FoldLeft(LAMBDA r, p : Rescheduled(r, messages, w, p.group), runnable,
                            Answered)
    /\ armed' = FoldLeft(LAMBDA a, p : Rearmed(a, p.group, p.rearm), armed, Answered)

\* complete_prepared_ready: the messages that wait for the records are released,
\* and the committed entries become an apply bundle.  more are the groups whose
\* core has another Ready.
CompletionSucceeds(more) ==
    /\ pc = "completing"
    /\ completion = "ok"
    /\ ~recovery_required
    /\ more \subseteq {g \in Members : generation[g] < MaxGenerations}
    /\ work' = [g \in Groups |->
                  IF g \in Members
                  THEN (work[g] \ {"prepared"}) \cup {"apply"}
                          \cup (IF g \in more THEN {"ready"} ELSE {})
                  ELSE work[g]]
    /\ CompletionReturns(work')
    /\ Dispatches(None, {<<p.group, p.generation>> : p \in ToSet(Answered)})
    /\ UNCHANGED <<recovery_required, registry, quarantined, timer_due, messages,
                   pending_count, arrivals, generation, durable, faults>>

\* Mutant: a refused batch releases its messages like an accepted one.
CompletionNotStagedPublishes ==
    /\ pc = "completing"
    /\ completion = "not_staged"
    /\ ~recovery_required
    /\ CompletionReturns(work)
    /\ Dispatches(None, {<<p.group, p.generation>> : p \in ToSet(Answered)})
    /\ UNCHANGED <<recovery_required, registry, quarantined, timer_due, messages,
                   pending_count, work, arrivals, generation, durable, faults>>

\* Nothing of the batch was written: every group offers its generation again.
CompletionNotStaged ==
    /\ pc = "completing"
    /\ completion = "not_staged"
    /\ ~recovery_required
    /\ CompletionReturns(work)
    /\ Dispatches(None, {})
    /\ UNCHANGED <<recovery_required, registry, quarantined, timer_due, messages,
                   pending_count, work, arrivals, generation, durable, faults>>

\* The outcome is unknown, the worker is gone, or the log was fenced meanwhile.
CompletionStops ==
    /\ pc = "completing"
    /\ completion # None
    /\ recovery_required
    /\ in_flight' = None /\ completion' = None
    /\ state' = "RecoveryRequired" /\ pc' = "stopped"
    /\ UNCHANGED <<recovery_required, registry, quarantined, queues, work, staged, serviced,
                   processed, outbox, history>>

----------------------------------------------------------------------------
(***************************************************************************)
(* The worker, and the fence of the shared log.                            *)
(***************************************************************************)
Waiting == in_flight # None /\ completion = None

WorkerAppends ==
    /\ Waiting
    /\ ~recovery_required
    /\ completion' = "ok"
    /\ durable' = durable \cup {<<p.group, p.generation>> : p \in ToSet(Answered)}
    /\ UNCHANGED <<state, recovery_required, registry, quarantined, queues, work, staged,
                   in_flight, turn, arrivals, generation, sent, faults>>

\* The log refuses the batch before it stages a record.
WorkerRefused ==
    /\ Waiting
    /\ ~recovery_required
    /\ faults < MaxFaults
    /\ faults' = faults + 1
    /\ completion' = "not_staged"
    /\ UNCHANGED <<state, recovery_required, registry, quarantined, queues, work, staged,
                   in_flight, turn, arrivals, generation, durable, sent>>

\* The log cannot tell what it wrote, the worker ends, or the log is fenced already.
WorkerFails ==
    /\ Waiting
    /\ \/ recovery_required /\ UNCHANGED faults
       \/ faults < MaxFaults /\ faults' = faults + 1
    /\ recovery_required' = TRUE
    /\ completion' = "unknown"
    /\ UNCHANGED <<state, registry, quarantined, queues, work, staged, in_flight, turn,
                   arrivals, generation, durable, sent>>

\* A tablet or the database fences the log they share.
Fence ==
    /\ ~recovery_required
    /\ faults < MaxFaults
    /\ faults' = faults + 1
    /\ recovery_required' = TRUE
    /\ UNCHANGED <<state, registry, quarantined, queues, work, service, turn, arrivals,
                   generation, durable, sent>>

\* ensure_active: the host thread finds the log fenced.
NoticeFence ==
    /\ state = "Active" /\ pc = "between"
    /\ recovery_required /\ in_flight = None
    /\ state' = "RecoveryRequired" /\ pc' = "stopped"
    /\ UNCHANGED <<recovery_required, registry, quarantined, queues, work, service, serviced,
                   processed, outbox, history>>

----------------------------------------------------------------------------
Startup ==
    \/ \E i \in Identities :
          IssueGroupWriter(i) \/ RegisterGroup(i) \/ RegisterInactive(i) \/ RegisterTombstoned(i)
    \/ Activate

Direct ==
    \/ \E g \in Groups, lane \in {"control", "bulk"} : EnqueueMessage(g, lane)
    \/ \E g \in Groups, left \in SUBSET {"ready", "apply"} : Propose(g, left)
    \/ \E g \in Groups : ProposeRefused(g) \/ ProposeQuarantines(g)
    \/ \E i \in Identities :
          IssueAfterActivation(i) \/ RegisterActiveGroup(i) \/ TombstoneGroup(i)

Service ==
    \/ SkipQuarantined \/ MessageBudgetSpent \/ OwnedByService
    \/ \E g \in Groups : \/ GroupFails(g)
                         \/ TabletSubmits(g) \/ TabletQueueFull(g) \/ TabletPolls(g)
                         \/ LoopPrepares(g) \/ LoopRests(g)

Completing ==
    \/ NoCompletion \/ CompletionNotStaged \/ CompletionStops
    \/ \E more \in SUBSET Groups : CompletionSucceeds(more)

Turn ==
    \/ \E expired \in SUBSET Groups : BeginTurn(expired)
    \/ Service \/ EndService \/ Completing
    \/ NoticeFence

Worker == WorkerAppends \/ WorkerRefused \/ WorkerFails

Next ==
    \/ Startup \/ Direct \/ Turn \/ Worker \/ Fence
    \/ \E g \in Groups : ReactorReplies(g)

Spec == Init /\ [][Next]_vars

\* The host loop always comes to its next step and the worker answers.
FairSpec == Spec /\ WF_vars(Turn) /\ WF_vars(Worker)

----------------------------------------------------------------------------
(***************************************************************************)
(* Properties.                                                             *)
(***************************************************************************)
Running(g) == state = "Active" /\ hosted[g] # None /\ g \notin quarantined
Runnable(g) == Contains(runnable.control \o runnable.bulk, g)

\* No lost wakeup and no lost clock.  A group with a queued message or unfinished
\* work is in the runnable queue, or its generation is with the persistence service,
\* whose answer puts it back.  The timer of a group that takes part in elections is
\* armed, or has expired with the group about to be serviced, or is armed by that
\* answer.
WorkIsScheduled ==
    \A g \in Groups : Running(g) =>
        /\ Queued(messages, g) > 0 \/ work[g] # {} => Runnable(g) \/ g \in Contained
        /\ \/ g \in Passive \cup armed
           \/ g \in timer_due /\ (Runnable(g) \/ g \in Contained)
           \/ \E p \in ToSet(staged \o Batch(in_flight)) : p.group = g /\ p.rearm

\* The messages of a Ready generation leave the node only when its records are in
\* the log for certain, whatever the worker, the fence and the other groups do.
SentIsDurable == sent \subseteq durable

\* No path leaks what the host admits work by.  The node-wide count is the number of
\* queued messages, whoever drops, returns or steps them, and a replica that is gone
\* leaves nothing the next replica of its group could run: no message, no timer, no
\* queued turn and no unfinished operation.
NothingLeftBehind ==
    /\ pending_count = FoldSet(LAMBDA g, n : n + Queued(messages, g), 0, Groups)
    /\ \A g \in Groups :
         hosted[g] = None
             => /\ Queued(messages, g) = 0 /\ work[g] = {}
                /\ g \notin armed \cup timer_due
                /\ ~Runnable(g)

\* A generation handed to the persistence service is answered, or the host stops.
GenerationIsAnswered ==
    \A g \in Groups : g \in Contained ~> g \notin Contained \/ pc = "stopped"
=============================================================================
