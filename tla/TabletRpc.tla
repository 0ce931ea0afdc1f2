----------------------------- MODULE TabletRpc -----------------------------
(***************************************************************************)
(* Requests between the nodes of the cluster: the retrying client of       *)
(* ragnordb-server/src/rpc.rs, its cache of leader hints, the table of     *)
(* answers it waits for, the transport both directions share with Raft,    *)
(* and the dispatcher of the serving node with its tables of requests in   *)
(* progress.  Commands go through the outcome recovery of ragnordb-exec.   *)
(*                                                                         *)
(* Callers run on one node, the Gateway; the tablet has a replica on every *)
(* node.  The replicated tablet behind the mailboxes (who leads it, which  *)
(* commands it applied, in which epoch it is) and the host thread that     *)
(* answers control requests are external here; their own modules are       *)
(* TabletReplica, TabletReads and MetadataService.                         *)
(***************************************************************************)
EXTENDS NodeTransport, FiniteSetsExt

CONSTANTS
    Nodes, Gateway,
    Placement,        \* the replicas of the route, in placement order
    Callers,
    Scenarios,        \* what the callers ask for, and how much else happens
    MaxTabletRpcs,    \* MAX_PENDING_INBOUND_TABLET_RPCS
    MaxControlRpcs,   \* MAX_PENDING_CONTROL_RPCS
    MaxMailbox,       \* capacity of a tablet's mailbox and of the host's queue
    MaxAttempts,      \* MAX_TABLET_RETRY_ATTEMPTS
    MaxReadAttempts,  \* bound on the attempts of a call that retries until its deadline
    NoNode

ControlKinds == {"metadata", "join"}
Kinds == {"command", "query", "read", "status", "inspect", "scan"} \cup ControlKinds

ASSUME RpcBounds ==
    /\ Gateway \in Nodes /\ NoNode \notin Nodes
    /\ Placement \in Seq(Nodes)
    /\ MaxAttempts \in Nat \ {0}
    /\ Scenarios \subseteq [calls : [Callers -> Kinds \cup {"none"}], leader : Nodes \cup {NoNode},
                            elections : Nat, epochs : Nat, deadlines : Nat, losses : Nat,
                            raft : Nat, routes : Nat]

VARIABLES
    scenario,     \* the scenario chosen at the start; its budgets are spent
    call,         \* Callers -> the call of a thread of the gateway
    pending,      \* RpcState.pending: attempts whose answer is awaited
    next_attempt, \* RpcState.next_attempt
    dispatcher,   \* "running" or "blocked": the gateway's dispatcher thread
    cache,        \* TabletRouteCache: epoch and leader hint of the route
    catalog,      \* epoch of the committed metadata the gateway has published
    peer,         \* peer[n][m]: OutboundPeer of node n towards node m
    wire,         \* wire[n][m]: frames in the connection from n to m
    inbound,      \* inbound queues of a node
    routes,       \* routes[n]: (group, node) pairs node n accepts Raft frames from
    serving,      \* RpcState.inbound_tablet and pending_control of a node
    next_token,   \* RpcState.next_tablet_token
    mailbox,      \* requests the tablet's reactor has not taken
    host_queue,   \* control requests the host thread has not taken
    tablet        \* external: leader, epoch, entries proposed, outcomes

callers == <<scenario, call, pending, next_attempt, cache, catalog>>
network == <<peer, wire, inbound, routes>>
servers == <<serving, next_token, mailbox, host_queue>>
vars == <<callers, dispatcher, network, servers, tablet>>

-----------------------------------------------------------------------------
(* Replies.  "hint" is the leader a refusal names, "epoch" the epoch it      *)
(* reports.                                                                *)

Reply(status) == [status |-> status, hint |-> NoNode, epoch |-> 0]
NoReply == Reply("none")

Successes == {"applied", "rejected", "absent", "row", "done"}

is_retryable_tablet_error(reply) ==
    reply.status \in {"NotLeader", "LeaderUnknown", "StaleTabletEpoch",
                      "TabletUnavailable", "ProposalUnavailable"}

\* An error becomes a code of the response: a refusal that names no leader is
\* LEADER_UNKNOWN, and both kinds of unavailability are TABLET_UNAVAILABLE.
error_response(reply) ==
    CASE reply.status = "NotLeader" /\ reply.hint = NoNode -> [reply EXCEPT !.status = "LEADER_UNKNOWN"]
      [] reply.status = "LeaderUnknown" -> [reply EXCEPT !.status = "LEADER_UNKNOWN"]
      [] reply.status \in {"ProposalUnavailable", "TabletUnavailable"} ->
            [reply EXCEPT !.status = "TABLET_UNAVAILABLE"]
      [] OTHER -> reply

response_error(reply) ==
    CASE reply.status = "LEADER_UNKNOWN" -> [reply EXCEPT !.status = "LeaderUnknown"]
      [] reply.status = "TABLET_UNAVAILABLE" -> [reply EXCEPT !.status = "TabletUnavailable"]
      [] OTHER -> reply

\* A deadline that ends at the serving node leaves a command's outcome unknown.
tablet_rpc_deadline_error(kind) ==
    IF kind = "command" THEN Reply("RequestOutcomeUnknown") ELSE Reply("ProposalUnavailable")

-----------------------------------------------------------------------------
(* The calls.  A policy is what distinguishes the retry loops of the       *)
(* client: how many attempts it makes, what it does with a stale epoch, and *)
(* whether a success is remembered as a leader.                            *)

submit_command_with_identity_and_ack ==
    [kind |-> "command", attempts |-> MaxAttempts, bounded |-> TRUE,
     stale |-> "refresh", remembers |-> TRUE]

query_original_outcome ==
    [kind |-> "query", attempts |-> MaxAttempts, bounded |-> TRUE,
     stale |-> "adopt", remembers |-> FALSE]

read_point ==
    [kind |-> "read", attempts |-> MaxReadAttempts, bounded |-> FALSE,
     stale |-> "refresh", remembers |-> TRUE]

transaction_status ==
    [kind |-> "status", attempts |-> MaxReadAttempts, bounded |-> FALSE,
     stale |-> "return", remembers |-> TRUE]

inspect_point ==
    [kind |-> "inspect", attempts |-> MaxReadAttempts, bounded |-> FALSE,
     stale |-> "refresh", remembers |-> TRUE]

scan_request ==
    [kind |-> "scan", attempts |-> MaxAttempts, bounded |-> TRUE,
     stale |-> "return", remembers |-> TRUE]

TabletPolicies == {submit_command_with_identity_and_ack, query_original_outcome, read_point,
                   transaction_status, inspect_point, scan_request}

Policy(kind) == CHOOSE p \in TabletPolicies : p.kind = kind

-----------------------------------------------------------------------------
(* Routes and leader hints.                                                *)

\* A route names the epoch it is for and the replica to ask first; its replicas are
\* the Placement.  build_routing_snapshot: the first voter of the placement stands in for a leader.
TabletRoute(epoch, leader) == [epoch |-> epoch, leader |-> leader]
BaseRoute == TabletRoute(catalog, Placement[1])

\* cached_leader_for: the hint counts for the route it was learnt with.
cached_leader_for(epoch) == IF cache.epoch = epoch THEN cache.leader ELSE NoNode

\* route_with_leader_hint: the cached leader, else the one the local replica
\* publishes, else the seed of the placement.
route_with_leader_hint(published) ==
    [BaseRoute EXCEPT !.leader = IF cached_leader_for(catalog) # NoNode THEN cached_leader_for(catalog)
                                 ELSE IF published # NoNode THEN published ELSE @]

\* cache_authoritative_route: a route of another identity replaces the cached one.
cache_authoritative_route(route) == IF cache.epoch = route.epoch THEN cache ELSE route

\* update_leader_if_current: a refusal changes the hint of the replica it came from.
update_leader_if_current(rejected, leader) ==
    IF cache.leader = rejected THEN [cache EXCEPT !.leader = leader] ELSE cache

record_successful_leader(route, leader) ==
    IF cache.epoch = route.epoch THEN [cache EXCEPT !.leader = leader] ELSE cache

update_route_after_error(rejected, reply) ==
    CASE reply.status = "NotLeader" /\ reply.hint # NoNode ->
            update_leader_if_current(rejected, reply.hint)
      [] reply.status \in {"LeaderUnknown", "ProposalUnavailable", "TabletUnavailable"}
            \/ (reply.status = "NotLeader" /\ reply.hint = NoNode) ->
            update_leader_if_current(rejected, NoNode)
      [] OTHER -> cache

\* next_unattempted_replica: the leader hint first, then placement order.
next_unattempted_replica(route, attempted) ==
    LET order == SelectSeq(<<route.leader>> \o Placement, LAMBDA n: n \notin attempted)
    IN  IF order = <<>> THEN NoNode ELSE Head(order)

-----------------------------------------------------------------------------
(* Requests, and where they wait.                                          *)

IdleCall == [state |-> "idle", kind |-> "none", route |-> [epoch |-> 0, leader |-> NoNode],
             original |-> [epoch |-> 0, leader |-> NoNode], attempted |-> {}, attempt |-> 0,
             id |-> 0, target |-> NoNode, last |-> NoReply, answer |-> NoReply,
             answers |-> [caller |-> "none", kind |-> "none", from |-> NoNode], result |-> "none"]

\* A bug to be caught: answers are told apart by the request they are for, and the
\* outcome query of a command carries the request id of the command.
AttachRequestId(c, id) ==
    [type |-> "request", caller |-> c, kind |-> call[c].kind, attempt |-> 0,
     epoch |-> call[c].route.epoch, reply |-> NoReply]

\* attach_rpc_attempt_id: the frame of a request names the attempt it belongs to.
attach_rpc_attempt_id(c, id) ==
    [type |-> "request", caller |-> c, kind |-> call[c].kind, attempt |-> id,
     epoch |-> call[c].route.epoch, reply |-> NoReply]

Response(request, reply) == [request EXCEPT !.type = "response", !.reply = error_response(reply)]

send_response(n, request, to, reply) ==
    [peer EXCEPT ![n][to] = try_send(@, encode_rpc_frame(Response(request, reply)))]

\* Where the reply to a request of the tablet's mailbox goes: to the thread that
\* waits in this process, or to the table entry of a remote request.
LocalOrigin(c) == [token |-> 0, caller |-> c, kind |-> call[c].kind, attempt |-> call[c].attempt]
RemoteOrigin(token) == [token |-> token, caller |-> "none", kind |-> "none", attempt |-> 0]

\* A request of the tablet's mailbox, from a thread of this process or from the wire.
local_request(c, k) ==
    [origin |-> LocalOrigin(c), kind |-> k.kind, caller |-> c, epoch |-> k.route.epoch]

enqueue_rpc(n, request) ==
    [origin |-> RemoteOrigin(next_token[n]), kind |-> request.kind, caller |-> request.caller,
     epoch |-> request.epoch]

TabletRequests(n) == {p \in serving[n] : p.request.kind \notin ControlKinds}
ControlRequests(n) == {p \in serving[n] : p.request.kind \in ControlKinds}

\* reserve_tablet_rpc: an entry for the answer, unless the table is full.
reserve_tablet_rpc(n, source, request) ==
    IF Cardinality(TabletRequests(n)) >= MaxTabletRpcs
    THEN serving[n]
    ELSE serving[n] \cup {[token |-> next_token[n], source |-> source,
                           request |-> request, completion |-> NoReply]}

cancel_tablet_rpc(entries, token) == {p \in entries : p.token # token}

reserve_control_rpc(n, source, request) ==
    IF Cardinality(ControlRequests(n)) >= MaxControlRpcs
    THEN serving[n]
    ELSE serving[n] \cup {[token |-> 0, source |-> source,
                           request |-> request, completion |-> NoReply]}

\* cancel_control_rpc compares the attempt alone, not the node it came from.
cancel_control_rpc(entries, attempt) ==
    {p \in entries : p.request.kind \notin ControlKinds \/ p.request.attempt # attempt}

\* publish_tablet_completion: the first completion of an entry that still exists.
publish_tablet_completion(n, token, reply) ==
    {IF p.token = token /\ p.request.kind \notin ControlKinds /\ p.completion = NoReply
     THEN [p EXCEPT !.completion = reply] ELSE p : p \in serving[n]}

-----------------------------------------------------------------------------
(* What a reply does to the call that waited for it.                       *)

dispatch_error(status) ==
    CASE status \in {"StaleTabletEpoch", "NotLeader"} -> "RouteRefreshRequired"
      [] status = "RequestOutcomeUnknown" -> "OutcomeUnknown"
      [] status \in {"ProposalUnavailable", "TabletUnavailable", "LeaderUnknown"} -> "Unavailable"
      [] OTHER -> "Error"

Done(k, result) == [k EXCEPT !.state = "done", !.id = 0, !.answer = NoReply, !.result = result]

\* The outcome query starts over on the route the command was given.
QueryOutcome(k) ==
    [k EXCEPT !.state = "ready", !.kind = "query", !.route = k.original, !.attempted = {},
              !.attempt = 0, !.id = 0, !.last = NoReply, !.answer = NoReply]

Uncertain == {"RequestOutcomeUnknown", "ProposalUnavailable"}

\* A bug to be caught: an outcome that is not there yet is taken for a rejection.
AbsentIsRejected(k, reply, budget) ==
    CASE k.kind = "command" /\ reply.status \in Uncertain -> QueryOutcome(k)
      [] k.kind = "query" /\ reply.status = "absent" -> Done(k, "rejected")
      [] reply.status \in Successes -> Done(k, reply.status)
      [] OTHER -> Done(k, "OutcomeUnknown")

\* submit_with_outcome_recovery: an uncertain command is followed by a query of its
\* outcome when the statement has time left, and stays unknown otherwise.
submit_with_outcome_recovery(k, reply, budget) ==
    CASE k.kind = "command" /\ reply.status \in Uncertain ->
            IF budget THEN QueryOutcome(k) ELSE Done(k, "OutcomeUnknown")
      [] k.kind = "query" /\ reply.status \notin {"applied", "rejected"} ->
            Done(k, "OutcomeUnknown")
      [] reply.status \in Successes -> Done(k, reply.status)
      [] OTHER -> Done(k, dispatch_error(reply.status))

Retries(k, reply) ==
    /\ k.kind \notin ControlKinds
    /\ is_retryable_tablet_error(reply)
    /\ k.attempt + 1 < Policy(k.kind).attempts
    /\ ~(reply.status = "StaleTabletEpoch" /\ Policy(k.kind).stale = "return")

Refreshes(k, reply) ==
    Retries(k, reply) /\ reply.status = "StaleTabletEpoch" /\ Policy(k.kind).stale = "refresh"

\* adjust_route_after_error: a refreshed route may be tried from its beginning again;
\* a hint moves the leader, and an outcome query adopts the reported epoch.
adjust_route_after_error(k, reply, published) ==
    LET refreshed == Refreshes(k, reply) IN
    [k EXCEPT !.state = "ready", !.attempt = @ + 1, !.id = 0, !.last = reply, !.answer = NoReply,
              !.attempted = IF refreshed THEN {} ELSE @,
              !.route = IF refreshed THEN route_with_leader_hint(published)
                        ELSE [epoch |-> IF reply.status = "StaleTabletEpoch" THEN reply.epoch ELSE @.epoch,
                              leader |-> IF reply.status = "NotLeader" /\ reply.hint # NoNode
                                         THEN reply.hint ELSE @.leader]]

\* The call and the cache after an attempt ended with a reply.
AttemptEnds(c, k, reply, published, budget) ==
    /\ call' = [call EXCEPT ![c] = IF Retries(k, reply)
                                   THEN adjust_route_after_error(k, reply, published)
                                   ELSE submit_with_outcome_recovery(k, reply, budget)]
    /\ cache' = CASE k.kind \in ControlKinds -> cache
                   [] k.kind \notin ControlKinds /\ reply.status \in Successes ->
                        IF Policy(k.kind).remembers THEN record_successful_leader(k.route, k.target)
                                                    ELSE cache
                   [] Refreshes(k, reply) ->
                        cache_authoritative_route(route_with_leader_hint(published))
                   [] Retries(k, reply) /\ ~Refreshes(k, reply) ->
                        update_route_after_error(k.target, reply)
                   [] OTHER -> cache

-----------------------------------------------------------------------------
(* The calling threads of the gateway.                                     *)

PublishedLeaders == {tablet.leader, NoNode}
LockIsFree == dispatcher = "running"

\* A deadline passes.
DeadlinePasses ==
    /\ scenario.deadlines > 0
    /\ scenario' = [scenario EXCEPT !.deadlines = @ - 1]

\* lookup_tablet_route, then the first turn of the retry loop.
Begin(c) ==
    /\ call[c].state = "idle"
    /\ scenario.calls[c] # "none"
    /\ \E published \in PublishedLeaders :
          LET route == route_with_leader_hint(published) IN
          /\ call' = [call EXCEPT ![c] = [@ EXCEPT !.state = "ready", !.kind = scenario.calls[c],
                                                   !.route = route, !.original = route]]
          /\ cache' = cache_authoritative_route(route)
    /\ UNCHANGED <<scenario, pending, next_attempt, catalog, dispatcher, network, servers, tablet>>

\* No replica is left to try: a bounded loop counts the turn, the others start over.
Exhausted(c) ==
    LET k == call[c] IN
    /\ k.state = "ready" /\ k.kind \notin ControlKinds
    /\ next_unattempted_replica(k.route, k.attempted) = NoNode
    /\ call' = [call EXCEPT ![c] =
                  IF ~Policy(k.kind).bounded THEN [k EXCEPT !.attempted = {}]
                  ELSE IF k.attempt + 1 < MaxAttempts
                       THEN [k EXCEPT !.attempt = @ + 1, !.last = Reply("LeaderUnknown")]
                       ELSE submit_with_outcome_recovery(k, Reply("LeaderUnknown"), FALSE)]
    /\ UNCHANGED <<scenario, pending, next_attempt, cache, catalog, dispatcher, network, servers, tablet>>

\* The deadline ends the loop: the last error, or unavailability when there is none.
GiveUp(c) ==
    LET k == call[c] IN
    /\ k.state = "ready" /\ k.kind \notin ControlKinds
    /\ DeadlinePasses
    /\ call' = [call EXCEPT ![c] = submit_with_outcome_recovery(
                    k, IF k.last = NoReply THEN Reply("TabletUnavailable") ELSE k.last, FALSE)]
    /\ UNCHANGED <<pending, next_attempt, cache, catalog, dispatcher, network, servers, tablet>>

Targets(k) == IF k.kind \in ControlKinds THEN Nodes \ {Gateway}
              ELSE {next_unattempted_replica(k.route, k.attempted)} \ {NoNode}

Tried(k, target) == [k EXCEPT !.target = target, !.attempted = @ \cup {target}]

\* submit_command_to with the local node as target.  A command whose admission or
\* answer fails is uncertain; an outcome query waits for room in the mailbox.
AttemptLocal(c) ==
    LET k == Tried(call[c], Gateway)
        refused == IF k.kind = "command" THEN "RequestOutcomeUnknown" ELSE "ProposalUnavailable"
    IN
    /\ call[c].state = "ready" /\ Gateway \in Targets(call[c])
    /\ \/ /\ Len(mailbox[Gateway]) < MaxMailbox
          /\ mailbox' = [mailbox EXCEPT ![Gateway] =
                Append(@, local_request(c, k))]
          /\ call' = [call EXCEPT ![c] = [k EXCEPT !.state = "waiting"]]
          /\ cache' = cache
       \/ /\ Len(mailbox[Gateway]) >= MaxMailbox /\ k.kind # "query"
          /\ \E published \in PublishedLeaders, budget \in BOOLEAN :
                AttemptEnds(c, k, Reply(refused), published, budget)
          /\ mailbox' = mailbox
    /\ UNCHANGED <<scenario, pending, next_attempt, catalog, dispatcher, network,
                   serving, next_token, host_queue, tablet>>

\* send_remote: the attempt is entered in the table, then its frame is queued; a
\* full queue takes the entry out again.
AttemptRemote(c) ==
    \E target \in Targets(call[c]) \ {Gateway} :
    LET k == Tried(call[c], target)
        request == attach_rpc_attempt_id(c, next_attempt)
        frame == encode_rpc_frame(request)
    IN
    /\ call[c].state = "ready" /\ LockIsFree
    /\ next_attempt' = next_attempt + 1
    /\ \/ /\ Admits(peer[Gateway][target], frame)
          /\ peer' = [peer EXCEPT ![Gateway][target] = try_send(@, frame)]
          /\ pending' = pending \cup {[id |-> request.attempt, target |-> target, caller |-> c]}
          /\ call' = [call EXCEPT ![c] = [k EXCEPT !.state = "waiting", !.id = request.attempt]]
          /\ cache' = cache
       \/ /\ ~Admits(peer[Gateway][target], frame)
          /\ \E published \in PublishedLeaders, budget \in BOOLEAN :
                AttemptEnds(c, k, Reply("ProposalUnavailable"), published, budget)
          /\ UNCHANGED <<peer, pending>>
    /\ UNCHANGED <<scenario, catalog, dispatcher, wire, inbound, routes, servers, tablet>>

\* forwarded_foreground_budget_millis: what is left of the deadline is less than the
\* margin kept for the answer.  A query ends there, the other loops go on.
NoBudget(c) ==
    \E target \in Targets(call[c]) \ {Gateway} :
    LET k == Tried(call[c], target) IN
    /\ call[c].state = "ready" /\ k.kind \notin ControlKinds
    /\ DeadlinePasses
    /\ IF k.kind = "query"
       THEN /\ call' = [call EXCEPT ![c] = Done(k, "OutcomeUnknown")]
            /\ cache' = cache
       ELSE \E published \in PublishedLeaders :
              AttemptEnds(c, k, Reply("ProposalUnavailable"), published, FALSE)
    /\ UNCHANGED <<pending, next_attempt, catalog, dispatcher, network, servers, tablet>>

\* The answer arrived: a tablet waiter does not accept a control response.
Learn(c) ==
    LET k == call[c]
        reply == IF (k.answers.kind \in ControlKinds) # (k.kind \in ControlKinds)
                 THEN Reply("CorruptData") ELSE k.answer
        uncertain == k.target = Gateway /\ k.kind = "command" /\ reply.status = "ProposalUnavailable"
    IN
    /\ k.state = "waiting" /\ k.answer # NoReply
    /\ \E published \in PublishedLeaders, budget \in BOOLEAN :
          AttemptEnds(c, k, IF uncertain THEN Reply("RequestOutcomeUnknown") ELSE reply,
                      published, budget)
    /\ UNCHANGED <<scenario, pending, next_attempt, catalog, dispatcher, network, servers, tablet>>

\* A bug to be caught: the entry of an attempt that timed out stays in the table.
ForgetNothing(entries, id) == entries

ForgetAttempt(entries, id) == {p \in entries : p.id # id}

\* recv_timeout of send_remote, prepare and propose, or of the local handle.
Timeout(c) ==
    LET k == call[c]
        reply == IF k.kind = "command" THEN "RequestOutcomeUnknown" ELSE "ProposalUnavailable"
    IN
    /\ k.state = "waiting" /\ k.answer = NoReply
    /\ k.target # Gateway => LockIsFree
    /\ DeadlinePasses
    /\ pending' = IF k.target = Gateway THEN pending ELSE ForgetAttempt(pending, k.id)
    /\ \E published \in PublishedLeaders, budget \in BOOLEAN :
          AttemptEnds(c, k, Reply(reply), published, budget)
    /\ UNCHANGED <<next_attempt, catalog, dispatcher, network, servers, tablet>>

-----------------------------------------------------------------------------
(* The transport.                                                          *)

\* A Raft message of some group leaves a node: a heartbeat or an append.
RaftSend(n, m, beat) ==
    LET message == [control |-> beat, heartbeat |-> beat, group |-> "other", number |-> scenario.raft]
        frame == encode_routed_message(message)
    IN
    /\ n # m /\ scenario.raft > 0
    /\ scenario' = [scenario EXCEPT !.raft = @ - 1]
    /\ peer' = [peer EXCEPT ![n][m] = try_send(@, frame)]
    /\ UNCHANGED <<call, pending, next_attempt, cache, catalog, dispatcher, wire, inbound, routes,
                   servers, tablet>>

\* outbound_worker takes the next frame of its peer ...
TakeFrame(n, m) ==
    /\ peer[n][m].writing = NoFrame /\ Queued(peer[n][m]) # <<>>
    /\ peer' = [peer EXCEPT ![n][m] = pop_next(@)]
    /\ UNCHANGED <<callers, dispatcher, wire, inbound, routes, servers, tablet>>

\* ... and writes it, or loses it with the connection.
outbound_worker(n, m) ==
    /\ peer[n][m].writing # NoFrame
    /\ \E written \in BOOLEAN :
          /\ written \/ scenario.losses > 0
          /\ scenario' = IF written THEN scenario ELSE [scenario EXCEPT !.losses = @ - 1]
          /\ wire' = IF written THEN [wire EXCEPT ![n][m] = Append(@, peer[n][m].writing)] ELSE wire
          /\ peer' = [peer EXCEPT ![n][m] = finish(@, written)]
    /\ UNCHANGED <<call, pending, next_attempt, cache, catalog, dispatcher, inbound, routes,
                   servers, tablet>>

\* handle_connection reads a frame; a frame it rejects ends the connection.
handle_connection(n, m) ==
    /\ wire[n][m] # <<>>
    /\ inbound' = [inbound EXCEPT ![m] = handle_frame(@, routes[m], n, Head(wire[n][m]))]
    /\ wire' = [wire EXCEPT ![n][m] = IF Rejected(inbound[m], routes[m], n, Head(@))
                                      THEN <<>> ELSE Tail(@)]
    /\ UNCHANGED <<callers, dispatcher, peer, routes, servers, tablet>>

\* The connection breaks with what it holds.
ConnectionBreaks(n, m) ==
    /\ wire[n][m] # <<>> /\ scenario.losses > 0
    /\ scenario' = [scenario EXCEPT !.losses = @ - 1]
    /\ wire' = [wire EXCEPT ![n][m] = <<>>]
    /\ UNCHANGED <<call, pending, next_attempt, cache, catalog, dispatcher, peer, inbound, routes,
                   servers, tablet>>

\* The host thread takes a Raft message, control first.
HostReceives(m) ==
    /\ \/ /\ inbound[m].control # <<>>
          /\ inbound' = [inbound EXCEPT ![m].control = Tail(@)]
       \/ /\ inbound[m].control = <<>> /\ inbound[m].bulk # <<>>
          /\ inbound' = [inbound EXCEPT ![m].bulk = Tail(@)]
    /\ UNCHANGED <<callers, dispatcher, peer, wire, routes, servers, tablet>>

\* A replica of the other group starts, or ends, on this node.
ChangeRoute(m) ==
    /\ scenario.routes > 0
    /\ scenario' = [scenario EXCEPT !.routes = @ - 1]
    /\ \E n \in Nodes \ {m} :
          routes' = [routes EXCEPT ![m] = IF <<"other", n>> \in @
                                          THEN unregister_dynamic_route(@, "other", n)
                                          ELSE register_route(@, "other", n)]
    /\ UNCHANGED <<call, pending, next_attempt, cache, catalog, dispatcher, peer, wire, inbound,
                   servers, tablet>>

-----------------------------------------------------------------------------
(* The dispatcher.                                                         *)

Incoming(n) == Head(inbound[n].rpc)
Runs(n) == n = Gateway => dispatcher = "running"
Consume(n) == inbound' = [inbound EXCEPT ![n].rpc = Tail(@)]

HasRequest(n, kinds) ==
    /\ Runs(n) /\ inbound[n].rpc # <<>>
    /\ Incoming(n).message.type = "request" /\ Incoming(n).message.kind \in kinds

\* The entry of the answer first, then the mailbox: a full table, or a full mailbox,
\* is answered at once, and a full mailbox takes the entry out again.
Admit(n) ==
    LET request == Incoming(n).message
        reserved == reserve_tablet_rpc(n, Incoming(n).source, request)
        fits == reserved # serving[n] /\ Len(mailbox[n]) < MaxMailbox
    IN
    /\ serving' = [serving EXCEPT ![n] = IF fits THEN reserved
                                         ELSE cancel_tablet_rpc(reserved, next_token[n])]
    /\ next_token' = [next_token EXCEPT ![n] = @ + 1]
    /\ mailbox' = IF ~fits THEN mailbox
                  ELSE [mailbox EXCEPT ![n] = Append(@, enqueue_rpc(n, request))]
    /\ peer' = IF fits THEN peer
               ELSE send_response(n, request, Incoming(n).source, Reply("ProposalUnavailable"))

TabletRequest(n, kind) ==
    /\ HasRequest(n, {kind})
    /\ Consume(n)
    /\ Admit(n)
    /\ UNCHANGED <<callers, dispatcher, wire, routes, host_queue, tablet>>

TabletCommandRequest(n) == TabletRequest(n, "command")
TabletReadRequest(n) == TabletRequest(n, "read")
TabletTransactionStatusRequest(n) == TabletRequest(n, "status")
TabletPointInspectionRequest(n) == TabletRequest(n, "inspect")
TabletScanRequest(n) == TabletRequest(n, "scan")
TabletOutcomeQueryRequest(n) == TabletRequest(n, "query")

\* MetadataRequest and ReplicaJoinRequest: the same order, with the table of control
\* requests and the queue of the host thread.
AdmitControl(n) ==
    LET request == Incoming(n).message
        reserved == reserve_control_rpc(n, Incoming(n).source, request)
        fits == reserved # serving[n] /\ Len(host_queue[n]) < MaxMailbox
    IN
    /\ serving' = [serving EXCEPT ![n] = IF fits \/ reserved = serving[n] THEN reserved
                                         ELSE cancel_control_rpc(reserved, request.attempt)]
    /\ host_queue' = IF fits THEN [host_queue EXCEPT ![n] = Append(@, request)] ELSE host_queue
    /\ peer' = IF fits THEN peer
               ELSE send_response(n, request, Incoming(n).source, Reply("ProposalUnavailable"))

MetadataRequest(n) ==
    /\ HasRequest(n, {"metadata"})
    /\ Consume(n)
    /\ AdmitControl(n)
    /\ UNCHANGED <<callers, dispatcher, wire, routes, next_token, mailbox, tablet>>

ReplicaJoinRequest(n) ==
    /\ HasRequest(n, {"join"})
    /\ Consume(n)
    /\ AdmitControl(n)
    /\ UNCHANGED <<callers, dispatcher, wire, routes, next_token, mailbox, tablet>>

\* An answer is for the attempt it names, and only from the node the attempt was sent to.
Awaited(n) ==
    {p \in pending : p.id = Incoming(n).message.attempt /\ p.target = Incoming(n).source}

HasResponse(n, kinds) ==
    /\ n = Gateway /\ Runs(n) /\ inbound[n].rpc # <<>>
    /\ Incoming(n).message.type = "response" /\ Incoming(n).message.kind \in kinds

\* TabletCommandResponse and MetadataResponse: taken out of the table and handed over.
DeliverResponse(n) ==
    /\ Consume(n)
    /\ pending' = pending \ Awaited(n)
    /\ call' = [c \in Callers |->
                  IF \E p \in Awaited(n) : p.caller = c
                  THEN [call[c] EXCEPT !.answer = response_error(Incoming(n).message.reply),
                                       !.answers = [caller |-> Incoming(n).message.caller,
                                                    kind |-> Incoming(n).message.kind,
                                                    from |-> Incoming(n).source]]
                  ELSE call[c]]
    /\ UNCHANGED <<scenario, next_attempt, cache, catalog, dispatcher, peer, wire, routes, servers, tablet>>

TabletCommandResponse(n) ==
    HasResponse(n, {"command", "query", "read", "status", "inspect", "scan"}) /\ DeliverResponse(n)
MetadataResponse(n) == HasResponse(n, {"metadata"}) /\ DeliverResponse(n)

\* ReplicaJoinResponse locks the table a second time while the guard of the first
\* lock still lives: with a matching entry the dispatcher waits for itself.
ReplicaJoinResponse(n) ==
    /\ HasResponse(n, {"join"})
    /\ Consume(n)
    /\ dispatcher' = IF Awaited(n) # {} THEN "blocked" ELSE dispatcher
    /\ UNCHANGED <<callers, peer, wire, routes, servers, tablet>>

\* drain_tablet_rpc_completions: an entry past its deadline answers with the deadline,
\* also when its completion is there.
drain_tablet_rpc_completions(n) ==
    /\ Runs(n)
    /\ \E p \in TabletRequests(n), late \in BOOLEAN :
          /\ IF late THEN DeadlinePasses ELSE p.completion # NoReply /\ scenario' = scenario
          /\ serving' = [serving EXCEPT ![n] = @ \ {p}]
          /\ peer' = send_response(n, p.request, p.source,
                        IF late THEN tablet_rpc_deadline_error(p.request.kind) ELSE p.completion)
    /\ UNCHANGED <<call, pending, next_attempt, cache, catalog, dispatcher, wire, inbound, routes, next_token, mailbox, host_queue, tablet>>

\* drain_control_rpc_completions: here a completion wins over the deadline.
drain_control_rpc_completions(n) ==
    /\ Runs(n)
    /\ \E p \in ControlRequests(n) :
          /\ IF p.completion = NoReply THEN DeadlinePasses ELSE scenario' = scenario
          /\ serving' = [serving EXCEPT ![n] = @ \ {p}]
          /\ peer' = send_response(n, p.request, p.source,
                        IF p.completion = NoReply THEN Reply("ProposalUnavailable") ELSE p.completion)
    /\ UNCHANGED <<call, pending, next_attempt, cache, catalog, dispatcher, wire, inbound, routes, next_token, mailbox, host_queue, tablet>>

-----------------------------------------------------------------------------
(* External: the tablet's reactor and the host thread.                     *)

\* The reply reaches the thread that still waits for it, or the entry of the request.
Complete(n, origin, reply) ==
    IF origin.token = 0
    THEN /\ call' = [c \in Callers |->
                IF c = origin.caller /\ call[c].state = "waiting" /\ call[c].target = n
                   /\ call[c].kind = origin.kind /\ call[c].attempt = origin.attempt
                THEN [call[c] EXCEPT !.answer = reply,
                                     !.answers = [caller |-> c, kind |-> origin.kind, from |-> n]]
                ELSE call[c]]
         /\ serving' = serving
    ELSE /\ serving' = [serving EXCEPT ![n] = publish_tablet_completion(n, origin.token, reply)]
         /\ call' = call

\* The reactor takes a request: it refuses what is not for this epoch or not for a
\* leader, answers reads and outcome queries, and proposes commands.
Serve(n) ==
    /\ mailbox[n] # <<>>
    /\ LET m == Head(mailbox[n]) IN
       /\ mailbox' = [mailbox EXCEPT ![n] = Tail(@)]
       /\ \/ /\ m.epoch # tablet.epoch
             /\ Complete(n, m.origin, [Reply("StaleTabletEpoch") EXCEPT !.epoch = tablet.epoch])
             /\ tablet' = tablet
          \/ /\ m.epoch = tablet.epoch /\ n # tablet.leader
             /\ \E hint \in {tablet.leader, NoNode} :
                   Complete(n, m.origin, [Reply("NotLeader") EXCEPT !.hint = hint])
             /\ tablet' = tablet
          \/ /\ m.epoch = tablet.epoch /\ n = tablet.leader /\ m.kind # "command"
             /\ Complete(n, m.origin,
                    IF m.kind # "query" THEN Reply("row")
                    ELSE IF tablet.outcome[m.caller] = "none" THEN Reply("absent")
                    ELSE Reply(tablet.outcome[m.caller]))
             /\ tablet' = tablet
          \/ /\ m.epoch = tablet.epoch /\ n = tablet.leader /\ m.kind = "command"
             /\ tablet' = [tablet EXCEPT !.proposed = @ \cup
                    {[node |-> n, origin |-> m.origin, caller |-> m.caller, lost |-> FALSE]}]
             /\ UNCHANGED <<call, serving>>
    /\ UNCHANGED <<scenario, pending, next_attempt, cache, catalog, dispatcher, network, next_token,
                   host_queue>>

\* An entry commits and is applied, once for every logical command.
Apply(e) ==
    /\ e \in tablet.proposed
    /\ \E outcome \in {"applied", "rejected"} :
          /\ tablet.outcome[e.caller] \in {"none", outcome}
          /\ tablet' = [tablet EXCEPT !.proposed = @ \ {e}, !.outcome[e.caller] = outcome]
          /\ Complete(e.node, e.origin, Reply(outcome))
    /\ UNCHANGED <<scenario, pending, next_attempt, cache, catalog, dispatcher, network, next_token,
                   mailbox, host_queue>>

\* Leadership moves.  The entries of the old leader may still commit.
Elect ==
    /\ scenario.elections > 0
    /\ scenario' = [scenario EXCEPT !.elections = @ - 1]
    /\ \E leader \in (Nodes \cup {NoNode}) \ {tablet.leader} :
          tablet' = [tablet EXCEPT !.leader = leader,
                        !.proposed = {[e EXCEPT !.lost = TRUE] : e \in @}]
    /\ UNCHANGED <<call, pending, next_attempt, cache, catalog, dispatcher, network, servers>>

\* The deposed leader tells its waiters that their proposals are unavailable.
Abandon(e) ==
    /\ e \in tablet.proposed /\ e.lost /\ e.node # NoNode
    /\ tablet' = [tablet EXCEPT !.proposed = (@ \ {e}) \cup
                    {[e EXCEPT !.node = NoNode, !.origin = RemoteOrigin(0)]}]
    /\ Complete(e.node, e.origin, Reply("ProposalUnavailable"))
    /\ UNCHANGED <<scenario, pending, next_attempt, cache, catalog, dispatcher, network, next_token,
                   mailbox, host_queue>>

\* The tablet's epoch moves, and the gateway's copy of the catalog follows later.
ChangeEpoch ==
    /\ scenario.epochs > 0
    /\ scenario' = [scenario EXCEPT !.epochs = @ - 1]
    /\ tablet' = [tablet EXCEPT !.epoch = @ + 1]
    /\ UNCHANGED <<call, pending, next_attempt, cache, catalog, dispatcher, network, servers>>

PublishCatalog ==
    /\ catalog < tablet.epoch
    /\ catalog' = catalog + 1
    /\ UNCHANGED <<scenario, call, pending, next_attempt, cache, dispatcher, network, servers, tablet>>

HostAnswers(n) ==
    /\ host_queue[n] # <<>>
    /\ host_queue' = [host_queue EXCEPT ![n] = Tail(@)]
    /\ serving' = [serving EXCEPT ![n] =
                     {IF p.request = Head(host_queue[n]) THEN [p EXCEPT !.completion = Reply("done")]
                      ELSE p : p \in @}]
    /\ UNCHANGED <<callers, dispatcher, network, next_token, mailbox, tablet>>

-----------------------------------------------------------------------------
Init ==
    /\ scenario \in Scenarios
    /\ call = [c \in Callers |-> IdleCall]
    /\ pending = {} /\ next_attempt = 1 /\ dispatcher = "running"
    /\ cache = [epoch |-> 0, leader |-> NoNode] /\ catalog = 1
    /\ peer = [n \in Nodes |-> [m \in Nodes |-> OutboundPeer]]
    /\ wire = [n \in Nodes |-> [m \in Nodes |-> <<>>]]
    /\ inbound = [n \in Nodes |-> InboundQueues]
    /\ routes = [n \in Nodes |-> {<<"other", m>> : m \in Nodes \ {n}}]
    /\ serving = [n \in Nodes |-> {}] /\ next_token = [n \in Nodes |-> 1]
    /\ mailbox = [n \in Nodes |-> <<>>] /\ host_queue = [n \in Nodes |-> <<>>]
    /\ tablet \in [leader : {scenario.leader}, epoch : {1}, proposed : {{}},
                   outcome : {[c \in Callers |-> "none"]}]

CallerStep(c) == Begin(c) \/ Exhausted(c) \/ GiveUp(c) \/ AttemptLocal(c) \/ AttemptRemote(c)
                 \/ NoBudget(c) \/ Learn(c) \/ Timeout(c)

TransportStep(n, m) ==
    \/ \E beat \in BOOLEAN : RaftSend(n, m, beat)
    \/ TakeFrame(n, m) \/ outbound_worker(n, m) \/ handle_connection(n, m) \/ ConnectionBreaks(n, m)

dispatch_message(n) ==
    \/ TabletCommandRequest(n) \/ TabletReadRequest(n) \/ TabletTransactionStatusRequest(n)
    \/ TabletPointInspectionRequest(n) \/ TabletScanRequest(n) \/ TabletOutcomeQueryRequest(n)
    \/ MetadataRequest(n) \/ ReplicaJoinRequest(n)
    \/ TabletCommandResponse(n) \/ MetadataResponse(n) \/ ReplicaJoinResponse(n)

DispatcherStep(n) ==
    drain_control_rpc_completions(n) \/ drain_tablet_rpc_completions(n) \/ dispatch_message(n)

TabletStep == Elect \/ ChangeEpoch \/ PublishCatalog
              \/ \E e \in tablet.proposed : Apply(e) \/ Abandon(e)

Next ==
    \/ \E c \in Callers : CallerStep(c)
    \/ \E n \in Nodes, m \in Nodes : TransportStep(n, m)
    \/ \E n \in Nodes : HostReceives(n) \/ ChangeRoute(n) \/ DispatcherStep(n)
                         \/ Serve(n) \/ HostAnswers(n)
    \/ TabletStep

Spec == Init /\ [][Next]_vars

-----------------------------------------------------------------------------
(* Properties.                                                             *)

\* An answer handed to a waiting thread is the answer to what it waits for: its own
\* request, of the kind it is waiting for now, from the node it asked.  A late answer
\* to a command is not taken for the answer to the query that followed it.
OwnAnswers ==
    \A c \in Callers : call[c].answer # NoReply =>
        call[c].answers = [caller |-> c, kind |-> call[c].kind, from |-> call[c].target]

\* What a command call reports as applied was applied and what it reports as rejected
\* was rejected, whichever of its attempts or outcome queries gave the answer.
AnswersAreTrue ==
    \A c \in Callers : scenario.calls[c] = "command" /\ call[c].result \in {"applied", "rejected"} =>
        tablet.outcome[c] = call[c].result

IsAttempt(message, id) == "attempt" \in DOMAIN message /\ message.attempt = id

Carrying(frames, id) ==
    Cardinality({i \in DOMAIN frames : \E j \in DOMAIN frames[i].body : IsAttempt(frames[i].body[j], id)})

AttemptsBetween(n, m, id) ==
    Carrying(Queued(peer[n][m]), id) + Carrying(<<peer[n][m].writing>>, id) + Carrying(wire[n][m], id)

AttemptsAt(n, id) ==
    Cardinality({i \in DOMAIN inbound[n].rpc : inbound[n].rpc[i].message.attempt = id})
        + Cardinality({p \in serving[n] : p.request.attempt = id})

\* Every attempt is accounted for at both ends.  The caller's table of awaited answers
\* holds only attempts a thread is waiting for: one that timed out, failed to be queued
\* or was answered leaves no entry.  And a request is in one place, on its way, in a
\* table of the serving node, or answered and on its way back: no refusal, deadline or
\* late completion answers it twice.
AttemptsAreTracked ==
    /\ \A p \in pending : /\ call[p.caller].state = "waiting" /\ call[p.caller].id = p.id
                          /\ call[p.caller].answer = NoReply
    /\ \A id \in 1..(next_attempt - 1) :
        MapThenSumSet(LAMBDA pair: AttemptsBetween(pair[1], pair[2], id), Nodes \X Nodes)
          + MapThenSumSet(LAMBDA n: AttemptsAt(n, id), Nodes) <= 1

\* A command reported as failed is not applied later.
FailureIsDefinite ==
    \A c \in Callers : scenario.calls[c] = "command" /\ call[c].result = "Unavailable" =>
        tablet.outcome[c] # "applied"

\* The dispatcher never waits for a lock that it holds itself: one join must not keep
\* every other request of the node from being answered.
DispatcherNeverBlocksItself == dispatcher = "running"
=============================================================================
