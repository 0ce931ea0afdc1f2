--------------------------- MODULE NodeTransport ---------------------------
(***************************************************************************)
(* The node-to-node transport of ragnordb-multiraft: one bounded outbound  *)
(* queue per peer with three classes of frame and a byte budget, one       *)
(* worker per peer that writes one frame at a time, and bounded inbound    *)
(* queues on the receiving node.  The module has no state of its own: a    *)
(* peer and a set of inbound queues are records, and each operator is what *)
(* one function of the transport does to such a record.                    *)
(*                                                                         *)
(* A frame is [class, beat, group, bytes, body]: its queue class, whether  *)
(* it is a heartbeat that may share a frame with others, the Raft group it *)
(* belongs to, its size, and what the receiver gets out of it (a sequence, *)
(* because a batch carries several heartbeats).                            *)
(***************************************************************************)
EXTENDS Integers, Sequences, FiniteSets

CONSTANTS
    MaxQueue,        \* outbound_queue_capacity: frames queued for one peer
    MaxQueueBytes,   \* outbound_queue_bytes: bytes reserved for one peer
    MaxInbound,      \* inbound queue capacity, of each inbound queue
    MaxBatch         \* MAX_HEARTBEAT_BATCH_ITEMS

ASSUME TransportBounds ==
    /\ MaxQueue \in Nat \ {0}
    /\ MaxQueueBytes \in Nat \ {0}
    /\ MaxInbound \in Nat \ {0}
    /\ MaxBatch \in Nat \ {0}

NoFrame == [class |-> "none", beat |-> FALSE, group |-> "none",
            bytes |-> 0, body |-> <<>>]

-----------------------------------------------------------------------------
(* Frames.  encode_rpc_frame and encode_routed_message give every message a *)
(* header and a length; the model keeps one unit of size for a message.    *)

encode_rpc_frame(body) ==
    [class |-> "rpc", beat |-> FALSE, group |-> "none", bytes |-> 1, body |-> <<body>>]

encode_routed_message(message) ==
    [class |-> IF message.control THEN "control" ELSE "bulk",
     beat |-> message.control /\ message.heartbeat,
     group |-> message.group,
     bytes |-> 1,
     body |-> <<message>>]

\* A batch keeps the order of its heartbeats, one message and one unit each.
encode_heartbeat_batch(frames) ==
    [frames[1] EXCEPT !.beat = FALSE,
                      !.bytes = Len(frames),
                      !.body = [i \in DOMAIN frames |-> frames[i].body[1]]]

-----------------------------------------------------------------------------
(* The sending side: OutboundPeer.                                         *)

OutboundPeer == [control |-> <<>>, rpc |-> <<>>, bulk |-> <<>>,
                 queued_bytes |-> 0, writing |-> NoFrame]

Queued(peer) == peer.control \o peer.rpc \o peer.bulk

\* OutboundPeer::try_send refuses a frame when the queue or its bytes are full.
Admits(peer, frame) ==
    /\ frame.bytes <= MaxQueueBytes
    /\ Len(peer.control) + Len(peer.rpc) + Len(peer.bulk) < MaxQueue
    /\ peer.queued_bytes + frame.bytes <= MaxQueueBytes

try_send(peer, frame) ==
    IF ~Admits(peer, frame)
    THEN peer
    ELSE [peer EXCEPT !.control = IF frame.class = "control" THEN Append(@, frame) ELSE @,
                      !.rpc = IF frame.class = "rpc" THEN Append(@, frame) ELSE @,
                      !.bulk = IF frame.class = "bulk" THEN Append(@, frame) ELSE @,
                      !.queued_bytes = @ + frame.bytes]

\* How many heartbeats at the head of the control queue leave as one frame.
BatchLength(control) ==
    IF ~Head(control).beat
    THEN 1
    ELSE CHOOSE n \in 1..Len(control) :
            /\ n <= MaxBatch
            /\ \A i \in 1..n : control[i].beat
            /\ n = Len(control) \/ n = MaxBatch \/ ~control[n + 1].beat

\* Control frames first, then RPCs, then bulk Raft traffic.  The bytes of the
\* frame stay reserved while it is written.
pop_next(peer) ==
    CASE peer.control # <<>> ->
            LET n == BatchLength(peer.control)
                taken == SubSeq(peer.control, 1, n)
            IN  [peer EXCEPT !.control = SubSeq(@, n + 1, Len(@)),
                             !.writing = IF n = 1 THEN taken[1]
                                                  ELSE encode_heartbeat_batch(taken)]
      [] peer.control = <<>> /\ peer.rpc # <<>> ->
            [peer EXCEPT !.rpc = Tail(@), !.writing = Head(peer.rpc)]
      [] peer.control = <<>> /\ peer.rpc = <<>> /\ peer.bulk # <<>> ->
            [peer EXCEPT !.bulk = Tail(@), !.writing = Head(peer.bulk)]
      [] OTHER -> peer

\* outbound_worker calls finish whether or not the write succeeded.
finish(peer, written) ==
    [peer EXCEPT !.queued_bytes = @ - peer.writing.bytes, !.writing = NoFrame]

-----------------------------------------------------------------------------
(* The receiving side: the inbound queues, and the routes that say which   *)
(* node may speak for which replica.                                       *)

InboundQueues == [control |-> <<>>, rpc |-> <<>>, bulk |-> <<>>]

\* validate_authenticated_raft_message: the source replica has a route, and the
\* route leads to the node at the other end of the connection.
Authenticated(routes, remote, frame) ==
    frame.class = "rpc" \/ <<frame.group, remote>> \in routes

\* register_route: a route is added once; the model's replicas are nodes, so two
\* registrations of one replica never disagree.
register_route(routes, group, node) == routes \cup {<<group, node>>}

unregister_dynamic_route(routes, group, node) == routes \ {<<group, node>>}

\* queue_raft_message, try_send_rpc: a message enters its queue or is refused; of
\* a batch, the messages before the refused one have entered.
Enter(queue, remote, body) ==
    LET room == MaxInbound - Len(queue)
        tagged == [i \in DOMAIN body |-> [source |-> remote, message |-> body[i]]]
    IN  queue \o SubSeq(tagged, 1, IF Len(body) <= room THEN Len(body) ELSE room)

\* handle_connection: what one frame leaves in the inbound queues.
handle_frame(inbound, routes, remote, frame) ==
    IF ~Authenticated(routes, remote, frame)
    THEN inbound
    ELSE [inbound EXCEPT !.control = IF frame.class = "control"
                                     THEN Enter(@, remote, frame.body) ELSE @,
                         !.rpc = IF frame.class = "rpc" THEN Enter(@, remote, frame.body) ELSE @,
                         !.bulk = IF frame.class = "bulk" THEN Enter(@, remote, frame.body) ELSE @]

\* A rejected frame ends the connection, and everything still in it is lost.
Rejected(inbound, routes, remote, frame) ==
    \/ ~Authenticated(routes, remote, frame)
    \/ LET queue == CASE frame.class = "control" -> inbound.control
                      [] frame.class = "rpc" -> inbound.rpc
                      [] OTHER -> inbound.bulk
       IN  Len(queue) + Len(frame.body) > MaxInbound
=============================================================================
