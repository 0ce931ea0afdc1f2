-------------------------- MODULE TabletRpcLemmas --------------------------
(***************************************************************************)
(* The inductive invariant RpcInv of requests between nodes, and the half  *)
(* of the induction that concerns the callers and the transport: every     *)
(* step of a calling thread, of a peer worker, of a connection and of the  *)
(* catalog keeps it.  TabletRpcProofs adds the dispatcher and the tablet.  *)
(***************************************************************************)
EXTENDS TabletRpc, WellFoundedInduction, TLAPS

(***************************************************************************)
(* Replies that are true of a command with outcome o.                      *)
(***************************************************************************)
Hints == Nodes \cup {NoNode}
Outcomes == {"none", "applied", "rejected"}
Statuses == {"none", "applied", "rejected", "absent", "row", "done", "NotLeader", "LeaderUnknown",
             "LEADER_UNKNOWN", "StaleTabletEpoch", "TabletUnavailable", "TABLET_UNAVAILABLE",
             "ProposalUnavailable", "RequestOutcomeUnknown", "CorruptData"}
Replies == [status : Statuses, hint : Hints, epoch : Nat]
Answers(o) == {r \in Replies : r.status \in {"applied", "rejected"} => o = r.status}

(***************************************************************************)
(* Messages.  A sound message names an attempt that was made; if the       *)
(* attempt is still awaited, the message is of the caller and the kind of  *)
(* that call.                                                              *)
(***************************************************************************)
Messages == [type : {"request", "response"}, caller : Callers, kind : Kinds, attempt : Nat,
             epoch : Nat, reply : Replies]

Sound(x) ==
    /\ x.attempt < next_attempt
    /\ x.reply \in Answers(tablet.outcome[x.caller])
    /\ \A p \in pending : p.id = x.attempt => x.caller = p.caller /\ x.kind = call[p.caller].kind

SoundMessages == {x \in Messages : Sound(x)}

(***************************************************************************)
(* The transport, over a set S of messages.                                *)
(***************************************************************************)
RaftMessages == [control : BOOLEAN, heartbeat : BOOLEAN, group : {"other"}, number : Int]
RaftFrames == [class : {"control", "bulk"}, beat : BOOLEAN, group : {"other"}, bytes : Nat,
               body : Seq(RaftMessages) \ {<<>>}]
RpcFrames(S) == {encode_rpc_frame(x) : x \in S}
WireFrames(S) == RpcFrames(S) \cup RaftFrames

Peers(S) == [control : Seq(RaftFrames), rpc : Seq(RpcFrames(S)), bulk : Seq(RaftFrames),
             queued_bytes : Int, writing : WireFrames(S) \cup {NoFrame}]
Inbounds(S) == [control : Seq([source : Nodes, message : RaftMessages]),
                rpc : Seq([source : Nodes, message : S]),
                bulk : Seq([source : Nodes, message : RaftMessages])]

NetworkOK(S) ==
    /\ peer \in [Nodes -> [Nodes -> Peers(S)]]
    /\ wire \in [Nodes -> [Nodes -> Seq(WireFrames(S))]]
    /\ inbound \in [Nodes -> Inbounds(S)]

(***************************************************************************)
(* The calls.  o is the outcome of the caller's command.                   *)
(***************************************************************************)
IsRoute(r) == r = [epoch |-> r.epoch, leader |-> r.leader] /\ r.epoch \in Nat

IsCall(k) ==
    /\ k = [state |-> k.state, kind |-> k.kind, route |-> k.route, original |-> k.original,
            attempted |-> k.attempted, attempt |-> k.attempt, id |-> k.id, target |-> k.target,
            last |-> k.last, answer |-> k.answer, answers |-> k.answers, result |-> k.result]
    /\ IsRoute(k.route) /\ IsRoute(k.original) /\ k.attempt \in Nat

CallOK(c, k, o) ==
    /\ IsCall(k)
    /\ k.state \in {"ready", "waiting"} => k.kind \in Kinds
    /\ k.state = "waiting" => k.target # NoNode
    /\ k.answer \in Answers(o) /\ k.last \in Answers(o)
    /\ k.answer # NoReply =>
         k.state = "waiting" /\ k.answers = [caller |-> c, kind |-> k.kind, from |-> k.target]
    /\ k.result \in {"applied", "rejected"} => o = k.result

CallsOK ==
    /\ call = [c \in Callers |-> call[c]]
    /\ \A c \in Callers : CallOK(c, call[c], tablet.outcome[c])

PendingOK ==
    \A p \in pending :
        /\ p.id \in Nat /\ p.id < next_attempt /\ p.caller \in Callers /\ p.target # Gateway
        /\ call[p.caller].state = "waiting" /\ call[p.caller].id = p.id
        /\ call[p.caller].target = p.target /\ call[p.caller].answer = NoReply

(***************************************************************************)
(* The serving nodes.  A request of a mailbox, or a proposal, that came    *)
(* from a thread of the gateway knows its caller; one from the wire meets, *)
(* under its token, only the entry of the caller it is about.              *)
(***************************************************************************)
Origins == [token : Nat, caller : Callers \cup {"none"}, kind : Kinds \cup {"none"}, attempt : Nat]
Requests == [origin : Origins, kind : Kinds, caller : Callers, epoch : Nat]
Proposals == [node : Hints, origin : Origins, caller : Callers, lost : BOOLEAN]

Entries(S) == {p \in [token : Nat, source : Nodes, request : S, completion : Replies] :
                  p.completion \in Answers(tablet.outcome[p.request.caller])}

Answerable(n, o, c) ==
    IF o.token = 0 THEN n = Gateway /\ o.caller = c
    ELSE /\ o.token < next_token[n]
         /\ \A p \in serving[n] :
               p.token = o.token /\ p.request.kind \notin ControlKinds => p.request.caller = c

AnswerableRequests(n) == {m \in Requests : Answerable(n, m.origin, m.caller)}

TokensOK == \A n \in Nodes : \A p \in serving[n] : p.token < next_token[n]

ServersOK(S) ==
    /\ serving \in [Nodes -> SUBSET Entries(S)]
    /\ next_token \in [Nodes -> Nat \ {0}] /\ TokensOK
    /\ mailbox = [n \in Nodes |-> mailbox[n]]
    /\ \A n \in Nodes : mailbox[n] \in Seq(AnswerableRequests(n))
    /\ \A e \in tablet.proposed : IF e.node \in Nodes THEN Answerable(e.node, e.origin, e.caller)
                                                      ELSE e.origin.token = 0

ScenarioStates == [calls : [Callers -> Kinds \cup {"none"}], leader : Hints,
                   elections : Int, epochs : Int, deadlines : Int, losses : Int,
                   raft : Int, routes : Int]

StateOK ==
    /\ scenario \in ScenarioStates
    /\ next_attempt \in Nat /\ catalog \in Nat
    /\ tablet \in [leader : Hints, epoch : Nat, proposed : SUBSET Proposals,
                   outcome : [Callers -> Outcomes]]

RpcInv ==
    /\ StateOK /\ CallsOK /\ PendingOK
    /\ NetworkOK(SoundMessages) /\ ServersOK(SoundMessages)

(***************************************************************************)
(* Sequences.                                                              *)
(***************************************************************************)
LEMMA SeqGrows == ASSUME NEW A, NEW B, A \subseteq B PROVE Seq(A) \subseteq Seq(B)
  OBVIOUS

LEMMA SeqParts ==
  ASSUME NEW A, NEW q \in Seq(A), q # <<>>
  PROVE  Head(q) \in A /\ Tail(q) \in Seq(A)
  OBVIOUS

LEMMA SeqAppended ==
  ASSUME NEW A, NEW q \in Seq(A), NEW x \in A
  PROVE  Append(q, x) \in Seq(A)
  OBVIOUS

LEMMA EmptySeq == ASSUME NEW A PROVE <<>> \in Seq(A)
  OBVIOUS

LEMMA SeqSuffix ==
  ASSUME NEW A, NEW q \in Seq(A), NEW n \in 1..Len(q)
  PROVE  SubSeq(q, n + 1, Len(q)) \in Seq(A)
  OBVIOUS

LEMMA SeqPrefix ==
  ASSUME NEW A, NEW q \in Seq(A), NEW n \in 1..Len(q)
  PROVE  /\ SubSeq(q, 1, n) \in Seq(A)
         /\ Len(SubSeq(q, 1, n)) = n
         /\ \A i \in 1..n : SubSeq(q, 1, n)[i] \in A
  OBVIOUS

LEMMA SeqJoined ==
  ASSUME NEW A, NEW q \in Seq(A), NEW r \in Seq(A)
  PROVE  q \o r \in Seq(A)
  OBVIOUS

(***************************************************************************)
(* Frames and queues over more messages.                                   *)
(***************************************************************************)
LEMMA RpcFrameOf == ASSUME NEW S, NEW x \in S PROVE encode_rpc_frame(x) \in RpcFrames(S)
  BY Zenon DEF RpcFrames

LEMMA FramesGrow ==
  ASSUME NEW S, NEW T, S \subseteq T
  PROVE  RpcFrames(S) \subseteq RpcFrames(T) /\ WireFrames(S) \subseteq WireFrames(T)
  BY Zenon DEF RpcFrames, WireFrames

LEMMA PeersGrow ==
  ASSUME NEW S, NEW T, S \subseteq T
  PROVE  Peers(S) \subseteq Peers(T)
<1>1. /\ Seq(RpcFrames(S)) \subseteq Seq(RpcFrames(T))
      /\ WireFrames(S) \cup {NoFrame} \subseteq WireFrames(T) \cup {NoFrame}
  BY FramesGrow, SeqGrows, Zenon
<1> QED
  BY <1>1 DEF Peers

LEMMA InboundsGrow ==
  ASSUME NEW S, NEW T, S \subseteq T
  PROVE  Inbounds(S) \subseteq Inbounds(T)
<1>1. [source : Nodes, message : S] \subseteq [source : Nodes, message : T]
  OBVIOUS
<1>2. Seq([source : Nodes, message : S]) \subseteq Seq([source : Nodes, message : T])
  BY <1>1, SeqGrows, Zenon
<1> QED
  BY <1>2, Zenon DEF Inbounds

LEMMA NetworkGrows ==
  ASSUME NEW S, NEW T, S \subseteq T, NetworkOK(S)
  PROVE  NetworkOK(T)
<1>1. Peers(S) \subseteq Peers(T) /\ Inbounds(S) \subseteq Inbounds(T)
  BY PeersGrow, InboundsGrow, Zenon
<1>2. Seq(WireFrames(S)) \subseteq Seq(WireFrames(T))
  BY FramesGrow, SeqGrows, Zenon
<1>3. /\ peer \in [Nodes -> [Nodes -> Peers(T)]]
      /\ wire \in [Nodes -> [Nodes -> Seq(WireFrames(T))]]
      /\ inbound \in [Nodes -> Inbounds(T)]
  BY <1>1, <1>2 DEF NetworkOK
<1> QED
  BY <1>3, Zenon DEF NetworkOK

(***************************************************************************)
(* The outbound queues.                                                    *)
(***************************************************************************)
LEMMA PeerParts ==
  ASSUME NEW S, NEW q \in Peers(S)
  PROVE  /\ q = [control |-> q.control, rpc |-> q.rpc, bulk |-> q.bulk,
                 queued_bytes |-> q.queued_bytes, writing |-> q.writing]
         /\ q.control \in Seq(RaftFrames) /\ q.rpc \in Seq(RpcFrames(S)) /\ q.bulk \in Seq(RaftFrames)
         /\ q.queued_bytes \in Int /\ q.writing \in WireFrames(S) \cup {NoFrame}
  BY DEF Peers

LEMMA PeerOf ==
  ASSUME NEW S, NEW a \in Seq(RaftFrames), NEW b \in Seq(RpcFrames(S)), NEW c \in Seq(RaftFrames),
         NEW d \in Int, NEW e \in WireFrames(S) \cup {NoFrame}
  PROVE  [control |-> a, rpc |-> b, bulk |-> c, queued_bytes |-> d, writing |-> e] \in Peers(S)
  BY DEF Peers

LEMMA FrameParts ==
  ASSUME NEW S, NEW f \in WireFrames(S)
  PROVE  /\ f.class \in {"rpc", "control", "bulk"} /\ f.bytes \in Nat
         /\ f.class = "rpc" <=> f \in RpcFrames(S)
         /\ f.class # "rpc" <=> f \in RaftFrames
<1>1. CASE f \in RpcFrames(S)
  <2>1. PICK x \in S : f = encode_rpc_frame(x)
    BY <1>1, Zenon DEF RpcFrames
  <2>2. f.class = "rpc" /\ f.bytes = 1
    BY <2>1 DEF encode_rpc_frame
  <2>3. f \notin RaftFrames
    BY <2>2 DEF RaftFrames
  <2> QED
    BY <1>1, <2>2, <2>3
<1>2. CASE f \in RaftFrames
  <2>1. f.class \in {"control", "bulk"} /\ f.bytes \in Nat
    BY <1>2 DEF RaftFrames
  <2>2. f \notin RpcFrames(S)
    <3> SUFFICES ASSUME f \in RpcFrames(S) PROVE FALSE
      BY Zenon
    <3>1. PICK x \in S : f = encode_rpc_frame(x)
      BY Zenon DEF RpcFrames
    <3> QED
      BY <2>1, <3>1 DEF encode_rpc_frame
  <2> QED
    BY <1>2, <2>1, <2>2
<1> QED
  BY <1>1, <1>2, Zenon DEF WireFrames

LEMMA TrySend ==
  ASSUME NEW S, NEW q \in Peers(S), NEW f \in WireFrames(S)
  PROVE  try_send(q, f) \in Peers(S)
<1>1. PICK a, b, c, d, e : q = [control |-> a, rpc |-> b, bulk |-> c, queued_bytes |-> d, writing |-> e]
  BY PeerParts, Zenon
<1>2. /\ a \in Seq(RaftFrames) /\ b \in Seq(RpcFrames(S)) /\ c \in Seq(RaftFrames)
      /\ d \in Int /\ e \in WireFrames(S) \cup {NoFrame}
  BY <1>1, PeerParts
<1>3. CASE ~Admits(q, f)
  BY <1>3, Zenon DEF try_send
<1>4. CASE Admits(q, f)
  <2>1. try_send(q, f) = [control |-> IF f.class = "control" THEN Append(a, f) ELSE a,
                          rpc |-> IF f.class = "rpc" THEN Append(b, f) ELSE b,
                          bulk |-> IF f.class = "bulk" THEN Append(c, f) ELSE c,
                          queued_bytes |-> d + f.bytes, writing |-> e]
    BY <1>1, <1>4, Zenon DEF try_send
  <2>2. d + f.bytes \in Int
    BY <1>2, FrameParts
  <2>3. f.class = "control" => Append(a, f) \in Seq(RaftFrames)
    BY <1>2, FrameParts, SeqAppended, Zenon
  <2>4. f.class = "rpc" => Append(b, f) \in Seq(RpcFrames(S))
    BY <1>2, FrameParts, SeqAppended, Zenon
  <2>5. f.class = "bulk" => Append(c, f) \in Seq(RaftFrames)
    BY <1>2, FrameParts, SeqAppended, Zenon
  <2>6. PICK a2, b2, c2, d2 : /\ a2 = IF f.class = "control" THEN Append(a, f) ELSE a
                              /\ b2 = IF f.class = "rpc" THEN Append(b, f) ELSE b
                              /\ c2 = IF f.class = "bulk" THEN Append(c, f) ELSE c
                              /\ d2 = d + f.bytes
    BY Zenon
  <2>7. a2 \in Seq(RaftFrames) /\ b2 \in Seq(RpcFrames(S)) /\ c2 \in Seq(RaftFrames) /\ d2 \in Int
    BY <1>2, <2>2, <2>3, <2>4, <2>5, <2>6, Zenon
  <2>8. try_send(q, f) = [control |-> a2, rpc |-> b2, bulk |-> c2, queued_bytes |-> d2, writing |-> e]
    BY <2>1, <2>6, Zenon
  <2>9. PICK x : x = [control |-> a2, rpc |-> b2, bulk |-> c2, queued_bytes |-> d2, writing |-> e]
    BY Zenon
  <2>10. x \in Peers(S)
    BY <1>2, <2>7, <2>9 DEF Peers
  <2> QED
    BY <2>8, <2>9, <2>10, Zenon
<1> QED
  BY <1>3, <1>4, Zenon

LEMMA LeastElement ==
  ASSUME NEW S \in SUBSET Nat, S # {}
  PROVE  \E x \in S : \A y \in S : x <= y
<1> DEFINE R == OpToRel(<, Nat)
<1>1. IsWellFoundedOn(R, Nat)
  BY NatLessThanWellFounded, Zenon
<1>2. \A x, y \in Nat : x < y => <<x, y>> \in R
  BY Zenon DEF OpToRel
<1> HIDE DEF R
<1>3. PICK x \in S : \A y \in S : <<y, x>> \notin R
  BY <1>1, WFMin, Zenon
<1>4. ASSUME NEW y \in S PROVE x <= y
  <2>1. x \in Nat /\ y \in Nat
    OBVIOUS
  <2>2. ~(y < x)
    BY <1>2, <1>3, <2>1, Zenon
  <2> QED
    BY <2>1, <2>2
<1> QED
  BY <1>4, Zenon

\* A batch takes at least one frame: the run of heartbeats at the head of the queue
\* ends somewhere.
LEMMA BatchExists ==
  ASSUME NEW q \in Seq(RaftFrames), q # <<>>
  PROVE  BatchLength(q) \in 1..Len(q)
<1>1. Len(q) \in Nat \ {0} /\ Head(q) = q[1]
  OBVIOUS
<1>2. CASE ~Head(q).beat
  BY <1>1, <1>2 DEF BatchLength
<1>3. CASE Head(q).beat
  <2> DEFINE E == {n \in 1..Len(q) : n = Len(q) \/ n = MaxBatch \/ ~q[n + 1].beat}
  <2>1. E \in SUBSET Nat /\ Len(q) \in E
    BY <1>1
  <2>2. PICK n \in E : \A m \in E : n <= m
    <3> HIDE DEF E
    <3> QED
      BY <2>1, LeastElement, Zenon
  <2>3. MaxBatch \in Nat \ {0}
    BY TransportBounds
  <2>4. n <= MaxBatch
    <3>0. \A m \in E : n <= m
      BY <2>2, Zenon
    <3>1. MaxBatch <= Len(q) => MaxBatch \in E
      BY <1>1, <2>3
    <3>2. n \in 1..Len(q)
      BY <2>2
    <3> HIDE DEF E
    <3> QED
      BY <1>1, <2>3, <3>0, <3>1, <3>2
  <2>5. ASSUME NEW i \in 1..n PROVE q[i].beat
    <3>1. CASE i = 1
      BY <1>1, <1>3, <3>1
    <3>2. CASE i # 1
      <4>1. i - 1 \in 1..Len(q) /\ i - 1 < n /\ (i - 1) + 1 = i
        BY <1>1, <3>2
      <4>2. i - 1 \notin E
        <5>1. \A m \in E : n <= m
          BY <2>2, Zenon
        <5>2. n \in Nat
          BY <2>2
        <5> HIDE DEF E
        <5> QED
          BY <4>1, <5>1, <5>2
      <4> QED
        BY <4>1, <4>2
    <3> QED
      BY <3>1, <3>2
  <2>6. \E m \in 1..Len(q) : /\ m <= MaxBatch
                             /\ \A i \in 1..m : q[i].beat
                             /\ m = Len(q) \/ m = MaxBatch \/ ~q[m + 1].beat
    BY <2>2, <2>4, <2>5
  <2> HIDE DEF E
  <2> QED
    BY <1>3, <2>6, Zenon DEF BatchLength
<1> QED
  BY <1>2, <1>3, Zenon

LEMMA BatchFrame ==
  ASSUME NEW q \in Seq(RaftFrames), NEW n \in 1..Len(q)
  PROVE  /\ SubSeq(q, 1, n)[1] \in RaftFrames
         /\ encode_heartbeat_batch(SubSeq(q, 1, n)) \in RaftFrames
<1>1. PICK t : t = SubSeq(q, 1, n)
  BY Zenon
<1>2. /\ t \in Seq(RaftFrames) /\ Len(t) = n /\ n \in Nat \ {0}
      /\ \A i \in 1..n : t[i] \in RaftFrames
  BY <1>1, SeqPrefix
<1>3. t[1] \in RaftFrames
  BY <1>2
<1>4. PICK b : b = [i \in DOMAIN t |-> t[i].body[1]]
  BY Zenon
<1>5. ASSUME NEW i \in 1..n PROVE t[i].body[1] \in RaftMessages
  <2>1. t[i].body \in Seq(RaftMessages) /\ t[i].body # <<>>
    BY <1>2 DEF RaftFrames
  <2> QED
    BY <2>1
<1>6. DOMAIN t = 1..n
  BY <1>2
<1>7. b \in Seq(RaftMessages) /\ Len(b) = n
  BY <1>2, <1>4, <1>5, <1>6
<1>8. b # <<>>
  BY <1>2, <1>7
<1>9. encode_heartbeat_batch(t) = [t[1] EXCEPT !.beat = FALSE, !.bytes = n, !.body = b]
  BY <1>2, <1>4, Zenon DEF encode_heartbeat_batch
<1>10. [t[1] EXCEPT !.beat = FALSE, !.bytes = n, !.body = b] \in RaftFrames
  BY <1>2, <1>3, <1>7, <1>8, Zenon DEF RaftFrames
<1> QED
  BY <1>1, <1>3, <1>9, <1>10, Zenon

LEMMA PopNext ==
  ASSUME NEW S, NEW q \in Peers(S)
  PROVE  pop_next(q) \in Peers(S)
<1>1. PICK a, b, c, d, e : q = [control |-> a, rpc |-> b, bulk |-> c, queued_bytes |-> d, writing |-> e]
  BY PeerParts, Zenon
<1>2. /\ a \in Seq(RaftFrames) /\ b \in Seq(RpcFrames(S)) /\ c \in Seq(RaftFrames)
      /\ d \in Int /\ e \in WireFrames(S) \cup {NoFrame}
      /\ q.control = a /\ q.rpc = b /\ q.bulk = c
  BY <1>1, PeerParts
<1>3. CASE a # <<>>
  <2>1. PICK n : n = BatchLength(a)
    BY Zenon
  <2>2. n \in 1..Len(a)
    BY <1>2, <1>3, <2>1, BatchExists, Zenon
  <2>3. PICK f : f = IF n = 1 THEN SubSeq(a, 1, n)[1] ELSE encode_heartbeat_batch(SubSeq(a, 1, n))
    BY Zenon
  <2>4. f \in WireFrames(S) \cup {NoFrame}
    BY <1>2, <2>2, <2>3, BatchFrame, Zenon DEF WireFrames
  <2>5. SubSeq(a, n + 1, Len(a)) \in Seq(RaftFrames)
    BY <1>2, <2>2, SeqSuffix, Zenon
  <2>6. pop_next(q) = [q EXCEPT !.control = SubSeq(a, n + 1, Len(a)), !.writing = f]
    BY <1>2, <1>3, <2>1, <2>3, Zenon DEF pop_next
  <2>7. pop_next(q) = [control |-> SubSeq(a, n + 1, Len(a)), rpc |-> b, bulk |-> c,
                       queued_bytes |-> d, writing |-> f]
    BY <1>1, <2>6, Zenon
  <2> QED
    BY <1>2, <2>4, <2>5, <2>7 DEF Peers
<1>4. CASE a = <<>> /\ b # <<>>
  <2>1. pop_next(q) = [q EXCEPT !.rpc = Tail(b), !.writing = Head(b)]
    BY <1>2, <1>4 DEF pop_next
  <2>2. pop_next(q) = [control |-> a, rpc |-> Tail(b), bulk |-> c, queued_bytes |-> d, writing |-> Head(b)]
    BY <1>1, <2>1, Zenon
  <2>3. Tail(b) \in Seq(RpcFrames(S)) /\ Head(b) \in WireFrames(S) \cup {NoFrame}
    BY <1>2, <1>4, SeqParts, Zenon DEF WireFrames
  <2> QED
    BY <1>2, <2>2, <2>3 DEF Peers
<1>5. CASE a = <<>> /\ b = <<>> /\ c # <<>>
  <2>1. pop_next(q) = [q EXCEPT !.bulk = Tail(c), !.writing = Head(c)]
    BY <1>2, <1>5 DEF pop_next
  <2>2. pop_next(q) = [control |-> a, rpc |-> b, bulk |-> Tail(c), queued_bytes |-> d, writing |-> Head(c)]
    BY <1>1, <2>1, Zenon
  <2>3. Tail(c) \in Seq(RaftFrames) /\ Head(c) \in WireFrames(S) \cup {NoFrame}
    BY <1>2, <1>5, SeqParts, Zenon DEF WireFrames
  <2> QED
    BY <1>2, <2>2, <2>3 DEF Peers
<1>6. CASE a = <<>> /\ b = <<>> /\ c = <<>>
  BY <1>2, <1>6 DEF pop_next
<1> QED
  BY <1>3, <1>4, <1>5, <1>6, Zenon

LEMMA Finish ==
  ASSUME NEW S, NEW q \in Peers(S), NEW written
  PROVE  finish(q, written) \in Peers(S)
<1>1. q.writing.bytes \in Int
  <2>1. CASE q.writing = NoFrame
    BY <2>1 DEF NoFrame
  <2>2. CASE q.writing # NoFrame
    BY <2>2, PeerParts, FrameParts
  <2> QED
    BY <2>1, <2>2, Zenon
<1>2. PICK a, b, c, d, e : q = [control |-> a, rpc |-> b, bulk |-> c, queued_bytes |-> d, writing |-> e]
  BY PeerParts, Zenon
<1>3. /\ a \in Seq(RaftFrames) /\ b \in Seq(RpcFrames(S)) /\ c \in Seq(RaftFrames)
      /\ d \in Int /\ e.bytes \in Int
  <2>1. q.control = a /\ q.rpc = b /\ q.bulk = c /\ q.queued_bytes = d /\ q.writing = e
    BY <1>2
  <2> QED
    BY <1>1, <2>1, PeerParts, Zenon
<1>4. PICK z : z = q.queued_bytes - q.writing.bytes
  BY Zenon
<1>5. finish(q, written) = [q EXCEPT !.queued_bytes = z, !.writing = NoFrame]
  BY <1>4, Zenon DEF finish
<1>6. finish(q, written) = [control |-> a, rpc |-> b, bulk |-> c, queued_bytes |-> z, writing |-> NoFrame]
  BY <1>2, <1>5, Zenon
<1>7. z \in Int
  BY <1>1, <1>4, PeerParts
<1> QED
  BY <1>3, <1>6, <1>7 DEF Peers

(***************************************************************************)
(* The inbound queues.                                                     *)
(***************************************************************************)
LEMMA InboundParts ==
  ASSUME NEW S, NEW i \in Inbounds(S)
  PROVE  /\ i = [control |-> i.control, rpc |-> i.rpc, bulk |-> i.bulk]
         /\ i.control \in Seq([source : Nodes, message : RaftMessages])
         /\ i.rpc \in Seq([source : Nodes, message : S])
         /\ i.bulk \in Seq([source : Nodes, message : RaftMessages])
  BY DEF Inbounds

LEMMA InboundOf ==
  ASSUME NEW S, NEW a \in Seq([source : Nodes, message : RaftMessages]),
         NEW b \in Seq([source : Nodes, message : S]), NEW c \in Seq([source : Nodes, message : RaftMessages])
  PROVE  [control |-> a, rpc |-> b, bulk |-> c] \in Inbounds(S)
  BY DEF Inbounds

LEMMA Entered ==
  ASSUME NEW A, NEW q \in Seq([source : Nodes, message : A]), NEW remote \in Nodes, NEW body \in Seq(A)
  PROVE  Enter(q, remote, body) \in Seq([source : Nodes, message : A])
<1> DEFINE M == [source : Nodes, message : A]
<1>1. PICK t : t = [i \in DOMAIN body |-> [source |-> remote, message |-> body[i]]]
  BY Zenon
<1>2. t \in Seq(M) /\ Len(t) = Len(body)
  <2>1. \A i \in 1..Len(body) : body[i] \in A
    OBVIOUS
  <2>2. DOMAIN body = 1..Len(body) /\ Len(body) \in Nat
    OBVIOUS
  <2>3. \A i \in 1..Len(body) : [source |-> remote, message |-> body[i]] \in M
    BY <2>1
  <2> HIDE DEF M
  <2> QED
    BY <1>1, <2>2, <2>3
<1>3. PICK r : r = IF Len(body) <= MaxInbound - Len(q) THEN Len(body) ELSE MaxInbound - Len(q)
  BY Zenon
<1>4. r \in Int /\ r <= Len(body) /\ Len(body) \in Nat
  <2>1. Len(body) \in Nat /\ Len(q) \in Nat
    OBVIOUS
  <2> QED
    BY <1>3, <2>1, TransportBounds
<1>5. SubSeq(t, 1, r) \in Seq(M)
  <2> HIDE DEF M
  <2>1. CASE r >= 1
    BY <1>2, <1>4, <2>1
  <2>2. CASE r < 1
    BY <1>2, <1>4, <2>2
  <2> QED
    BY <1>4, <2>1, <2>2
<1>6. Enter(q, remote, body) = q \o SubSeq(t, 1, r)
  BY <1>1, <1>3, Zenon DEF Enter
<1> HIDE DEF M
<1>7. q \in Seq(M)
  BY Zenon DEF M
<1> QED
  BY <1>5, <1>6, <1>7, SeqJoined, Zenon DEF M

LEMMA HandleFrame ==
  ASSUME NEW S, NEW i \in Inbounds(S), NEW f \in WireFrames(S), NEW remote \in Nodes, NEW known
  PROVE  handle_frame(i, known, remote, f) \in Inbounds(S)
<1>1. PICK a, b, c : i = [control |-> a, rpc |-> b, bulk |-> c]
  BY InboundParts, Zenon
<1>2. /\ a \in Seq([source : Nodes, message : RaftMessages])
      /\ b \in Seq([source : Nodes, message : S])
      /\ c \in Seq([source : Nodes, message : RaftMessages])
  <2>1. i.control = a /\ i.rpc = b /\ i.bulk = c
    BY <1>1
  <2> QED
    BY <2>1, InboundParts, Zenon
<1>3. f.class # "rpc" => f.body \in Seq(RaftMessages)
  BY FrameParts DEF RaftFrames
<1>4. f.class = "rpc" => f.body \in Seq(S)
  <2>1. ASSUME f.class = "rpc" PROVE f.body \in Seq(S)
    <3>1. PICK x \in S : f = encode_rpc_frame(x)
      <4>1. f \in RpcFrames(S)
        BY <2>1, FrameParts, Zenon
      <4> QED
        BY <4>1, Zenon DEF RpcFrames
    <3>2. f.body = <<x>>
      BY <3>1 DEF encode_rpc_frame
    <3> QED
      BY <3>2
  <2> QED
    BY <2>1, Zenon
<1>5. PICK a2, b2, c2 : /\ a2 = IF f.class = "control" THEN Enter(a, remote, f.body) ELSE a
                        /\ b2 = IF f.class = "rpc" THEN Enter(b, remote, f.body) ELSE b
                        /\ c2 = IF f.class = "bulk" THEN Enter(c, remote, f.body) ELSE c
  BY Zenon
<1>6. a2 \in Seq([source : Nodes, message : RaftMessages])
  BY <1>2, <1>3, <1>5, Entered, Zenon
<1>7. b2 \in Seq([source : Nodes, message : S])
  BY <1>2, <1>4, <1>5, Entered, Zenon
<1>8. c2 \in Seq([source : Nodes, message : RaftMessages])
  BY <1>2, <1>3, <1>5, Entered, Zenon
<1>9. handle_frame(i, known, remote, f) \in {i, [control |-> a2, rpc |-> b2, bulk |-> c2]}
  BY <1>1, <1>5, Zenon DEF handle_frame
<1> QED
  BY <1>6, <1>7, <1>8, <1>9, InboundOf, Zenon

(***************************************************************************)
(* Replies.                                                                *)
(***************************************************************************)
LEMMA ReplyType ==
  ASSUME NEW status \in Statuses
  PROVE  Reply(status) \in Replies /\ Reply(status).status = status
  BY DEF Reply, Replies, Hints

LEMMA ReplyAnswers ==
  ASSUME NEW status \in Statuses, NEW o, status \in {"applied", "rejected"} => o = status
  PROVE  Reply(status) \in Answers(o)
  BY ReplyType, Zenon DEF Answers

LEMMA NoReplyAnswers == ASSUME NEW o PROVE NoReply \in Answers(o)
<1>1. "none" \in Statuses /\ "none" \notin {"applied", "rejected"}
  BY DEF Statuses
<1> QED
  BY <1>1, ReplyAnswers, Zenon DEF NoReply

LEMMA AnswersGrow ==
  ASSUME NEW o, NEW u, o = u \/ o = "none"
  PROVE  Answers(o) \subseteq Answers(u)
  BY DEF Answers

\* Encoding an error and decoding it again never makes up an outcome.
LEMMA CodedAnswers ==
  ASSUME NEW o, NEW r \in Answers(o)
  PROVE  error_response(r) \in Answers(o) /\ response_error(r) \in Answers(o)
<1>1. r \in Replies
  BY Zenon DEF Answers
<1>2. ASSUME NEW status \in Statuses, status \notin {"applied", "rejected"}
      PROVE  [r EXCEPT !.status = status] \in Answers(o)
  BY <1>1, <1>2 DEF Answers, Replies
<1>3. /\ [r EXCEPT !.status = "LEADER_UNKNOWN"] \in Answers(o)
      /\ [r EXCEPT !.status = "TABLET_UNAVAILABLE"] \in Answers(o)
      /\ [r EXCEPT !.status = "LeaderUnknown"] \in Answers(o)
      /\ [r EXCEPT !.status = "TabletUnavailable"] \in Answers(o)
  <2>1. \A status \in {"LEADER_UNKNOWN", "TABLET_UNAVAILABLE", "LeaderUnknown", "TabletUnavailable"} :
            status \in Statuses /\ status \notin {"applied", "rejected"}
    BY DEF Statuses
  <2> QED
    BY <1>2, <2>1, Zenon
<1>4. error_response(r) \in {r, [r EXCEPT !.status = "LEADER_UNKNOWN"],
                                [r EXCEPT !.status = "TABLET_UNAVAILABLE"]}
  BY DEF error_response
<1>5. response_error(r) \in {r, [r EXCEPT !.status = "LeaderUnknown"],
                                [r EXCEPT !.status = "TabletUnavailable"]}
  BY DEF response_error
<1> QED
  BY <1>3, <1>4, <1>5, Zenon

(***************************************************************************)
(* What the end of an attempt makes of a call.                             *)
(***************************************************************************)
CallOf(state, kind, route, original, attempted, attempt, id, target, last, answer, answers, result) ==
    [state |-> state, kind |-> kind, route |-> route, original |-> original,
     attempted |-> attempted, attempt |-> attempt, id |-> id, target |-> target,
     last |-> last, answer |-> answer, answers |-> answers, result |-> result]

LEMMA CallIsRecord ==
  ASSUME NEW k, IsCall(k)
  PROVE  k = CallOf(k.state, k.kind, k.route, k.original, k.attempted, k.attempt, k.id, k.target,
                    k.last, k.answer, k.answers, k.result)
  BY Zenon DEF IsCall, CallOf

\* A call that waits for nothing, with the outcome it may report.
Rests(k, o) ==
    /\ IsCall(k) /\ k.answer = NoReply /\ k.last \in Answers(o)
    /\ k.state \in {"ready", "done"}
    /\ k.state = "ready" => k.kind \in Kinds
    /\ k.result \in {"applied", "rejected"} => o = k.result

LEMMA RestingCall ==
  ASSUME NEW c, NEW k, NEW o, Rests(k, o)
  PROVE  CallOK(c, k, o)
<1>1. k.answer = NoReply /\ k.answer \in Answers(o)
  BY NoReplyAnswers, Zenon DEF Rests
<1>2. k.state # "waiting"
  BY DEF Rests
<1>3. k.state \in {"ready", "waiting"} => k.kind \in Kinds
  BY <1>2, Zenon DEF Rests
<1> QED
  BY <1>1, <1>2, <1>3, Zenon DEF Rests, CallOK

LEMMA DoneCall ==
  ASSUME NEW k, NEW o, IsCall(k), k.last \in Answers(o), NEW result,
         result \in {"applied", "rejected"} => o = result
  PROVE  Rests(Done(k, result), o)
<1>0. k = CallOf(k.state, k.kind, k.route, k.original, k.attempted, k.attempt, k.id, k.target,
                 k.last, k.answer, k.answers, k.result)
  BY CallIsRecord, Zenon
<1>1. PICK a, b, c, d, e, f, g, h, i, j, l, m : k = CallOf(a, b, c, d, e, f, g, h, i, j, l, m)
  BY <1>0, Zenon
<1>2. k.route = c /\ k.original = d /\ k.attempt = f /\ k.last = i
  BY <1>1 DEF CallOf
<1>3. PICK n : n = Done(k, result)
  BY Zenon
<1>4. n = CallOf("done", b, c, d, e, f, 0, h, i, NoReply, l, result)
  BY <1>1, <1>3, Zenon DEF Done, CallOf
<1>5. /\ n.state = "done" /\ n.kind = b /\ n.route = c /\ n.original = d /\ n.attempted = e
      /\ n.attempt = f /\ n.id = 0 /\ n.target = h /\ n.last = i /\ n.answer = NoReply
      /\ n.answers = l /\ n.result = result
  BY <1>4 DEF CallOf
<1>6. IsCall(n)
  BY <1>2, <1>4, <1>5, Zenon DEF IsCall, CallOf
<1>7. n.state \in {"ready", "done"} /\ n.state # "ready"
  BY <1>5
<1> QED
  BY <1>2, <1>3, <1>5, <1>6, <1>7, Zenon DEF Rests

LEMMA QueriedCall ==
  ASSUME NEW k, NEW o, IsCall(k), k.result \in {"applied", "rejected"} => o = k.result
  PROVE  Rests(QueryOutcome(k), o)
<1>0. k = CallOf(k.state, k.kind, k.route, k.original, k.attempted, k.attempt, k.id, k.target,
                 k.last, k.answer, k.answers, k.result)
  BY CallIsRecord, Zenon
<1>1. PICK a, b, c, d, e, f, g, h, i, j, l, m : k = CallOf(a, b, c, d, e, f, g, h, i, j, l, m)
  BY <1>0, Zenon
<1>2. k.route = c /\ k.original = d /\ k.attempt = f /\ k.last = i /\ k.result = m
  BY <1>1 DEF CallOf
<1>3. PICK n : n = QueryOutcome(k)
  BY Zenon
<1>4. n = CallOf("ready", "query", d, d, {}, 0, 0, h, NoReply, NoReply, l, m)
  BY <1>1, <1>3, Zenon DEF QueryOutcome, CallOf
<1>5. /\ n.state = "ready" /\ n.kind = "query" /\ n.route = d /\ n.original = d /\ n.attempted = {}
      /\ n.attempt = 0 /\ n.id = 0 /\ n.target = h /\ n.last = NoReply /\ n.answer = NoReply
      /\ n.answers = l /\ n.result = m
  BY <1>4 DEF CallOf
<1>6. 0 \in Nat
  OBVIOUS
<1>7. IsCall(n)
  BY <1>2, <1>4, <1>5, <1>6, Zenon DEF IsCall, CallOf
<1>8. n.state \in {"ready", "done"} /\ n.kind \in Kinds
  BY <1>5 DEF Kinds
<1>9. NoReply \in Answers(o)
  BY NoReplyAnswers, Zenon
<1> QED
  BY <1>2, <1>3, <1>5, <1>7, <1>8, <1>9, Zenon DEF Rests

LEMMA HintedRoute ==
  ASSUME catalog \in Nat, NEW published
  PROVE  IsRoute(route_with_leader_hint(published))
<1>1. PICK l : l = IF cached_leader_for(catalog) # NoNode THEN cached_leader_for(catalog)
                   ELSE IF published # NoNode THEN published ELSE Placement[1]
  BY Zenon
<1>2. route_with_leader_hint(published) = [epoch |-> catalog, leader |-> l]
  BY <1>1 DEF route_with_leader_hint, BaseRoute, TabletRoute
<1> QED
  BY <1>2 DEF IsRoute

LEMMA AdjustedCall ==
  ASSUME catalog \in Nat, NEW k, NEW o, IsCall(k), k.kind \in Kinds,
         k.result \in {"applied", "rejected"} => o = k.result,
         NEW reply \in Answers(o), NEW published
  PROVE  Rests(adjust_route_after_error(k, reply, published), o)
<1>0. k = CallOf(k.state, k.kind, k.route, k.original, k.attempted, k.attempt, k.id, k.target,
                 k.last, k.answer, k.answers, k.result)
  BY CallIsRecord, Zenon
<1>1. PICK a, b, c, d, e, f, g, h, i, j, l, m : k = CallOf(a, b, c, d, e, f, g, h, i, j, l, m)
  BY <1>0, Zenon
<1>2. k.kind = b /\ k.route = c /\ k.original = d /\ k.attempt = f /\ k.last = i /\ k.result = m
  BY <1>1 DEF CallOf
<1>3. PICK r, t : /\ r = IF Refreshes(k, reply) THEN route_with_leader_hint(published)
                         ELSE [epoch |-> IF reply.status = "StaleTabletEpoch" THEN reply.epoch ELSE c.epoch,
                               leader |-> IF reply.status = "NotLeader" /\ reply.hint # NoNode
                                          THEN reply.hint ELSE c.leader]
                  /\ t = IF Refreshes(k, reply) THEN {} ELSE e
  BY Zenon
<1>4. IsRoute(r)
  <2>1. CASE Refreshes(k, reply)
    BY <1>3, <2>1, HintedRoute, Zenon
  <2>2. CASE ~Refreshes(k, reply)
    <3>1. reply.epoch \in Nat
      BY DEF Answers, Replies
    <3>2. c.epoch \in Nat
      BY <1>2, Zenon DEF IsCall, IsRoute
    <3> QED
      BY <1>3, <2>2, <3>1, <3>2 DEF IsRoute
  <2> QED
    BY <2>1, <2>2, Zenon
<1>5. PICK n : n = adjust_route_after_error(k, reply, published)
  BY Zenon
<1>6. f \in Nat
  BY <1>2, Zenon DEF IsCall
<1>7. n = CallOf("ready", b, r, d, t, f + 1, 0, h, reply, NoReply, l, m)
  BY <1>1, <1>3, <1>5, Zenon DEF adjust_route_after_error, CallOf
<1>8. /\ n.state = "ready" /\ n.kind = b /\ n.route = r /\ n.original = d /\ n.attempted = t
      /\ n.attempt = f + 1 /\ n.id = 0 /\ n.target = h /\ n.last = reply /\ n.answer = NoReply
      /\ n.answers = l /\ n.result = m
  BY <1>7 DEF CallOf
<1>9. f + 1 \in Nat
  BY <1>6
<1>10. IsCall(n)
  BY <1>2, <1>4, <1>7, <1>8, <1>9, Zenon DEF IsCall, CallOf
<1>11. n.state \in {"ready", "done"}
  BY <1>8
<1> QED
  BY <1>2, <1>5, <1>8, <1>10, <1>11, Zenon DEF Rests

LEMMA RecoveredCall ==
  ASSUME NEW k, NEW o, IsCall(k), k.last \in Answers(o),
         k.result \in {"applied", "rejected"} => o = k.result,
         NEW reply \in Answers(o), NEW budget
  PROVE  Rests(submit_with_outcome_recovery(k, reply, budget), o)
<1>1. \A error \in {"RouteRefreshRequired", "OutcomeUnknown", "Unavailable", "Error"} :
         error \notin {"applied", "rejected"}
  OBVIOUS
<1>2. \A error \in {"RouteRefreshRequired", "OutcomeUnknown", "Unavailable", "Error"} :
         Rests(Done(k, error), o)
  BY <1>1, DoneCall, Zenon
<1>3. dispatch_error(reply.status) \in {"RouteRefreshRequired", "OutcomeUnknown", "Unavailable", "Error"}
  BY DEF dispatch_error
<1>4. Rests(Done(k, reply.status), o)
  <2>1. reply.status \in {"applied", "rejected"} => o = reply.status
    BY Zenon DEF Answers
  <2> QED
    BY <2>1, DoneCall, Zenon
<1>5. Rests(QueryOutcome(k), o)
  BY QueriedCall, Zenon
<1>6. submit_with_outcome_recovery(k, reply, budget) \in
         {QueryOutcome(k), Done(k, "OutcomeUnknown"), Done(k, reply.status), Done(k, dispatch_error(reply.status))}
  BY DEF submit_with_outcome_recovery
<1>7. Rests(Done(k, "OutcomeUnknown"), o) /\ Rests(Done(k, dispatch_error(reply.status)), o)
  BY <1>2, <1>3, Zenon
<1> QED
  BY <1>4, <1>5, <1>6, <1>7, Zenon

LEMMA EndedCall ==
  ASSUME catalog \in Nat, NEW k, NEW o, IsCall(k), k.kind \in Kinds, k.last \in Answers(o),
         k.result \in {"applied", "rejected"} => o = k.result,
         NEW reply \in Answers(o), NEW published, NEW budget
  PROVE  Rests(IF Retries(k, reply) THEN adjust_route_after_error(k, reply, published)
               ELSE submit_with_outcome_recovery(k, reply, budget), o)
  BY AdjustedCall, RecoveredCall, Zenon

\* Choosing the replica to ask changes only where the call is going.
LEMMA TriedCall ==
  ASSUME NEW k, IsCall(k), NEW target
  PROVE  LET n == Tried(k, target) IN
         /\ IsCall(n) /\ n.target = target /\ n.kind = k.kind /\ n.last = k.last
         /\ n.answer = k.answer /\ n.result = k.result /\ n.route = k.route /\ n.attempt = k.attempt
<1>0. k = CallOf(k.state, k.kind, k.route, k.original, k.attempted, k.attempt, k.id, k.target,
                 k.last, k.answer, k.answers, k.result)
  BY CallIsRecord, Zenon
<1>1. PICK a, b, c, d, e, f, g, h, i, j, l, m : k = CallOf(a, b, c, d, e, f, g, h, i, j, l, m)
  BY <1>0, Zenon
<1>2. /\ k.kind = b /\ k.route = c /\ k.original = d /\ k.attempt = f /\ k.last = i /\ k.result = m
      /\ k.answer = j
  BY <1>1 DEF CallOf
<1>3. PICK n : n = Tried(k, target)
  BY Zenon
<1>4. n = CallOf(a, b, c, d, e \cup {target}, f, g, target, i, j, l, m)
  BY <1>1, <1>3, Zenon DEF Tried, CallOf
<1>5. /\ n.state = a /\ n.kind = b /\ n.route = c /\ n.original = d /\ n.attempted = e \cup {target}
      /\ n.attempt = f /\ n.id = g /\ n.target = target /\ n.last = i /\ n.answer = j
      /\ n.answers = l /\ n.result = m
  BY <1>4 DEF CallOf
<1>6. IsCall(n)
  BY <1>2, <1>4, <1>5, Zenon DEF IsCall, CallOf
<1> QED
  BY <1>2, <1>3, <1>5, <1>6, Zenon

\* The attempt is on its way, under the attempt id u.
LEMMA WaitingCall ==
  ASSUME NEW x, NEW k, NEW o, IsCall(k), k.kind \in Kinds, k.answer = NoReply, k.target # NoNode,
         k.last \in Answers(o), k.result \in {"applied", "rejected"} => o = k.result,
         NEW u
  PROVE  LET n == [k EXCEPT !.state = "waiting", !.id = u] IN
         /\ CallOK(x, n, o) /\ n.state = "waiting" /\ n.kind = k.kind /\ n.target = k.target
         /\ n.answer = NoReply /\ n.id = u
<1>0. k = CallOf(k.state, k.kind, k.route, k.original, k.attempted, k.attempt, k.id, k.target,
                 k.last, k.answer, k.answers, k.result)
  BY CallIsRecord, Zenon
<1>1. PICK a, b, c, d, e, f, g, h, i, j, l, m : k = CallOf(a, b, c, d, e, f, g, h, i, j, l, m)
  BY <1>0, Zenon
<1>2. /\ k.kind = b /\ k.route = c /\ k.original = d /\ k.attempt = f /\ k.last = i /\ k.result = m
      /\ k.answer = j /\ k.target = h
  BY <1>1 DEF CallOf
<1>3. PICK n : n = [k EXCEPT !.state = "waiting", !.id = u]
  BY Zenon
<1>4. n = CallOf("waiting", b, c, d, e, f, u, h, i, j, l, m)
  BY <1>1, <1>3, Zenon DEF CallOf
<1>4a. /\ n.state = "waiting" /\ n.kind = b /\ n.route = c /\ n.original = d /\ n.attempted = e
      /\ n.attempt = f /\ n.id = u /\ n.target = h /\ n.last = i /\ n.answer = j
      /\ n.answers = l /\ n.result = m
  BY <1>4 DEF CallOf
<1>5. IsCall(n)
  BY <1>2, <1>4, <1>4a, Zenon DEF IsCall, CallOf
<1>7. NoReply \in Answers(o)
  BY NoReplyAnswers, Zenon
<1>8. CallOK(x, n, o)
  BY <1>2, <1>4a, <1>5, <1>7, Zenon DEF CallOK
<1> QED
  BY <1>2, <1>3, <1>4a, <1>8, Zenon

LEMMA WaitsLocally ==
  ASSUME NEW k, IsCall(k)
  PROVE  [k EXCEPT !.state = "waiting"] = [k EXCEPT !.state = "waiting", !.id = k.id]
<1>0. k = CallOf(k.state, k.kind, k.route, k.original, k.attempted, k.attempt, k.id, k.target,
                 k.last, k.answer, k.answers, k.result)
  BY CallIsRecord, Zenon
<1>1. PICK a, b, c, d, e, f, g, h, i, j, l, m : k = CallOf(a, b, c, d, e, f, g, h, i, j, l, m)
  BY <1>0, Zenon
<1> QED
  BY <1>1, Zenon DEF CallOf

(***************************************************************************)
(* What a step leaves of sound messages, entries and answerable requests.  *)
(***************************************************************************)
OutcomesStay ==
    \A c \in Callers : tablet.outcome[c] = tablet.outcome'[c] \/ tablet.outcome[c] = "none"

LEMMA SoundGrows ==
  ASSUME StateOK, PendingOK, OutcomesStay, next_attempt' \in Nat, next_attempt <= next_attempt',
         \A p \in pending' : p.id < next_attempt =>
              p \in pending /\ call'[p.caller].kind = call[p.caller].kind
  PROVE  SoundMessages \subseteq SoundMessages'
<1> SUFFICES ASSUME NEW x \in Messages, Sound(x) PROVE Sound(x)'
  BY Zenon DEF SoundMessages
<1>1. x.attempt \in Nat /\ x.caller \in Callers
  BY DEF Messages
<1>2. next_attempt \in Nat /\ x.attempt < next_attempt
  BY Zenon DEF StateOK, Sound
<1>3. x.attempt < next_attempt'
  BY <1>1, <1>2
<1>4. x.reply \in Answers(tablet.outcome'[x.caller])
  BY <1>1, AnswersGrow, Zenon DEF Sound, OutcomesStay
<1>5. ASSUME NEW p \in pending', p.id = x.attempt
      PROVE  x.caller = p.caller /\ x.kind = call'[p.caller].kind
  BY <1>2, <1>5, Zenon DEF Sound
<1> QED
  BY <1>3, <1>4, <1>5, Zenon DEF Sound

LEMMA SoundStays ==
  ASSUME StateOK, PendingOK, UNCHANGED <<next_attempt, call, pending>>, OutcomesStay
  PROVE  SoundMessages \subseteq SoundMessages'
<1>1. next_attempt' \in Nat
  BY Zenon DEF StateOK
<1>2. next_attempt <= next_attempt'
  BY <1>1
<1> QED
  BY <1>1, <1>2, SoundGrows, Zenon

LEMMA EntriesGrow ==
  ASSUME OutcomesStay, SoundMessages \subseteq SoundMessages'
  PROVE  Entries(SoundMessages) \subseteq Entries(SoundMessages)'
<1> SUFFICES ASSUME NEW p \in Entries(SoundMessages) PROVE p \in Entries(SoundMessages)'
  BY Zenon
<1>1. p \in [token : Nat, source : Nodes, request : SoundMessages, completion : Replies]
  BY Zenon DEF Entries
<1>2. p.request \in SoundMessages
  BY <1>1
<1>3. p \in [token : Nat, source : Nodes, request : SoundMessages', completion : Replies]
  BY <1>1
<1>4. p.request \in Messages
  BY <1>2, Zenon DEF SoundMessages
<1>5. p.request.caller \in Callers
  BY <1>4 DEF Messages
<1>6. p.completion \in Answers(tablet.outcome'[p.request.caller])
  BY <1>5, AnswersGrow, Zenon DEF Entries, OutcomesStay
<1> QED
  BY <1>3, <1>6, Zenon DEF Entries

LEMMA ServingGrows ==
  ASSUME ServersOK(SoundMessages), OutcomesStay, SoundMessages \subseteq SoundMessages', UNCHANGED serving
  PROVE  (serving \in [Nodes -> SUBSET Entries(SoundMessages)])'
<1>1. \A n \in Nodes : serving[n] \subseteq Entries(SoundMessages)'
  BY EntriesGrow, Zenon DEF ServersOK
<1>2. serving \in [Nodes -> SUBSET Entries(SoundMessages)]
  BY Zenon DEF ServersOK
<1>3. serving \in [Nodes -> SUBSET (Entries(SoundMessages)')]
  BY <1>1, <1>2
<1> QED
  BY <1>3, Zenon

AnswerableStays ==
    \A n \in Nodes, o \in Origins, c \in Callers : Answerable(n, o, c) => Answerable(n, o, c)'

\* Old tokens keep meeting the entries they met.
LEMMA AnswerableGrows ==
  ASSUME next_token \in [Nodes -> Nat \ {0}], (next_token \in [Nodes -> Nat \ {0}])',
         \A n \in Nodes :
            /\ next_token[n] <= next_token'[n]
            /\ \A q \in serving'[n] : q.token < next_token[n] /\ q.request.kind \notin ControlKinds =>
                  \E p \in serving[n] : /\ p.token = q.token /\ p.request.kind \notin ControlKinds
                                        /\ p.request.caller = q.request.caller
  PROVE  AnswerableStays
<1> SUFFICES ASSUME NEW n \in Nodes, NEW o \in Origins, NEW c \in Callers, Answerable(n, o, c)
             PROVE  Answerable(n, o, c)'
  BY Zenon DEF AnswerableStays
<1>1. o.token \in Nat
  BY DEF Origins
<1>2. CASE o.token = 0
  BY <1>2, Zenon DEF Answerable
<1>3. CASE o.token # 0
  <2>1. /\ o.token < next_token[n]
        /\ \A p \in serving[n] :
              p.token = o.token /\ p.request.kind \notin ControlKinds => p.request.caller = c
    BY <1>3, Zenon DEF Answerable
  <2>2. next_token[n] \in Nat \ {0} /\ next_token'[n] \in Nat \ {0} /\ next_token[n] <= next_token'[n]
    BY Zenon
  <2>3. o.token < next_token'[n]
    BY <1>1, <2>1, <2>2
  <2>4. ASSUME NEW q \in serving'[n], q.token = o.token, q.request.kind \notin ControlKinds
        PROVE  q.request.caller = c
    <3>1. q.token < next_token[n]
      BY <2>1, <2>4, Zenon
    <3>2. PICK p \in serving[n] : /\ p.token = q.token /\ p.request.kind \notin ControlKinds
                                  /\ p.request.caller = q.request.caller
      BY <2>4, <3>1, Zenon
    <3> QED
      BY <2>1, <2>4, <3>2, Zenon
  <2> QED
    BY <1>3, <2>3, <2>4, Zenon DEF Answerable
<1> QED
  BY <1>2, <1>3, Zenon

LEMMA RequestsGrow ==
  ASSUME AnswerableStays, NEW n \in Nodes
  PROVE  Seq(AnswerableRequests(n)) \subseteq Seq(AnswerableRequests(n)')
<1>1. AnswerableRequests(n) \subseteq AnswerableRequests(n)'
  <2> SUFFICES ASSUME NEW m \in Requests, Answerable(n, m.origin, m.caller)
               PROVE  Answerable(n, m.origin, m.caller)'
    BY Zenon DEF AnswerableRequests
  <2>1. m.origin \in Origins /\ m.caller \in Callers
    BY DEF Requests
  <2> QED
    BY <2>1, Zenon DEF AnswerableStays
<1> QED
  BY <1>1, SeqGrows, Zenon

ProposedOK(e) == IF e.node \in Nodes THEN Answerable(e.node, e.origin, e.caller) ELSE e.origin.token = 0

LEMMA ProposedGrows ==
  ASSUME AnswerableStays, NEW e \in Proposals, ProposedOK(e)
  PROVE  ProposedOK(e)'
<1>1. e.origin \in Origins /\ e.caller \in Callers
  BY DEF Proposals
<1> QED
  BY <1>1, Zenon DEF ProposedOK, AnswerableStays

LEMMA MailboxGrows ==
  ASSUME ServersOK(SoundMessages), AnswerableStays, NEW n \in Nodes, NEW m, m \in AnswerableRequests(n)',
         mailbox' = [mailbox EXCEPT ![n] = Append(@, m)]
  PROVE  mailbox' = [x \in Nodes |-> mailbox'[x]] /\ \A x \in Nodes : mailbox'[x] \in Seq(AnswerableRequests(x)')
<1>1. mailbox = [x \in Nodes |-> mailbox[x]]
  BY Zenon DEF ServersOK
<1>2. mailbox' = [x \in Nodes |-> mailbox'[x]]
  BY <1>1, Zenon
<1>3. mailbox'[n] = Append(mailbox[n], m) /\ \A x \in Nodes : x # n => mailbox'[x] = mailbox[x]
  BY <1>1, Zenon
<1>4. \A x \in Nodes : mailbox[x] \in Seq(AnswerableRequests(x)')
  BY RequestsGrow, Zenon DEF ServersOK
<1>5. mailbox'[n] \in Seq(AnswerableRequests(n)')
  BY <1>3, <1>4, SeqAppended, Zenon
<1> QED
  BY <1>2, <1>3, <1>4, <1>5, Zenon

LEMMA MailboxShrinks ==
  ASSUME ServersOK(SoundMessages), AnswerableStays, NEW n \in Nodes, mailbox[n] # <<>>,
         mailbox' = [mailbox EXCEPT ![n] = Tail(@)]
  PROVE  mailbox' = [x \in Nodes |-> mailbox'[x]] /\ \A x \in Nodes : mailbox'[x] \in Seq(AnswerableRequests(x)')
<1>1. mailbox = [x \in Nodes |-> mailbox[x]]
  BY Zenon DEF ServersOK
<1>2. mailbox' = [x \in Nodes |-> mailbox'[x]]
  BY <1>1, Zenon
<1>3. mailbox'[n] = Tail(mailbox[n]) /\ \A x \in Nodes : x # n => mailbox'[x] = mailbox[x]
  BY <1>1, Zenon
<1>4. \A x \in Nodes : mailbox[x] \in Seq(AnswerableRequests(x)')
  BY RequestsGrow, Zenon DEF ServersOK
<1>5. mailbox'[n] \in Seq(AnswerableRequests(n)')
  BY <1>3, <1>4, SeqParts, Zenon
<1> QED
  BY <1>2, <1>3, <1>4, <1>5, Zenon

LEMMA MailboxStays ==
  ASSUME ServersOK(SoundMessages), AnswerableStays, mailbox' = mailbox
  PROVE  mailbox' = [x \in Nodes |-> mailbox'[x]] /\ \A x \in Nodes : mailbox'[x] \in Seq(AnswerableRequests(x)')
  BY RequestsGrow, Zenon DEF ServersOK

LEMMA ServersKept ==
  ASSUME StateOK, ServersOK(SoundMessages), (serving \in [Nodes -> SUBSET Entries(SoundMessages)])',
         (next_token \in [Nodes -> Nat \ {0}])', TokensOK', AnswerableStays,
         mailbox' = [x \in Nodes |-> mailbox'[x]],
         \A x \in Nodes : mailbox'[x] \in Seq(AnswerableRequests(x)'),
         \A e \in tablet.proposed' : e \in tablet.proposed \/ ProposedOK(e)'
  PROVE  ServersOK(SoundMessages)'
<1>1. tablet.proposed \subseteq Proposals
  BY DEF StateOK
<1>2. \A e \in tablet.proposed : ProposedOK(e)
  BY Zenon DEF ServersOK, ProposedOK
<1>3. \A e \in tablet.proposed' : ProposedOK(e)'
  BY <1>1, <1>2, ProposedGrows, Zenon
<1> QED
  BY <1>3, Zenon DEF ServersOK, ProposedOK

LEMMA ServersUntouched ==
  ASSUME StateOK, ServersOK(SoundMessages), OutcomesStay, SoundMessages \subseteq SoundMessages',
         UNCHANGED <<serving, next_token, mailbox>>, tablet.proposed' = tablet.proposed
  PROVE  ServersOK(SoundMessages)'
<1>1. (serving \in [Nodes -> SUBSET Entries(SoundMessages)])'
  BY ServingGrows, Zenon
<1>2. (next_token \in [Nodes -> Nat \ {0}])' /\ TokensOK'
  BY Zenon DEF ServersOK, TokensOK
<1>3. AnswerableStays
  BY Zenon DEF AnswerableStays, Answerable
<1> QED
  BY <1>1, <1>2, <1>3, MailboxStays, ServersKept, Zenon

LEMMA NetworkUntouched ==
  ASSUME NetworkOK(SoundMessages), SoundMessages \subseteq SoundMessages', UNCHANGED <<peer, wire, inbound>>
  PROVE  NetworkOK(SoundMessages)'
<1>1. NetworkOK(SoundMessages')
  BY NetworkGrows, Zenon
<1> QED
  BY <1>1, Zenon DEF NetworkOK

LEMMA ScenarioSpent ==
  ASSUME scenario \in ScenarioStates,
         \/ scenario' = scenario
         \/ scenario' = [scenario EXCEPT !.deadlines = @ - 1]
         \/ scenario' = [scenario EXCEPT !.losses = @ - 1]
         \/ scenario' = [scenario EXCEPT !.raft = @ - 1]
         \/ scenario' = [scenario EXCEPT !.routes = @ - 1]
         \/ scenario' = [scenario EXCEPT !.elections = @ - 1]
         \/ scenario' = [scenario EXCEPT !.epochs = @ - 1]
  PROVE  scenario' \in ScenarioStates
  BY DEF ScenarioStates

(***************************************************************************)
(* The calling threads.                                                    *)
(***************************************************************************)
LEMMA NotAwaited ==
  ASSUME PendingOK, NEW c \in Callers,
         call[c].state # "waiting" \/ call[c].answer # NoReply \/ call[c].target = Gateway
  PROVE  \A p \in pending : p.caller # c
<1> SUFFICES ASSUME NEW p \in pending, p.caller = c PROVE FALSE
  BY Zenon
<1> QED
  BY Zenon DEF PendingOK

LEMMA CallerSound ==
  ASSUME RpcInv, NEW c \in Callers, NEW k, CallOK(c, k, tablet.outcome[c]),
         call' = [call EXCEPT ![c] = k], pending' \subseteq pending, \A p \in pending' : p.caller # c,
         next_attempt' \in {next_attempt, next_attempt + 1}, UNCHANGED tablet
  PROVE  CallsOK' /\ PendingOK' /\ SoundMessages \subseteq SoundMessages' /\ OutcomesStay
<1>1. call = [x \in Callers |-> call[x]] /\ \A x \in Callers : CallOK(x, call[x], tablet.outcome[x])
  BY Zenon DEF RpcInv, CallsOK
<1>2. call'[c] = k /\ \A x \in Callers : x # c => call'[x] = call[x]
  BY <1>1, Zenon
<1>3. call' = [x \in Callers |-> call'[x]]
  BY <1>1
<1>4. CallsOK'
  BY <1>1, <1>2, <1>3, Zenon DEF CallsOK
<1>5. next_attempt \in Nat
  BY Zenon DEF RpcInv, StateOK
<1>6. next_attempt' \in Nat /\ next_attempt <= next_attempt'
  BY <1>5
<1>7. \A p \in pending : p.id \in Nat /\ p.caller \in Callers /\ p.target # Gateway
  BY Zenon DEF RpcInv, PendingOK
<1>8. \A p \in pending' : p \in pending /\ p.caller \in Callers /\ call'[p.caller] = call[p.caller]
  BY <1>2, <1>7, Zenon
<1>9. ASSUME NEW p \in pending' PROVE p.id < next_attempt'
  <2>1. p.id \in Nat
    BY <1>7, <1>8, Zenon
  <2>2. p.id < next_attempt
    BY <1>8, Zenon DEF RpcInv, PendingOK
  <2> QED
    BY <1>5, <1>6, <2>1, <2>2
<1>10. \A p \in pending' : p.id \in Nat /\ p.caller \in Callers /\ p.target # Gateway
  BY <1>7, <1>8, Zenon
<1>11. \A p \in pending' : /\ call'[p.caller].state = "waiting" /\ call'[p.caller].id = p.id
                           /\ call'[p.caller].target = p.target /\ call'[p.caller].answer = NoReply
  BY <1>8, Zenon DEF RpcInv, PendingOK
<1>12. PendingOK'
  BY <1>9, <1>10, <1>11, Zenon DEF PendingOK
<1>13. OutcomesStay
  BY Zenon DEF OutcomesStay
<1>14. SoundMessages \subseteq SoundMessages'
  BY <1>6, <1>8, <1>13, SoundGrows, Zenon DEF RpcInv
<1> QED
  BY <1>4, <1>12, <1>13, <1>14, Zenon

LEMMA CallerKeeps ==
  ASSUME RpcInv, NEW c \in Callers, NEW k, CallOK(c, k, tablet.outcome[c]),
         call' = [call EXCEPT ![c] = k], pending' \subseteq pending, \A p \in pending' : p.caller # c,
         next_attempt' \in {next_attempt, next_attempt + 1}, scenario' \in ScenarioStates,
         UNCHANGED <<catalog, peer, wire, inbound, serving, next_token, mailbox, tablet>>
  PROVE  RpcInv'
<1>1. CallsOK' /\ PendingOK' /\ SoundMessages \subseteq SoundMessages' /\ OutcomesStay
  BY CallerSound, Zenon
<1>2. StateOK /\ NetworkOK(SoundMessages) /\ ServersOK(SoundMessages)
  BY Zenon DEF RpcInv
<1>3. NetworkOK(SoundMessages)'
  BY <1>1, <1>2, NetworkUntouched, Zenon
<1>4. ServersOK(SoundMessages)'
  BY <1>1, <1>2, ServersUntouched, Zenon
<1>5. next_attempt \in Nat /\ catalog \in Nat
  BY <1>2, Zenon DEF StateOK
<1>6. next_attempt' \in Nat
  BY <1>5
<1>7. StateOK'
  BY <1>2, <1>6, Zenon DEF StateOK
<1> QED
  BY <1>1, <1>3, <1>4, <1>7, Zenon DEF RpcInv

\* What is known of a call k that has an attempt to make or to end.
Active(k, o) ==
    /\ IsCall(k) /\ k.kind \in Kinds /\ k.last \in Answers(o)
    /\ k.result \in {"applied", "rejected"} => o = k.result

LEMMA ActiveCall ==
  ASSUME RpcInv, NEW c \in Callers
  PROVE  /\ IsCall(call[c])
         /\ call[c].state \in {"ready", "waiting"} => Active(call[c], tablet.outcome[c])
         /\ call[c].state # "waiting" => call[c].answer = NoReply
         /\ call[c].answer \in Answers(tablet.outcome[c])
  BY Zenon DEF RpcInv, CallsOK, CallOK, Active

LEMMA CallRests ==
  ASSUME RpcInv, NEW c \in Callers, NEW n, Rests(n, tablet.outcome[c]), call' = [call EXCEPT ![c] = n],
         pending' \subseteq pending, \A p \in pending' : p.caller # c,
         next_attempt' \in {next_attempt, next_attempt + 1}, scenario' \in ScenarioStates,
         UNCHANGED <<catalog, peer, wire, inbound, serving, next_token, mailbox, tablet>>
  PROVE  RpcInv'
  BY RestingCall, CallerKeeps, Zenon

LEMMA AttemptEnded ==
  ASSUME RpcInv, NEW c \in Callers, NEW k, Active(k, tablet.outcome[c]),
         NEW reply \in Answers(tablet.outcome[c]), NEW published, NEW budget,
         AttemptEnds(c, k, reply, published, budget)
  PROVE  \E n : Rests(n, tablet.outcome[c]) /\ call' = [call EXCEPT ![c] = n]
<1>1. PICK n : n = IF Retries(k, reply) THEN adjust_route_after_error(k, reply, published)
                   ELSE submit_with_outcome_recovery(k, reply, budget)
  BY Zenon
<1>2. catalog \in Nat
  BY Zenon DEF RpcInv, StateOK
<1>3. Rests(n, tablet.outcome[c])
  BY <1>1, <1>2, EndedCall, Zenon DEF Active
<1>4. call' = [call EXCEPT ![c] = n]
  BY <1>1, Zenon DEF AttemptEnds
<1> QED
  BY <1>3, <1>4, Zenon

LEMMA ActiveTried ==
  ASSUME NEW k, NEW o, Active(k, o), NEW target
  PROVE  /\ Active(Tried(k, target), o) /\ Tried(k, target).target = target
         /\ Tried(k, target).kind = k.kind /\ Tried(k, target).answer = k.answer
         /\ Tried(k, target).route = k.route
  BY TriedCall, Zenon DEF Active

\* The replies a client makes up for an attempt that ended without one.
LEMMA MadeUp ==
  ASSUME NEW o
  PROVE  \A status \in {"LeaderUnknown", "TabletUnavailable", "ProposalUnavailable",
                        "RequestOutcomeUnknown", "CorruptData", "StaleTabletEpoch", "NotLeader",
                        "row", "absent", "done"} :
            Reply(status) \in Answers(o)
<1> SUFFICES ASSUME NEW status \in {"LeaderUnknown", "TabletUnavailable", "ProposalUnavailable",
                        "RequestOutcomeUnknown", "CorruptData", "StaleTabletEpoch", "NotLeader",
                        "row", "absent", "done"}
             PROVE  Reply(status) \in Answers(o)
  BY Zenon
<1>1. status \in Statuses /\ status \notin {"applied", "rejected"}
  BY DEF Statuses
<1> QED
  BY <1>1, ReplyAnswers, Zenon

LEMMA BegunCall ==
  ASSUME NEW k, NEW o, IsCall(k), k.answer = NoReply, k.last \in Answers(o),
         k.result \in {"applied", "rejected"} => o = k.result,
         NEW kind \in Kinds, NEW route, IsRoute(route)
  PROVE  Rests([k EXCEPT !.state = "ready", !.kind = kind, !.route = route, !.original = route], o)
<1>0. k = CallOf(k.state, k.kind, k.route, k.original, k.attempted, k.attempt, k.id, k.target,
                 k.last, k.answer, k.answers, k.result)
  BY CallIsRecord, Zenon
<1>1. PICK a, b, c, d, e, f, g, h, i, j, l, m : k = CallOf(a, b, c, d, e, f, g, h, i, j, l, m)
  BY <1>0, Zenon
<1>2. k.answer = j /\ k.attempt = f /\ k.last = i /\ k.result = m
  BY <1>1 DEF CallOf
<1>3. PICK n : n = [k EXCEPT !.state = "ready", !.kind = kind, !.route = route, !.original = route]
  BY Zenon
<1>4. n = CallOf("ready", kind, route, route, e, f, g, h, i, j, l, m)
  BY <1>1, <1>3, Zenon DEF CallOf
<1>5. /\ n.state = "ready" /\ n.kind = kind /\ n.route = route /\ n.original = route /\ n.attempted = e
      /\ n.attempt = f /\ n.id = g /\ n.target = h /\ n.last = i /\ n.answer = j
      /\ n.answers = l /\ n.result = m
  BY <1>4 DEF CallOf
<1>6. f \in Nat
  BY <1>2, Zenon DEF IsCall
<1>7. IsCall(n)
  BY <1>4, <1>5, <1>6, Zenon DEF IsCall, CallOf
<1>8. n.state \in {"ready", "done"}
  BY <1>5
<1> QED
  BY <1>2, <1>3, <1>5, <1>7, <1>8, Zenon DEF Rests

LEMMA BeginKeeps ==
  ASSUME RpcInv, NEW c \in Callers, Begin(c)
  PROVE  RpcInv'
<1>1. PICK published \in PublishedLeaders :
         call' = [call EXCEPT ![c] = [@ EXCEPT !.state = "ready", !.kind = scenario.calls[c],
                                               !.route = route_with_leader_hint(published),
                                               !.original = route_with_leader_hint(published)]]
  BY Zenon DEF Begin
<1>2. /\ call[c].state = "idle" /\ scenario.calls[c] # "none"
      /\ UNCHANGED <<scenario, pending, next_attempt, catalog, peer, wire, inbound, serving,
                     next_token, mailbox, tablet>>
  BY Zenon DEF Begin, network, servers
<1>3. PICK kind, route : kind = scenario.calls[c] /\ route = route_with_leader_hint(published)
  BY Zenon
<1>4. scenario \in ScenarioStates /\ catalog \in Nat
  BY Zenon DEF RpcInv, StateOK
<1>5. kind \in Kinds
  BY <1>2, <1>3, <1>4 DEF ScenarioStates
<1>6. IsRoute(route)
  BY <1>3, <1>4, HintedRoute, Zenon
<1>7. call[c].state # "waiting"
  BY <1>2
<1>8. CallOK(c, call[c], tablet.outcome[c])
  BY Zenon DEF RpcInv, CallsOK
<1>9. PICK n : n = [call[c] EXCEPT !.state = "ready", !.kind = kind, !.route = route, !.original = route]
  BY Zenon
<1>10. Rests(n, tablet.outcome[c])
  BY <1>5, <1>6, <1>7, <1>8, <1>9, BegunCall, Zenon DEF CallOK
<1>11. call' = [call EXCEPT ![c] = n]
  BY <1>1, <1>3, <1>9, Zenon
<1>12. \A p \in pending : p.caller # c
  BY <1>7, NotAwaited, Zenon DEF RpcInv
<1> QED
  BY <1>2, <1>4, <1>10, <1>11, <1>12, CallRests, Zenon

LEMMA RestartedCall ==
  ASSUME NEW k, NEW o, Active(k, o), k.answer = NoReply, k.state = "ready"
  PROVE  Rests([k EXCEPT !.attempted = {}], o)
<1> USE DEF Active
<1>0. k = CallOf(k.state, k.kind, k.route, k.original, k.attempted, k.attempt, k.id, k.target,
                 k.last, k.answer, k.answers, k.result)
  BY CallIsRecord, Zenon
<1>1. PICK a, b, c, d, e, f, g, h, i, j, l, m : k = CallOf(a, b, c, d, e, f, g, h, i, j, l, m)
  BY <1>0, Zenon
<1>2. /\ k.state = a /\ k.kind = b /\ k.route = c /\ k.original = d /\ k.answer = j /\ k.attempt = f
      /\ k.last = i /\ k.result = m
  BY <1>1 DEF CallOf
<1>3. PICK n : n = [k EXCEPT !.attempted = {}]
  BY Zenon
<1>4. n = CallOf(a, b, c, d, {}, f, g, h, i, j, l, m)
  BY <1>1, <1>3 DEF CallOf
<1>5. /\ n.state = a /\ n.kind = b /\ n.route = c /\ n.original = d /\ n.attempted = {}
      /\ n.attempt = f /\ n.id = g /\ n.target = h /\ n.last = i /\ n.answer = j
      /\ n.answers = l /\ n.result = m
  BY <1>4 DEF CallOf
<1>6. IsCall(n)
  BY <1>2, <1>4, <1>5, Zenon DEF IsCall, CallOf
<1>7. n.state \in {"ready", "done"}
  BY <1>2, <1>5
<1> QED
  BY <1>2, <1>3, <1>5, <1>6, <1>7, Zenon DEF Rests

LEMMA CountedCall ==
  ASSUME NEW k, NEW o, Active(k, o), k.answer = NoReply, k.state = "ready", NEW reply \in Answers(o)
  PROVE  Rests([k EXCEPT !.attempt = @ + 1, !.last = reply], o)
<1> USE DEF Active
<1>0. k = CallOf(k.state, k.kind, k.route, k.original, k.attempted, k.attempt, k.id, k.target,
                 k.last, k.answer, k.answers, k.result)
  BY CallIsRecord, Zenon
<1>1. PICK a, b, c, d, e, f, g, h, i, j, l, m : k = CallOf(a, b, c, d, e, f, g, h, i, j, l, m)
  BY <1>0, Zenon
<1>2. /\ k.state = a /\ k.kind = b /\ k.route = c /\ k.original = d /\ k.answer = j /\ k.attempt = f
      /\ k.last = i /\ k.result = m
  BY <1>1 DEF CallOf
<1>3. PICK n : n = [k EXCEPT !.attempt = @ + 1, !.last = reply]
  BY Zenon
<1>4. n = CallOf(a, b, c, d, e, f + 1, g, h, reply, j, l, m)
  BY <1>1, <1>3, Zenon DEF CallOf
<1>5. /\ n.state = a /\ n.kind = b /\ n.route = c /\ n.original = d /\ n.attempted = e
      /\ n.attempt = f + 1 /\ n.id = g /\ n.target = h /\ n.last = reply /\ n.answer = j
      /\ n.answers = l /\ n.result = m
  BY <1>4 DEF CallOf
<1>6. f \in Nat
  BY <1>2, Zenon DEF IsCall
<1>7. f + 1 \in Nat
  BY <1>6
<1>8. IsCall(n)
  BY <1>2, <1>4, <1>5, <1>7, Zenon DEF IsCall, CallOf
<1>9. n.state \in {"ready", "done"}
  BY <1>2, <1>5
<1> QED
  BY <1>2, <1>3, <1>5, <1>8, <1>9, Zenon DEF Rests

LEMMA ExhaustedKeeps ==
  ASSUME RpcInv, NEW c \in Callers, Exhausted(c)
  PROVE  RpcInv'
<1>1. PICK k, o : k = call[c] /\ o = tablet.outcome[c]
  BY Zenon
<1>2. PICK n : n = IF ~Policy(k.kind).bounded THEN [k EXCEPT !.attempted = {}]
                   ELSE IF k.attempt + 1 < MaxAttempts
                        THEN [k EXCEPT !.attempt = @ + 1, !.last = Reply("LeaderUnknown")]
                        ELSE submit_with_outcome_recovery(k, Reply("LeaderUnknown"), FALSE)
  BY Zenon
<1>3. /\ k.state = "ready" /\ call' = [call EXCEPT ![c] = n]
      /\ UNCHANGED <<scenario, pending, next_attempt, catalog, peer, wire, inbound, serving,
                     next_token, mailbox, tablet>>
  BY <1>1, <1>2, Zenon DEF Exhausted, network, servers
<1>4. k.state # "waiting" /\ k.state \in {"ready", "waiting"}
  BY <1>3
<1>5. Active(k, o) /\ k.answer = NoReply
  BY <1>1, <1>4, ActiveCall, Zenon
<1>6. Reply("LeaderUnknown") \in Answers(o)
  BY MadeUp, Zenon
<1>7. Rests(submit_with_outcome_recovery(k, Reply("LeaderUnknown"), FALSE), o)
  BY <1>5, <1>6, RecoveredCall, Zenon DEF Active
<1>8. Rests(n, o)
  BY <1>2, <1>3, <1>5, <1>6, <1>7, RestartedCall, CountedCall, Zenon
<1>9. \A p \in pending : p.caller # c
  BY <1>1, <1>4, NotAwaited, Zenon DEF RpcInv
<1> QED
  BY <1>1, <1>3, <1>8, <1>9, CallRests, Zenon DEF RpcInv, StateOK

LEMMA GiveUpKeeps ==
  ASSUME RpcInv, NEW c \in Callers, GiveUp(c)
  PROVE  RpcInv'
<1>1. PICK k, o : k = call[c] /\ o = tablet.outcome[c]
  BY Zenon
<1>2. PICK r : r = IF k.last = NoReply THEN Reply("TabletUnavailable") ELSE k.last
  BY Zenon
<1>3. PICK n : n = submit_with_outcome_recovery(k, r, FALSE)
  BY Zenon
<1>4. /\ k.state = "ready" /\ call' = [call EXCEPT ![c] = n] /\ DeadlinePasses
      /\ UNCHANGED <<pending, next_attempt, catalog, peer, wire, inbound, serving,
                     next_token, mailbox, tablet>>
  BY <1>1, <1>2, <1>3, Zenon DEF GiveUp, network, servers
<1>5. k.state # "waiting" /\ k.state \in {"ready", "waiting"}
  BY <1>4
<1>6. Active(k, o) /\ k.answer = NoReply
  BY <1>1, <1>5, ActiveCall, Zenon
<1>7. r \in Answers(o)
  BY <1>2, <1>6, MadeUp, Zenon DEF Active
<1>8. Rests(n, o)
  BY <1>3, <1>6, <1>7, RecoveredCall, Zenon DEF Active
<1>9. \A p \in pending : p.caller # c
  BY <1>1, <1>5, NotAwaited, Zenon DEF RpcInv
<1>10. scenario' \in ScenarioStates
  BY <1>4, ScenarioSpent, Zenon DEF RpcInv, StateOK, DeadlinePasses
<1> QED
  BY <1>1, <1>4, <1>8, <1>9, <1>10, CallRests, Zenon

LEMMA NoBudgetKeeps ==
  ASSUME RpcInv, NEW c \in Callers, NoBudget(c)
  PROVE  RpcInv'
<1>1. PICK o : o = tablet.outcome[c]
  BY Zenon
<1>2. PICK target \in Targets(call[c]) \ {Gateway} :
         /\ call[c].state = "ready" /\ DeadlinePasses
         /\ IF Tried(call[c], target).kind = "query"
            THEN call' = [call EXCEPT ![c] = Done(Tried(call[c], target), "OutcomeUnknown")]
            ELSE \E published \in PublishedLeaders :
                   AttemptEnds(c, Tried(call[c], target), Reply("ProposalUnavailable"), published, FALSE)
  BY Zenon DEF NoBudget
<1>3. UNCHANGED <<pending, next_attempt, catalog, peer, wire, inbound, serving, next_token, mailbox, tablet>>
  BY Zenon DEF NoBudget, network, servers
<1>4. call[c].state # "waiting" /\ call[c].state \in {"ready", "waiting"}
  BY <1>2
<1>5. PICK k : k = Tried(call[c], target)
  BY Zenon
<1>6. Active(k, o)
  BY <1>1, <1>4, <1>5, ActiveCall, ActiveTried, Zenon
<1>7. \E n : Rests(n, o) /\ call' = [call EXCEPT ![c] = n]
  <2>1. CASE k.kind = "query"
    <3>1. "OutcomeUnknown" \notin {"applied", "rejected"}
      OBVIOUS
    <3>2. Rests(Done(k, "OutcomeUnknown"), o)
      BY <1>6, <3>1, DoneCall, Zenon DEF Active
    <3> QED
      BY <1>2, <1>5, <2>1, <3>2, Zenon
  <2>2. CASE k.kind # "query"
    <3>1. PICK published : AttemptEnds(c, k, Reply("ProposalUnavailable"), published, FALSE)
      BY <1>2, <1>5, <2>2, Zenon
    <3>2. Reply("ProposalUnavailable") \in Answers(o)
      BY MadeUp, Zenon
    <3> QED
      BY <1>1, <1>6, <3>1, <3>2, AttemptEnded, Zenon
  <2> QED
    BY <2>1, <2>2, Zenon
<1>8. \A p \in pending : p.caller # c
  BY <1>4, NotAwaited, Zenon DEF RpcInv
<1>9. scenario' \in ScenarioStates
  BY <1>2, ScenarioSpent, Zenon DEF RpcInv, StateOK, DeadlinePasses
<1> QED
  BY <1>1, <1>3, <1>7, <1>8, <1>9, CallRests, Zenon

LEMMA LearnKeeps ==
  ASSUME RpcInv, NEW c \in Callers, Learn(c)
  PROVE  RpcInv'
<1>1. PICK k, o : k = call[c] /\ o = tablet.outcome[c]
  BY Zenon
<1>2. PICK r : r = IF (k.answers.kind \in ControlKinds) # (k.kind \in ControlKinds)
                   THEN Reply("CorruptData") ELSE k.answer
  BY Zenon
<1>3. PICK u : u = IF k.target = Gateway /\ k.kind = "command" /\ r.status = "ProposalUnavailable"
                   THEN Reply("RequestOutcomeUnknown") ELSE r
  BY Zenon
<1>4. /\ k.state = "waiting" /\ k.answer # NoReply
      /\ \E published \in PublishedLeaders, budget \in BOOLEAN : AttemptEnds(c, k, u, published, budget)
      /\ UNCHANGED <<scenario, pending, next_attempt, catalog, peer, wire, inbound, serving,
                     next_token, mailbox, tablet>>
  BY <1>1, <1>2, <1>3, Zenon DEF Learn, network, servers
<1>5. k.state \in {"ready", "waiting"}
  BY <1>4
<1>6. Active(k, o) /\ k.answer \in Answers(o)
  BY <1>1, <1>5, ActiveCall, Zenon
<1>7. u \in Answers(o)
  BY <1>2, <1>3, <1>6, MadeUp, Zenon
<1>8. PICK published, budget : AttemptEnds(c, k, u, published, budget)
  BY <1>4, Zenon
<1>9. PICK n : Rests(n, o) /\ call' = [call EXCEPT ![c] = n]
  BY <1>1, <1>6, <1>7, <1>8, AttemptEnded, Zenon
<1>10. \A p \in pending : p.caller # c
  BY <1>1, <1>4, NotAwaited, Zenon DEF RpcInv
<1> QED
  BY <1>1, <1>4, <1>9, <1>10, CallRests, Zenon DEF RpcInv, StateOK

\* The entry of an attempt that timed out leaves the table with its waiter.
LEMMA TimeoutKeeps ==
  ASSUME RpcInv, NEW c \in Callers, Timeout(c)
  PROVE  RpcInv'
<1>1. PICK k, o : k = call[c] /\ o = tablet.outcome[c]
  BY Zenon
<1>2. PICK r : r = IF k.kind = "command" THEN "RequestOutcomeUnknown" ELSE "ProposalUnavailable"
  BY Zenon
<1>3. /\ k.state = "waiting" /\ DeadlinePasses
      /\ pending' = IF k.target = Gateway THEN pending ELSE ForgetAttempt(pending, k.id)
      /\ \E published \in PublishedLeaders, budget \in BOOLEAN : AttemptEnds(c, k, Reply(r), published, budget)
      /\ UNCHANGED <<next_attempt, catalog, peer, wire, inbound, serving, next_token, mailbox, tablet>>
  BY <1>1, <1>2, Zenon DEF Timeout, network, servers
<1>4. k.state \in {"ready", "waiting"}
  BY <1>3
<1>5. Active(k, o)
  BY <1>1, <1>4, ActiveCall, Zenon
<1>6. Reply(r) \in Answers(o)
  BY <1>2, MadeUp, Zenon
<1>7. PICK published, budget : AttemptEnds(c, k, Reply(r), published, budget)
  BY <1>3, Zenon
<1>8. PICK n : Rests(n, o) /\ call' = [call EXCEPT ![c] = n]
  BY <1>1, <1>5, <1>6, <1>7, AttemptEnded, Zenon
<1>9. pending' \subseteq pending /\ \A p \in pending' : p.caller # c
  <2>1. CASE k.target = Gateway
    BY <1>1, <1>3, <2>1, NotAwaited, Zenon DEF RpcInv
  <2>2. CASE k.target # Gateway
    BY <1>1, <1>3, <2>2, Zenon DEF RpcInv, PendingOK, ForgetAttempt
  <2> QED
    BY <2>1, <2>2, Zenon
<1>10. scenario' \in ScenarioStates
  BY <1>3, ScenarioSpent, Zenon DEF RpcInv, StateOK, DeadlinePasses
<1> QED
  BY <1>1, <1>3, <1>8, <1>9, <1>10, CallRests, Zenon

(***************************************************************************)
(* Attempts.                                                               *)
(***************************************************************************)
LEMMA StateStays ==
  ASSUME StateOK, scenario' \in ScenarioStates, next_attempt' \in {next_attempt, next_attempt + 1},
         UNCHANGED <<catalog, tablet>>
  PROVE  StateOK'
<1>1. next_attempt \in Nat
  BY Zenon DEF StateOK
<1>2. next_attempt' \in Nat
  BY <1>1
<1> QED
  BY <1>2, Zenon DEF StateOK

LEMMA PeerChanged ==
  ASSUME NEW S, NEW T, S \subseteq T, peer \in [Nodes -> [Nodes -> Peers(S)]],
         NEW n \in Nodes, NEW m, NEW q, m \in Nodes => q \in Peers(T),
         peer' = [peer EXCEPT ![n][m] = q]
  PROVE  peer' \in [Nodes -> [Nodes -> Peers(T)]]
<1>1. peer \in [Nodes -> [Nodes -> Peers(T)]]
  <2>1. Peers(S) \subseteq Peers(T)
    BY PeersGrow, Zenon
  <2> QED
    BY <2>1
<1>2. PICK P : P = Peers(T)
  BY Zenon
<1> QED
  BY <1>1, <1>2, Zenon

LEMMA NetworkChanged ==
  ASSUME NetworkOK(SoundMessages), SoundMessages \subseteq SoundMessages',
         peer' \in [Nodes -> [Nodes -> Peers(SoundMessages')]], UNCHANGED <<wire, inbound>>
  PROVE  NetworkOK(SoundMessages)'
<1>1. NetworkOK(SoundMessages')
  BY NetworkGrows, Zenon
<1> QED
  BY <1>1, Zenon DEF NetworkOK

\* A message of the wire goes out through try_send.
LEMMA MessageSent ==
  ASSUME NetworkOK(SoundMessages), SoundMessages \subseteq SoundMessages',
         NEW n \in Nodes, NEW m, NEW x, x \in SoundMessages',
         peer' = [peer EXCEPT ![n][m] = try_send(peer[n][m], encode_rpc_frame(x))]
  PROVE  peer' \in [Nodes -> [Nodes -> Peers(SoundMessages')]]
<1>1. peer \in [Nodes -> [Nodes -> Peers(SoundMessages)]]
  BY Zenon DEF NetworkOK
<1>2. Peers(SoundMessages) \subseteq Peers(SoundMessages')
  BY PeersGrow, Zenon
<1>3. encode_rpc_frame(x) \in WireFrames(SoundMessages')
  BY RpcFrameOf, Zenon DEF WireFrames
<1>4. ASSUME m \in Nodes PROVE try_send(peer[n][m], encode_rpc_frame(x)) \in Peers(SoundMessages')
  BY <1>1, <1>2, <1>3, <1>4, TrySend, Zenon
<1> QED
  BY <1>1, <1>4, PeerChanged, Zenon

LEMMA AttemptLocalKeeps ==
  ASSUME RpcInv, NEW c \in Callers, AttemptLocal(c)
  PROVE  RpcInv'
<1>1. PICK k, o : k = Tried(call[c], Gateway) /\ o = tablet.outcome[c]
  BY Zenon
<1>2. /\ call[c].state = "ready" /\ Gateway \in Targets(call[c])
      /\ UNCHANGED <<scenario, pending, next_attempt, catalog, peer, wire, inbound,
                     serving, next_token, tablet>>
  BY Zenon DEF AttemptLocal, network
<1>3. call[c].state \in {"ready", "waiting"} /\ call[c].state # "waiting"
  BY <1>2
<1>4. Active(call[c], o) /\ call[c].answer = NoReply
  BY <1>1, <1>3, ActiveCall, Zenon
<1>5. Active(k, o) /\ k.answer = NoReply /\ k.target = Gateway /\ k.kind = call[c].kind
  <2>1. /\ Active(Tried(call[c], Gateway), o) /\ Tried(call[c], Gateway).target = Gateway
        /\ Tried(call[c], Gateway).kind = call[c].kind
        /\ Tried(call[c], Gateway).answer = call[c].answer
    BY <1>4, ActiveTried, Zenon
  <2> QED
    BY <1>1, <1>4, <2>1, Zenon
<1>6. \A p \in pending : p.caller # c
  BY <1>3, NotAwaited, Zenon DEF RpcInv
<1>7. CASE /\ mailbox' = [mailbox EXCEPT ![Gateway] = Append(@, local_request(c, k))]
           /\ call' = [call EXCEPT ![c] = [k EXCEPT !.state = "waiting"]]
  <2>1. PICK n : n = [k EXCEPT !.state = "waiting", !.id = k.id]
    BY Zenon
  <2>2. call' = [call EXCEPT ![c] = n]
    BY <1>5, <1>7, <2>1, WaitsLocally, Zenon DEF Active
  <2>3. Gateway # NoNode /\ Gateway \in Nodes
    BY Zenon, RpcBounds
  <2>4. CallOK(c, n, o)
    BY <1>5, <2>1, <2>3, WaitingCall, Zenon DEF Active
  <2>5. CallsOK' /\ PendingOK' /\ SoundMessages \subseteq SoundMessages' /\ OutcomesStay
    BY <1>1, <1>2, <1>6, <2>2, <2>4, CallerSound, Zenon
  <2>6. StateOK /\ NetworkOK(SoundMessages) /\ ServersOK(SoundMessages)
    BY Zenon DEF RpcInv
  <2>7. NetworkOK(SoundMessages)'
    BY <1>2, <2>5, <2>6, NetworkUntouched, Zenon
  <2>8. AnswerableStays
    BY <1>2, Zenon DEF AnswerableStays, Answerable
  <2>9. local_request(c, k) \in AnswerableRequests(Gateway)'
    <3>1. PICK q : q = local_request(c, k)
      BY Zenon
    <3>2. IsCall(k) /\ IsCall(call[c]) /\ k.kind \in Kinds
      BY <1>4, <1>5, Zenon DEF Active
    <3>3. k.route.epoch \in Nat /\ call[c].attempt \in Nat
      BY <3>2, Zenon DEF IsCall, IsRoute
    <3>4. LocalOrigin(c) \in Origins /\ LocalOrigin(c).token = 0 /\ LocalOrigin(c).caller = c
      BY <1>5, <3>2, <3>3 DEF LocalOrigin, Origins
    <3>5. q \in Requests /\ q.origin = LocalOrigin(c) /\ q.caller = c
      BY <3>1, <3>2, <3>3, <3>4 DEF local_request, Requests
    <3> QED
      BY <3>1, <3>4, <3>5, Zenon DEF AnswerableRequests, Answerable
  <2>10. /\ mailbox' = [x \in Nodes |-> mailbox'[x]]
         /\ \A x \in Nodes : mailbox'[x] \in Seq(AnswerableRequests(x)')
    BY <1>7, <2>3, <2>6, <2>8, <2>9, MailboxGrows, Zenon
  <2>11. (serving \in [Nodes -> SUBSET Entries(SoundMessages)])'
    BY <1>2, <2>5, <2>6, ServingGrows, Zenon
  <2>12. (next_token \in [Nodes -> Nat \ {0}])' /\ TokensOK'
    BY <1>2, <2>6, Zenon DEF ServersOK, TokensOK
  <2>13. ServersOK(SoundMessages)'
    BY <1>2, <2>6, <2>8, <2>10, <2>11, <2>12, ServersKept, Zenon
  <2>14. StateOK'
    BY <1>2, <2>6, StateStays, Zenon DEF StateOK
  <2> QED
    BY <2>5, <2>7, <2>13, <2>14, Zenon DEF RpcInv
<1>8. CASE /\ mailbox' = mailbox
           /\ \E published \in PublishedLeaders, budget \in BOOLEAN :
                 AttemptEnds(c, k, Reply(IF k.kind = "command" THEN "RequestOutcomeUnknown"
                                         ELSE "ProposalUnavailable"), published, budget)
  <2>1. PICK r : r = Reply(IF k.kind = "command" THEN "RequestOutcomeUnknown" ELSE "ProposalUnavailable")
    BY Zenon
  <2>2. r \in Answers(o)
    BY <2>1, MadeUp, Zenon
  <2>3. PICK published, budget : AttemptEnds(c, k, r, published, budget)
    BY <1>8, <2>1, Zenon
  <2>4. PICK n : Rests(n, o) /\ call' = [call EXCEPT ![c] = n]
    BY <1>1, <1>5, <2>2, <2>3, AttemptEnded, Zenon
  <2> QED
    BY <1>1, <1>2, <1>6, <1>8, <2>4, CallRests, Zenon DEF RpcInv, StateOK
<1> QED
  BY <1>1, <1>7, <1>8, Zenon DEF AttemptLocal

\* An attempt goes out under a number no message carries yet.
LEMMA AttemptAdmitted ==
  ASSUME RpcInv, NEW c \in Callers, NEW n, CallOK(c, n, tablet.outcome[c]), call[c].state # "waiting",
         n.state = "waiting", n.id = next_attempt, n.answer = NoReply, n.target # Gateway,
         n.kind = call[c].kind, call' = [call EXCEPT ![c] = n],
         pending' = pending \cup {[id |-> next_attempt, target |-> n.target, caller |-> c]},
         next_attempt' = next_attempt + 1, UNCHANGED tablet
  PROVE  CallsOK' /\ PendingOK' /\ SoundMessages \subseteq SoundMessages' /\ OutcomesStay
<1>1. call = [x \in Callers |-> call[x]] /\ \A x \in Callers : CallOK(x, call[x], tablet.outcome[x])
  BY Zenon DEF RpcInv, CallsOK
<1>2. call'[c] = n /\ \A x \in Callers : x # c => call'[x] = call[x]
  BY <1>1, Zenon
<1>3. call' = [x \in Callers |-> call'[x]]
  BY <1>1
<1>4. CallsOK'
  BY <1>1, <1>2, <1>3, Zenon DEF CallsOK
<1>5. next_attempt \in Nat
  BY Zenon DEF RpcInv, StateOK
<1>6. next_attempt' \in Nat /\ next_attempt < next_attempt' /\ next_attempt <= next_attempt'
  BY <1>5
<1>7. \A p \in pending : p.caller # c
  BY NotAwaited, Zenon DEF RpcInv
<1>8. PICK w : w = [id |-> next_attempt, target |-> n.target, caller |-> c]
  BY Zenon
<1>9. w.id = next_attempt /\ w.target = n.target /\ w.caller = c
  BY <1>8
<1>10. \A p \in pending' : p = w \/ p \in pending
  BY <1>8, Zenon
<1>11. \A p \in pending : /\ p.id \in Nat /\ p.id < next_attempt /\ p.caller \in Callers /\ p.target # Gateway
                          /\ call'[p.caller] = call[p.caller]
                          /\ call[p.caller].state = "waiting" /\ call[p.caller].id = p.id
                          /\ call[p.caller].target = p.target /\ call[p.caller].answer = NoReply
  BY <1>2, <1>7, Zenon DEF RpcInv, PendingOK
<1>12. \A p \in pending : p.id < next_attempt'
  BY <1>5, <1>6, <1>11
<1>13. PendingOK'
  <2>1. ASSUME NEW p \in pending
        PROVE  /\ p.id \in Nat /\ p.id < next_attempt' /\ p.caller \in Callers /\ p.target # Gateway
               /\ call'[p.caller].state = "waiting" /\ call'[p.caller].id = p.id
               /\ call'[p.caller].target = p.target /\ call'[p.caller].answer = NoReply
    BY <1>11, <1>12, Zenon
  <2>2. /\ w.id \in Nat /\ w.id < next_attempt' /\ w.caller \in Callers /\ w.target # Gateway
        /\ call'[w.caller].state = "waiting" /\ call'[w.caller].id = w.id
        /\ call'[w.caller].target = w.target /\ call'[w.caller].answer = NoReply
    BY <1>2, <1>5, <1>6, <1>9, Zenon
  <2> QED
    BY <1>10, <2>1, <2>2, Zenon DEF PendingOK
<1>14. OutcomesStay
  BY Zenon DEF OutcomesStay
<1>15. ~(w.id < next_attempt)
  BY <1>5, <1>9
<1>16. \A p \in pending' : p.id < next_attempt => p \in pending /\ call'[p.caller].kind = call[p.caller].kind
  BY <1>10, <1>11, <1>15, Zenon
<1>17. SoundMessages \subseteq SoundMessages'
  BY <1>6, <1>14, <1>16, SoundGrows, Zenon DEF RpcInv
<1> QED
  BY <1>4, <1>13, <1>14, <1>17, Zenon

LEMMA AttemptSound ==
  ASSUME RpcInv, NEW c \in Callers, NEW n, call'[c] = n, n.kind = call[c].kind, n.kind \in Kinds,
         IsCall(call[c]),
         pending' = pending \cup {[id |-> next_attempt, target |-> n.target, caller |-> c]},
         next_attempt' = next_attempt + 1
  PROVE  attach_rpc_attempt_id(c, next_attempt) \in SoundMessages'
<1>1. PICK x : x = attach_rpc_attempt_id(c, next_attempt)
  BY Zenon
<1>2. next_attempt \in Nat
  BY Zenon DEF RpcInv, StateOK
<1>3. call[c].route.epoch \in Nat
  BY Zenon DEF IsCall, IsRoute
<1>4. NoReply \in Replies
  BY NoReplyAnswers, Zenon DEF Answers
<1>5. /\ x.attempt = next_attempt /\ x.caller = c /\ x.kind = call[c].kind /\ x.reply = NoReply
      /\ x \in Messages
  BY <1>1, <1>2, <1>3, <1>4 DEF attach_rpc_attempt_id, Messages
<1>6. x.attempt < next_attempt'
  BY <1>2, <1>5
<1>7. x.reply \in Answers(tablet.outcome'[x.caller])
  BY <1>5, NoReplyAnswers, Zenon
<1>8. PICK w : w = [id |-> next_attempt, target |-> n.target, caller |-> c]
  BY Zenon
<1>9. w.caller = c
  BY <1>8
<1>10. \A p \in pending : p.id \in Nat /\ p.id < next_attempt
  BY Zenon DEF RpcInv, PendingOK
<1>11. \A p \in pending : p.id # x.attempt
  BY <1>2, <1>5, <1>10
<1>12. \A p \in pending' : p.id = x.attempt => x.caller = p.caller /\ x.kind = call'[p.caller].kind
  BY <1>5, <1>8, <1>9, <1>11, Zenon
<1> QED
  BY <1>1, <1>5, <1>6, <1>7, <1>12, Zenon DEF SoundMessages, Sound

LEMMA SomeTarget ==
  ASSUME NEW k, NEW target \in Targets(k)
  PROVE  target # NoNode
  BY RpcBounds, Zenon DEF Targets

LEMMA AttemptRemoteKeeps ==
  ASSUME RpcInv, NEW c \in Callers, AttemptRemote(c)
  PROVE  RpcInv'
<1>1. PICK target, k :
        /\ target \in Targets(call[c]) \ {Gateway} /\ k = Tried(call[c], target)
        /\ call[c].state = "ready" /\ next_attempt' = next_attempt + 1
        /\ \/ /\ peer' = [peer EXCEPT ![Gateway][target] =
                            try_send(@, encode_rpc_frame(attach_rpc_attempt_id(c, next_attempt)))]
              /\ pending' = pending \cup {[id |-> attach_rpc_attempt_id(c, next_attempt).attempt,
                                           target |-> target, caller |-> c]}
              /\ call' = [call EXCEPT ![c] = [k EXCEPT !.state = "waiting",
                                                !.id = attach_rpc_attempt_id(c, next_attempt).attempt]]
           \/ /\ \E published \in PublishedLeaders, budget \in BOOLEAN :
                    AttemptEnds(c, k, Reply("ProposalUnavailable"), published, budget)
              /\ UNCHANGED <<peer, pending>>
        /\ UNCHANGED <<scenario, catalog, wire, inbound, serving, next_token, mailbox, tablet>>
  BY Zenon DEF AttemptRemote, servers
<1>2. target # NoNode /\ target # Gateway
  BY <1>1, SomeTarget, Zenon
<1>3. call[c].state \in {"ready", "waiting"} /\ call[c].state # "waiting"
  BY <1>1
<1>4. PICK o : o = tablet.outcome[c]
  BY Zenon
<1>5. Active(call[c], o) /\ call[c].answer = NoReply
  BY <1>3, <1>4, ActiveCall, Zenon
<1>6. Active(k, o) /\ k.answer = NoReply /\ k.target = target /\ k.kind = call[c].kind
  <2>1. /\ Active(Tried(call[c], target), o) /\ Tried(call[c], target).target = target
        /\ Tried(call[c], target).kind = call[c].kind
        /\ Tried(call[c], target).answer = call[c].answer
    BY <1>5, ActiveTried, Zenon
  <2> QED
    BY <1>1, <1>5, <2>1, Zenon
<1>7. \A p \in pending : p.caller # c
  BY <1>3, NotAwaited, Zenon DEF RpcInv
<1>8. StateOK /\ NetworkOK(SoundMessages) /\ ServersOK(SoundMessages) /\ scenario \in ScenarioStates
  BY Zenon DEF RpcInv, StateOK
<1>9. attach_rpc_attempt_id(c, next_attempt).attempt = next_attempt
  BY DEF attach_rpc_attempt_id
<1>10. CASE /\ peer' = [peer EXCEPT ![Gateway][target] =
                          try_send(@, encode_rpc_frame(attach_rpc_attempt_id(c, next_attempt)))]
            /\ pending' = pending \cup {[id |-> attach_rpc_attempt_id(c, next_attempt).attempt,
                                         target |-> target, caller |-> c]}
            /\ call' = [call EXCEPT ![c] = [k EXCEPT !.state = "waiting",
                                              !.id = attach_rpc_attempt_id(c, next_attempt).attempt]]
  <2>1. PICK n : n = [k EXCEPT !.state = "waiting", !.id = next_attempt]
    BY Zenon
  <2>2. /\ CallOK(c, n, o) /\ n.state = "waiting" /\ n.kind = call[c].kind /\ n.target = target
        /\ n.answer = NoReply /\ n.id = next_attempt
    <3>1. LET i == [k EXCEPT !.state = "waiting", !.id = next_attempt] IN
          /\ CallOK(c, i, o) /\ i.state = "waiting" /\ i.kind = k.kind /\ i.target = k.target
          /\ i.answer = NoReply /\ i.id = next_attempt
      BY <1>2, <1>6, WaitingCall, Zenon DEF Active
    <3> QED
      BY <1>6, <2>1, <3>1, Zenon
  <2>3. call' = [call EXCEPT ![c] = n]
    BY <1>9, <1>10, <2>1, Zenon
  <2>4. pending' = pending \cup {[id |-> next_attempt, target |-> n.target, caller |-> c]}
    BY <1>9, <1>10, <2>2, Zenon
  <2>5. CallsOK' /\ PendingOK' /\ SoundMessages \subseteq SoundMessages' /\ OutcomesStay
    BY <1>1, <1>2, <1>3, <1>4, <2>2, <2>3, <2>4, AttemptAdmitted, Zenon
  <2>6. call'[c] = n
    BY <2>3, Zenon DEF RpcInv, CallsOK
  <2>7. n.kind \in Kinds /\ IsCall(call[c])
    BY <1>5, <2>2, Zenon DEF Active
  <2>8. attach_rpc_attempt_id(c, next_attempt) \in SoundMessages'
    BY <1>1, <2>2, <2>4, <2>6, <2>7, AttemptSound, Zenon
  <2>9. Gateway \in Nodes
    BY RpcBounds, Zenon
  <2>10. peer' = [peer EXCEPT ![Gateway][target] = try_send(peer[Gateway][target],
                    encode_rpc_frame(attach_rpc_attempt_id(c, next_attempt)))]
    BY <1>10
  <2>11. peer' \in [Nodes -> [Nodes -> Peers(SoundMessages')]]
    BY <1>8, <2>5, <2>8, <2>9, <2>10, MessageSent, Zenon
  <2>12. NetworkOK(SoundMessages)'
    BY <1>1, <1>8, <2>5, <2>11, NetworkChanged, Zenon
  <2>13. ServersOK(SoundMessages)'
    BY <1>1, <1>8, <2>5, ServersUntouched, Zenon
  <2>14. StateOK'
    BY <1>1, <1>8, StateStays, Zenon
  <2> QED
    BY <2>5, <2>12, <2>13, <2>14, Zenon DEF RpcInv
<1>11. CASE /\ \E published \in PublishedLeaders, budget \in BOOLEAN :
                  AttemptEnds(c, k, Reply("ProposalUnavailable"), published, budget)
            /\ UNCHANGED <<peer, pending>>
  <2>1. Reply("ProposalUnavailable") \in Answers(o)
    BY MadeUp, Zenon
  <2>2. PICK published, budget : AttemptEnds(c, k, Reply("ProposalUnavailable"), published, budget)
    BY <1>11, Zenon
  <2>3. PICK n : Rests(n, o) /\ call' = [call EXCEPT ![c] = n]
    BY <1>4, <1>6, <2>1, <2>2, AttemptEnded, Zenon
  <2> QED
    BY <1>1, <1>4, <1>7, <1>8, <1>11, <2>3, CallRests, Zenon
<1> QED
  BY <1>1, <1>10, <1>11, Zenon

(***************************************************************************)
(* The transport.                                                          *)
(***************************************************************************)
LEMMA TransportGrows ==
  ASSUME NEW S, NEW T, S \subseteq T, NEW p \in [Nodes -> [Nodes -> Peers(S)]],
         NEW w \in [Nodes -> [Nodes -> Seq(WireFrames(S))]], NEW i \in [Nodes -> Inbounds(S)]
  PROVE  /\ p \in [Nodes -> [Nodes -> Peers(T)]]
         /\ w \in [Nodes -> [Nodes -> Seq(WireFrames(T))]] /\ i \in [Nodes -> Inbounds(T)]
<1>1. Peers(S) \subseteq Peers(T) /\ Inbounds(S) \subseteq Inbounds(T)
  BY PeersGrow, InboundsGrow, Zenon
<1>2. Seq(WireFrames(S)) \subseteq Seq(WireFrames(T))
  BY FramesGrow, SeqGrows, Zenon
<1>3. p \in [Nodes -> [Nodes -> Peers(T)]]
  BY <1>1
<1>4. w \in [Nodes -> [Nodes -> Seq(WireFrames(T))]]
  BY <1>2
<1>5. i \in [Nodes -> Inbounds(T)]
  BY <1>1
<1> QED
  BY <1>3, <1>4, <1>5, Zenon

LEMMA TransportKeeps ==
  ASSUME RpcInv, scenario' \in ScenarioStates, peer' \in [Nodes -> [Nodes -> Peers(SoundMessages)]],
         wire' \in [Nodes -> [Nodes -> Seq(WireFrames(SoundMessages))]],
         inbound' \in [Nodes -> Inbounds(SoundMessages)],
         UNCHANGED <<call, pending, next_attempt, catalog, serving, next_token, mailbox, tablet>>
  PROVE  RpcInv'
<1>1. OutcomesStay
  BY Zenon DEF OutcomesStay
<1>2. StateOK /\ CallsOK /\ PendingOK /\ ServersOK(SoundMessages)
  BY Zenon DEF RpcInv
<1>3. SoundMessages \subseteq SoundMessages'
  BY <1>1, <1>2, SoundStays, Zenon
<1>4. NetworkOK(SoundMessages)'
  BY <1>3, TransportGrows, Zenon DEF NetworkOK
<1>5. ServersOK(SoundMessages)'
  BY <1>1, <1>2, <1>3, ServersUntouched, Zenon
<1>6. StateOK'
  BY <1>2, StateStays, Zenon
<1>7. CallsOK' /\ PendingOK'
  BY <1>2, Zenon DEF CallsOK, PendingOK
<1> QED
  BY <1>4, <1>5, <1>6, <1>7, Zenon DEF RpcInv

LEMMA NetworkParts ==
  ASSUME RpcInv
  PROVE  /\ peer \in [Nodes -> [Nodes -> Peers(SoundMessages)]]
         /\ wire \in [Nodes -> [Nodes -> Seq(WireFrames(SoundMessages))]]
         /\ inbound \in [Nodes -> Inbounds(SoundMessages)] /\ scenario \in ScenarioStates
  BY Zenon DEF RpcInv, NetworkOK, StateOK

LEMMA OnePeer ==
  ASSUME NEW P, peer \in [Nodes -> [Nodes -> P]], NEW n \in Nodes, NEW m \in Nodes, NEW q \in P,
         peer' = [peer EXCEPT ![n][m] = q]
  PROVE  peer' \in [Nodes -> [Nodes -> P]]
  OBVIOUS

LEMMA OneWire ==
  ASSUME NEW P, wire \in [Nodes -> [Nodes -> P]], NEW n \in Nodes, NEW m \in Nodes, NEW q \in P,
         wire' = [wire EXCEPT ![n][m] = q]
  PROVE  wire' \in [Nodes -> [Nodes -> P]]
  OBVIOUS

LEMMA OneInbound ==
  ASSUME NEW P, inbound \in [Nodes -> P], NEW m \in Nodes, NEW q \in P,
         inbound' = [inbound EXCEPT ![m] = q]
  PROVE  inbound' \in [Nodes -> P]
  OBVIOUS

LEMMA RaftSendKeeps ==
  ASSUME RpcInv, NEW n \in Nodes, NEW m \in Nodes, NEW beat \in BOOLEAN, RaftSend(n, m, beat)
  PROVE  RpcInv'
<1>1. PICK f : f = encode_routed_message([control |-> beat, heartbeat |-> beat, group |-> "other",
                                          number |-> scenario.raft])
  BY Zenon
<1>2. scenario.raft \in Int
  BY NetworkParts DEF ScenarioStates
<1>3. [control |-> beat, heartbeat |-> beat, group |-> "other", number |-> scenario.raft] \in RaftMessages
  BY <1>2 DEF RaftMessages
<1>4. PICK x \in RaftMessages :
        x = [control |-> beat, heartbeat |-> beat, group |-> "other", number |-> scenario.raft]
  BY <1>3, Zenon
<1>5. f = encode_routed_message(x)
  BY <1>1, <1>4, Zenon
<1>6. <<x>> \in Seq(RaftMessages) \ {<<>>}
  OBVIOUS
<1>7. x.control \in BOOLEAN /\ x.heartbeat \in BOOLEAN /\ x.group \in {"other"}
  BY DEF RaftMessages
<1>8. f \in RaftFrames
  BY <1>5, <1>6, <1>7 DEF encode_routed_message, RaftFrames
<1>9. try_send(peer[n][m], f) \in Peers(SoundMessages)
  BY <1>8, NetworkParts, TrySend, Zenon DEF WireFrames
<1>10. /\ peer' = [peer EXCEPT ![n][m] = try_send(peer[n][m], f)]
       /\ scenario' = [scenario EXCEPT !.raft = @ - 1]
       /\ UNCHANGED <<call, pending, next_attempt, catalog, wire, inbound, serving, next_token, mailbox, tablet>>
  BY <1>1, Zenon DEF RaftSend, servers
<1>11. peer' \in [Nodes -> [Nodes -> Peers(SoundMessages)]]
  BY <1>9, <1>10, NetworkParts, OnePeer, Zenon
<1> QED
  BY <1>10, <1>11, NetworkParts, ScenarioSpent, TransportKeeps, Zenon

LEMMA TakeFrameKeeps ==
  ASSUME RpcInv, NEW n \in Nodes, NEW m \in Nodes, TakeFrame(n, m)
  PROVE  RpcInv'
<1>1. /\ peer' = [peer EXCEPT ![n][m] = pop_next(peer[n][m])]
      /\ UNCHANGED <<scenario, call, pending, next_attempt, catalog, wire, inbound, serving,
                     next_token, mailbox, tablet>>
  BY Zenon DEF TakeFrame, callers, servers
<1>2. pop_next(peer[n][m]) \in Peers(SoundMessages)
  BY NetworkParts, PopNext, Zenon
<1>3. peer' \in [Nodes -> [Nodes -> Peers(SoundMessages)]]
  BY <1>1, <1>2, NetworkParts, OnePeer, Zenon
<1> QED
  BY <1>1, <1>3, NetworkParts, TransportKeeps, Zenon

LEMMA WorkerKeeps ==
  ASSUME RpcInv, NEW n \in Nodes, NEW m \in Nodes, outbound_worker(n, m)
  PROVE  RpcInv'
<1>1. PICK written \in BOOLEAN :
        /\ scenario' = IF written THEN scenario ELSE [scenario EXCEPT !.losses = @ - 1]
        /\ wire' = IF written THEN [wire EXCEPT ![n][m] = Append(@, peer[n][m].writing)] ELSE wire
        /\ peer' = [peer EXCEPT ![n][m] = finish(@, written)]
  BY Zenon DEF outbound_worker
<1>2. /\ peer[n][m].writing # NoFrame
      /\ UNCHANGED <<call, pending, next_attempt, catalog, inbound, serving, next_token, mailbox, tablet>>
  BY Zenon DEF outbound_worker, servers
<1>3. peer[n][m] \in Peers(SoundMessages) /\ wire[n][m] \in Seq(WireFrames(SoundMessages))
  BY NetworkParts, Zenon
<1>4. finish(peer[n][m], written) \in Peers(SoundMessages)
  BY <1>3, Finish, Zenon
<1>5. peer' \in [Nodes -> [Nodes -> Peers(SoundMessages)]]
  BY <1>1, <1>4, NetworkParts, OnePeer, Zenon
<1>6. peer[n][m].writing \in WireFrames(SoundMessages)
  BY <1>2, <1>3, PeerParts, Zenon
<1>7. Append(wire[n][m], peer[n][m].writing) \in Seq(WireFrames(SoundMessages))
  BY <1>3, <1>6, SeqAppended, Zenon
<1>8. wire' \in [Nodes -> [Nodes -> Seq(WireFrames(SoundMessages))]]
  BY <1>1, <1>7, NetworkParts, OneWire, Zenon
<1>9. scenario' \in ScenarioStates
  BY <1>1, NetworkParts, ScenarioSpent, Zenon
<1> QED
  BY <1>2, <1>5, <1>8, <1>9, NetworkParts, TransportKeeps, Zenon

LEMMA ConnectionKeeps ==
  ASSUME RpcInv, NEW n \in Nodes, NEW m \in Nodes, handle_connection(n, m)
  PROVE  RpcInv'
<1>1. /\ wire[n][m] # <<>>
      /\ inbound' = [inbound EXCEPT ![m] = handle_frame(@, routes[m], n, Head(wire[n][m]))]
      /\ wire' = [wire EXCEPT ![n][m] = IF Rejected(inbound[m], routes[m], n, Head(@))
                                        THEN <<>> ELSE Tail(@)]
      /\ UNCHANGED <<scenario, call, pending, next_attempt, catalog, peer, serving, next_token,
                     mailbox, tablet>>
  BY Zenon DEF handle_connection, callers, servers
<1>2. inbound[m] \in Inbounds(SoundMessages) /\ wire[n][m] \in Seq(WireFrames(SoundMessages))
  BY NetworkParts, Zenon
<1>3. /\ Head(wire[n][m]) \in WireFrames(SoundMessages)
      /\ Tail(wire[n][m]) \in Seq(WireFrames(SoundMessages)) /\ <<>> \in Seq(WireFrames(SoundMessages))
  BY <1>1, <1>2, SeqParts, EmptySeq, Zenon
<1>4. handle_frame(inbound[m], routes[m], n, Head(wire[n][m])) \in Inbounds(SoundMessages)
  BY <1>2, <1>3, HandleFrame, Zenon
<1>5. inbound' \in [Nodes -> Inbounds(SoundMessages)]
  BY <1>1, <1>4, NetworkParts, OneInbound, Zenon
<1>6. PICK q : q = IF Rejected(inbound[m], routes[m], n, Head(wire[n][m])) THEN <<>> ELSE Tail(wire[n][m])
  BY Zenon
<1>7. q \in Seq(WireFrames(SoundMessages))
  BY <1>3, <1>6, Zenon
<1>8. wire' = [wire EXCEPT ![n][m] = q]
  BY <1>1, <1>6, Zenon
<1>9. wire' \in [Nodes -> [Nodes -> Seq(WireFrames(SoundMessages))]]
  BY <1>7, <1>8, NetworkParts, OneWire, Zenon
<1> QED
  BY <1>1, <1>5, <1>9, NetworkParts, TransportKeeps, Zenon

LEMMA BreakKeeps ==
  ASSUME RpcInv, NEW n \in Nodes, NEW m \in Nodes, ConnectionBreaks(n, m)
  PROVE  RpcInv'
<1>1. /\ scenario' = [scenario EXCEPT !.losses = @ - 1]
      /\ wire' = [wire EXCEPT ![n][m] = <<>>]
      /\ UNCHANGED <<call, pending, next_attempt, catalog, peer, inbound, serving, next_token, mailbox, tablet>>
  BY Zenon DEF ConnectionBreaks, servers
<1>2. <<>> \in Seq(WireFrames(SoundMessages))
  BY EmptySeq, Zenon
<1>3. wire' \in [Nodes -> [Nodes -> Seq(WireFrames(SoundMessages))]]
  BY <1>1, <1>2, NetworkParts, OneWire, Zenon
<1> QED
  BY <1>1, <1>3, NetworkParts, ScenarioSpent, TransportKeeps, Zenon

LEMMA HostReceivesKeeps ==
  ASSUME RpcInv, NEW m \in Nodes, HostReceives(m)
  PROVE  RpcInv'
<1>1. UNCHANGED <<scenario, call, pending, next_attempt, catalog, peer, wire, serving, next_token,
                  mailbox, tablet>>
  BY Zenon DEF HostReceives, callers, servers
<1>2. /\ inbound[m].control \in Seq([source : Nodes, message : RaftMessages])
      /\ inbound[m].bulk \in Seq([source : Nodes, message : RaftMessages])
  BY NetworkParts, InboundParts, Zenon
<1>3. CASE inbound[m].control # <<>> /\ inbound' = [inbound EXCEPT ![m].control = Tail(@)]
  <2>1. Tail(inbound[m].control) \in Seq([source : Nodes, message : RaftMessages])
    BY <1>2, <1>3, SeqParts, Zenon
  <2>2. inbound' \in [Nodes -> Inbounds(SoundMessages)]
    BY <1>3, <2>1, NetworkParts, Zenon DEF Inbounds
  <2> QED
    BY <1>1, <2>2, NetworkParts, TransportKeeps, Zenon
<1>4. CASE inbound[m].bulk # <<>> /\ inbound' = [inbound EXCEPT ![m].bulk = Tail(@)]
  <2>1. Tail(inbound[m].bulk) \in Seq([source : Nodes, message : RaftMessages])
    BY <1>2, <1>4, SeqParts, Zenon
  <2>2. inbound' \in [Nodes -> Inbounds(SoundMessages)]
    BY <1>4, <2>1, NetworkParts, Zenon DEF Inbounds
  <2> QED
    BY <1>1, <2>2, NetworkParts, TransportKeeps, Zenon
<1> QED
  BY <1>3, <1>4, Zenon DEF HostReceives

LEMMA ChangeRouteKeeps ==
  ASSUME RpcInv, NEW m \in Nodes, ChangeRoute(m)
  PROVE  RpcInv'
<1>1. /\ scenario' = [scenario EXCEPT !.routes = @ - 1]
      /\ UNCHANGED <<call, pending, next_attempt, catalog, peer, wire, inbound, serving, next_token,
                     mailbox, tablet>>
  BY Zenon DEF ChangeRoute, servers
<1> QED
  BY <1>1, NetworkParts, ScenarioSpent, TransportKeeps, Zenon
=============================================================================
