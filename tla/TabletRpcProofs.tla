-------------------------- MODULE TabletRpcProofs --------------------------
(***************************************************************************)
(* Requests between nodes, for any nodes, callers, queues and scenarios:   *)
(* whatever is lost, delayed, refused or answered late, a thread is handed *)
(* only the answer to what it waits for, and the outcome a command call    *)
(* reports is the outcome of the command.                                  *)
(*                                                                         *)
(* The invariant and its preservation by callers and transport are in      *)
(* TabletRpcLemmas; here are the steps of the dispatcher and of the tablet,*)
(* the induction and the theorems.                                         *)
(***************************************************************************)
EXTENDS TabletRpcLemmas

(***************************************************************************)
(* The dispatcher.                                                         *)
(***************************************************************************)
LEMMA DispatchKeeps ==
  ASSUME RpcInv, scenario' \in ScenarioStates, peer' \in [Nodes -> [Nodes -> Peers(SoundMessages)]],
         inbound' \in [Nodes -> Inbounds(SoundMessages)],
         serving' \in [Nodes -> SUBSET Entries(SoundMessages)],
         next_token' \in [Nodes -> Nat \ {0}], TokensOK', AnswerableStays,
         mailbox' = [x \in Nodes |-> mailbox'[x]],
         \A x \in Nodes : mailbox'[x] \in Seq(AnswerableRequests(x)'),
         UNCHANGED <<call, pending, next_attempt, catalog, wire, tablet>>
  PROVE  RpcInv'
<1>1. OutcomesStay
  BY Zenon DEF OutcomesStay
<1>2. StateOK /\ CallsOK /\ PendingOK /\ ServersOK(SoundMessages)
  BY Zenon DEF RpcInv
<1>3. SoundMessages \subseteq SoundMessages'
  BY <1>1, <1>2, SoundStays, Zenon
<1>4. NetworkOK(SoundMessages)'
  BY <1>3, NetworkParts, TransportGrows, Zenon DEF NetworkOK
<1>5. (serving \in [Nodes -> SUBSET Entries(SoundMessages)])'
  <2>1. PICK E : E = Entries(SoundMessages)
    BY Zenon
  <2>2. PICK F : F = Entries(SoundMessages)'
    BY Zenon
  <2>3. E \subseteq F
    BY <1>1, <1>3, <2>1, <2>2, EntriesGrow, Zenon
  <2>4. serving' \in [Nodes -> SUBSET E]
    BY <2>1, Zenon
  <2>5. serving' \in [Nodes -> SUBSET F]
    BY <2>3, <2>4
  <2> QED
    BY <2>2, <2>5, Zenon
<1>6. ServersOK(SoundMessages)'
  BY <1>2, <1>5, ServersKept, Zenon
<1>7. StateOK'
  BY <1>2, StateStays, Zenon
<1>8. CallsOK' /\ PendingOK'
  BY <1>2, Zenon DEF CallsOK, PendingOK
<1> QED
  BY <1>4, <1>6, <1>7, <1>8, Zenon DEF RpcInv

LEMMA Received ==
  ASSUME RpcInv, NEW n \in Nodes, inbound[n].rpc # <<>>
  PROVE  Incoming(n).source \in Nodes /\ Incoming(n).message \in SoundMessages
<1>1. inbound[n].rpc \in Seq([source : Nodes, message : SoundMessages])
  BY NetworkParts, InboundParts, Zenon
<1>2. Incoming(n) \in [source : Nodes, message : SoundMessages]
  BY <1>1, SeqParts, Zenon DEF Incoming
<1> QED
  BY <1>2

LEMMA Consumed ==
  ASSUME RpcInv, NEW n \in Nodes, inbound[n].rpc # <<>>, Consume(n)
  PROVE  inbound' \in [Nodes -> Inbounds(SoundMessages)]
<1>1. inbound[n].rpc \in Seq([source : Nodes, message : SoundMessages])
  BY NetworkParts, InboundParts, Zenon
<1>2. Tail(inbound[n].rpc) \in Seq([source : Nodes, message : SoundMessages])
  BY <1>1, SeqParts, Zenon
<1>3. PICK S : S = SoundMessages
  BY Zenon
<1>4. inbound \in [Nodes -> Inbounds(S)] /\ Tail(inbound[n].rpc) \in Seq([source : Nodes, message : S])
  BY <1>2, <1>3, NetworkParts, Zenon
<1>5. inbound' = [inbound EXCEPT ![n].rpc = Tail(@)]
  BY Zenon DEF Consume
<1>6. inbound' \in [Nodes -> Inbounds(S)]
  BY <1>4, <1>5, Zenon DEF Inbounds
<1> QED
  BY <1>3, <1>6, Zenon

LEMMA SoundParts ==
  ASSUME NEW x \in SoundMessages
  PROVE  /\ x \in Messages /\ Sound(x) /\ x.caller \in Callers /\ x.kind \in Kinds
         /\ x.attempt \in Nat /\ x.epoch \in Nat
<1>1. x \in Messages /\ Sound(x)
  BY Zenon DEF SoundMessages
<1> QED
  BY <1>1 DEF Messages

LEMMA ResponseSound ==
  ASSUME NEW x \in SoundMessages, NEW r \in Answers(tablet.outcome[x.caller])
  PROVE  Response(x, r) \in SoundMessages
<1>1. PICK y, e : y = Response(x, r) /\ e = error_response(r)
  BY Zenon
<1>2. e \in Answers(tablet.outcome[x.caller])
  BY <1>1, CodedAnswers, Zenon
<1>3. x \in Messages /\ Sound(x)
  BY SoundParts, Zenon
<1>4. e \in Replies
  BY <1>2, Zenon DEF Answers
<1>5. /\ y \in Messages /\ y.reply = e /\ y.caller = x.caller /\ y.kind = x.kind
      /\ y.attempt = x.attempt
  BY <1>1, <1>3, <1>4, Zenon DEF Response, Messages
<1> QED
  BY <1>1, <1>2, <1>3, <1>5, Zenon DEF SoundMessages, Sound

LEMMA ResponseSent ==
  ASSUME RpcInv, NEW n \in Nodes, NEW to \in Nodes, NEW x \in SoundMessages,
         NEW r \in Answers(tablet.outcome[x.caller]), peer' = send_response(n, x, to, r)
  PROVE  peer' \in [Nodes -> [Nodes -> Peers(SoundMessages)]]
<1>1. encode_rpc_frame(Response(x, r)) \in WireFrames(SoundMessages)
  BY ResponseSound, RpcFrameOf, Zenon DEF WireFrames
<1>2. PICK q : q = try_send(peer[n][to], encode_rpc_frame(Response(x, r)))
  BY Zenon
<1>3. q \in Peers(SoundMessages)
  BY <1>1, <1>2, NetworkParts, TrySend, Zenon
<1>4. peer' = [peer EXCEPT ![n][to] = q]
  BY <1>2, Zenon DEF send_response
<1> QED
  BY <1>3, <1>4, NetworkParts, OnePeer, Zenon

LEMMA ServerParts ==
  ASSUME RpcInv
  PROVE  /\ serving \in [Nodes -> SUBSET Entries(SoundMessages)]
         /\ next_token \in [Nodes -> Nat \ {0}] /\ TokensOK /\ ServersOK(SoundMessages)
  BY Zenon DEF RpcInv, ServersOK

LEMMA OneServing ==
  ASSUME NEW P, serving \in [Nodes -> SUBSET P], NEW n \in Nodes, NEW E, E \in SUBSET P,
         serving' = [serving EXCEPT ![n] = E]
  PROVE  /\ serving' \in [Nodes -> SUBSET P] /\ serving'[n] = E
         /\ \A m \in Nodes : m # n => serving'[m] = serving[m]
  OBVIOUS

LEMMA EntryParts ==
  ASSUME NEW p \in Entries(SoundMessages)
  PROVE  /\ p \in [token : Nat, source : Nodes, request : SoundMessages, completion : Replies]
         /\ p.token \in Nat /\ p.source \in Nodes /\ p.request \in SoundMessages
         /\ p.completion \in Answers(tablet.outcome[p.request.caller])
<1>1. /\ p \in [token : Nat, source : Nodes, request : SoundMessages, completion : Replies]
      /\ p.completion \in Answers(tablet.outcome[p.request.caller])
  BY Zenon DEF Entries
<1> QED
  BY <1>1

LEMMA NewEntry ==
  ASSUME NEW t \in Nat, NEW s \in Nodes, NEW x \in SoundMessages
  PROVE  LET w == [token |-> t, source |-> s, request |-> x, completion |-> NoReply] IN
         w \in Entries(SoundMessages) /\ w.token = t /\ w.request = x
<1>1. PICK w : w = [token |-> t, source |-> s, request |-> x, completion |-> NoReply]
  BY Zenon
<1>2. NoReply \in Replies
  BY NoReplyAnswers, Zenon DEF Answers
<1>3. w.token = t /\ w.request = x /\ w.completion = NoReply
  BY <1>1
<1>4. w \in [token : Nat, source : Nodes, request : SoundMessages, completion : Replies]
  BY <1>1, <1>2
<1>5. w \in Entries(SoundMessages)
  BY <1>3, <1>4, NoReplyAnswers, Zenon DEF Entries
<1> QED
  BY <1>1, <1>3, <1>5, Zenon

\* An entry under a fresh token, or none: old tokens meet what they met.
LEMMA EntryReserved ==
  ASSUME RpcInv, NEW n \in Nodes, NEW w \in Entries(SoundMessages), w.token = next_token[n],
         NEW E, E \subseteq serving[n] \cup {w}, serving' = [serving EXCEPT ![n] = E],
         next_token' = [next_token EXCEPT ![n] = @ + 1]
  PROVE  /\ serving' \in [Nodes -> SUBSET Entries(SoundMessages)]
         /\ next_token' \in [Nodes -> Nat \ {0}] /\ TokensOK' /\ AnswerableStays
         /\ next_token'[n] = next_token[n] + 1 /\ serving'[n] = E
<1>1. /\ serving \in [Nodes -> SUBSET Entries(SoundMessages)]
      /\ next_token \in [Nodes -> Nat \ {0}] /\ TokensOK
  BY ServerParts, Zenon
<1>2. E \in SUBSET Entries(SoundMessages)
  BY <1>1, Zenon
<1>3. /\ serving' \in [Nodes -> SUBSET Entries(SoundMessages)] /\ serving'[n] = E
      /\ \A m \in Nodes : m # n => serving'[m] = serving[m]
  BY <1>1, <1>2, OneServing, Zenon
<1>4. /\ next_token' \in [Nodes -> Nat \ {0}] /\ next_token'[n] = next_token[n] + 1
      /\ \A m \in Nodes : m # n => next_token'[m] = next_token[m]
  BY <1>1
<1>5. \A m \in Nodes : next_token[m] <= next_token'[m]
  BY <1>1, <1>4
<1>6. \A m \in Nodes : \A p \in serving[m] : p.token \in Nat
  BY <1>1, EntryParts, Zenon
<1>7. ASSUME NEW m \in Nodes, NEW p \in serving'[m] PROVE p.token < next_token'[m]
  <2>1. CASE p \in serving[m]
    <3>1. p.token \in Nat /\ p.token < next_token[m]
      BY <1>1, <1>6, <2>1, Zenon DEF TokensOK
    <3> QED
      BY <1>1, <1>4, <1>5, <3>1
  <2>2. CASE p \notin serving[m]
    <3>1. m = n /\ p = w
      BY <1>3, <1>7, <2>2, Zenon
    <3> QED
      BY <1>1, <1>4, <3>1
  <2> QED
    BY <2>1, <2>2, Zenon
<1>8. ~(w.token < next_token[n])
  BY <1>1
<1>9. ASSUME NEW m \in Nodes, NEW q \in serving'[m], q.token < next_token[m]
      PROVE  q \in serving[m]
  BY <1>3, <1>8, <1>9, Zenon
<1>10. AnswerableStays
  BY <1>1, <1>4, <1>5, <1>9, AnswerableGrows, Zenon
<1> QED
  BY <1>3, <1>4, <1>7, <1>10, Zenon DEF TokensOK

LEMMA Enqueued ==
  ASSUME RpcInv, NEW n \in Nodes, NEW x \in SoundMessages, next_token'[n] = next_token[n] + 1,
         \A p \in serving'[n] : p \in serving[n] \/ p.request = x
  PROVE  enqueue_rpc(n, x) \in AnswerableRequests(n)'
<1>1. PICK q, o : q = enqueue_rpc(n, x) /\ o = RemoteOrigin(next_token[n])
  BY Zenon
<1>2. next_token[n] \in Nat \ {0}
  BY ServerParts, Zenon
<1>3. o \in Origins /\ o.token = next_token[n]
  BY <1>1, <1>2 DEF RemoteOrigin, Origins
<1>4. x.kind \in Kinds /\ x.caller \in Callers /\ x.epoch \in Nat
  BY SoundParts, Zenon
<1>5. q = [origin |-> o, kind |-> x.kind, caller |-> x.caller, epoch |-> x.epoch]
  BY <1>1, Zenon DEF enqueue_rpc
<1>6. q \in Requests /\ q.origin = o /\ q.caller = x.caller
  BY <1>3, <1>4, <1>5 DEF Requests
<1>7. o.token # 0 /\ o.token < next_token'[n]
  BY <1>2, <1>3
<1>8. ~(next_token[n] < next_token[n])
  BY <1>2
<1>9. \A p \in serving'[n] : p.token = o.token => p.request.caller = x.caller
  BY <1>3, <1>8, ServerParts, Zenon DEF TokensOK
<1>10. Answerable(n, o, x.caller)'
  BY <1>7, <1>9, Zenon DEF Answerable
<1> QED
  BY <1>1, <1>6, <1>10, Zenon DEF AnswerableRequests

LEMMA TabletRequestKeeps ==
  ASSUME RpcInv, NEW n \in Nodes, NEW kind, TabletRequest(n, kind)
  PROVE  RpcInv'
<1>1. /\ inbound[n].rpc # <<>> /\ Consume(n) /\ Admit(n)
      /\ UNCHANGED <<scenario, call, pending, next_attempt, catalog, wire, tablet>>
  BY Zenon DEF TabletRequest, HasRequest, callers
<1>2. PICK x, s : x = Incoming(n).message /\ s = Incoming(n).source
  BY Zenon
<1>3. x \in SoundMessages /\ s \in Nodes
  BY <1>1, <1>2, Received, Zenon
<1>4. PICK w : w = [token |-> next_token[n], source |-> s, request |-> x, completion |-> NoReply]
  BY Zenon
<1>5. next_token[n] \in Nat
  BY ServerParts
<1>6. w \in Entries(SoundMessages) /\ w.token = next_token[n] /\ w.request = x
  BY <1>3, <1>4, <1>5, NewEntry, Zenon
<1>7. PICK R : R = reserve_tablet_rpc(n, s, x)
  BY Zenon
<1>8. R = serving[n] \/ R = serving[n] \cup {w}
  BY <1>4, <1>7, Zenon DEF reserve_tablet_rpc
<1>9. PICK fits : fits = (R # serving[n] /\ Len(mailbox[n]) < MaxMailbox)
  BY Zenon
<1>10. PICK E : E = IF fits THEN R ELSE cancel_tablet_rpc(R, next_token[n])
  BY Zenon
<1>11. /\ serving' = [serving EXCEPT ![n] = E]
       /\ next_token' = [next_token EXCEPT ![n] = @ + 1]
       /\ mailbox' = IF ~fits THEN mailbox ELSE [mailbox EXCEPT ![n] = Append(@, enqueue_rpc(n, x))]
       /\ peer' = IF fits THEN peer ELSE send_response(n, x, s, Reply("ProposalUnavailable"))
  BY <1>1, <1>2, <1>7, <1>9, <1>10, Zenon DEF Admit
<1>12. E \subseteq serving[n] \cup {w}
  BY <1>8, <1>10, Zenon DEF cancel_tablet_rpc
<1>13. /\ serving' \in [Nodes -> SUBSET Entries(SoundMessages)]
       /\ next_token' \in [Nodes -> Nat \ {0}] /\ TokensOK' /\ AnswerableStays
       /\ next_token'[n] = next_token[n] + 1 /\ serving'[n] = E
  BY <1>6, <1>11, <1>12, EntryReserved, Zenon
<1>14. enqueue_rpc(n, x) \in AnswerableRequests(n)'
  <2>1. \A p \in serving'[n] : p \in serving[n] \/ p.request = x
    BY <1>6, <1>12, <1>13, Zenon
  <2> QED
    BY <1>3, <1>13, <2>1, Enqueued, Zenon
<1>15. /\ mailbox' = [i \in Nodes |-> mailbox'[i]]
       /\ \A i \in Nodes : mailbox'[i] \in Seq(AnswerableRequests(i)')
  <2>1. CASE fits
    <3>1. mailbox' = [mailbox EXCEPT ![n] = Append(@, enqueue_rpc(n, x))]
      BY <1>11, <2>1, Zenon
    <3> QED
      BY <1>13, <1>14, <3>1, MailboxGrows, ServerParts, Zenon
  <2>2. CASE ~fits
    <3>1. mailbox' = mailbox
      BY <1>11, <2>2, Zenon
    <3> QED
      BY <1>13, <3>1, MailboxStays, ServerParts, Zenon
  <2> QED
    BY <2>1, <2>2, Zenon
<1>16. peer' \in [Nodes -> [Nodes -> Peers(SoundMessages)]]
  <2>1. Reply("ProposalUnavailable") \in Answers(tablet.outcome[x.caller])
    BY MadeUp, Zenon
  <2>2. CASE fits
    BY <1>11, <2>2, NetworkParts, Zenon
  <2>3. CASE ~fits
    BY <1>3, <1>11, <2>1, <2>3, ResponseSent, Zenon
  <2> QED
    BY <2>2, <2>3, Zenon
<1>17. inbound' \in [Nodes -> Inbounds(SoundMessages)]
  BY <1>1, Consumed, Zenon
<1> QED
  BY <1>1, <1>13, <1>15, <1>16, <1>17, NetworkParts, DispatchKeeps, Zenon

\* Entries leave, or control entries come: tokens keep meeting what they met.
LEMMA EntriesChanged ==
  ASSUME RpcInv, NEW n \in Nodes, NEW E, E \subseteq Entries(SoundMessages),
         \A q \in E : \/ q.token = 0 /\ q.request.kind \in ControlKinds
                      \/ \E p \in serving[n] : p.token = q.token /\ p.request = q.request,
         serving' = [serving EXCEPT ![n] = E], next_token' = next_token
  PROVE  /\ serving' \in [Nodes -> SUBSET Entries(SoundMessages)]
         /\ next_token' \in [Nodes -> Nat \ {0}] /\ TokensOK' /\ AnswerableStays
<1>1. /\ serving \in [Nodes -> SUBSET Entries(SoundMessages)]
      /\ next_token \in [Nodes -> Nat \ {0}] /\ TokensOK
  BY ServerParts, Zenon
<1>2. /\ serving' \in [Nodes -> SUBSET Entries(SoundMessages)] /\ serving'[n] = E
      /\ \A m \in Nodes : m # n => serving'[m] = serving[m]
  BY <1>1, OneServing, Zenon
<1>3. \A m \in Nodes : next_token[m] <= next_token'[m] /\ 0 < next_token[m]
  BY <1>1
<1>4. ASSUME NEW m \in Nodes, NEW q \in serving'[m] PROVE q.token < next_token'[m]
  <2>1. CASE m = n
    BY <1>1, <1>2, <1>3, <1>4, <2>1, Zenon DEF TokensOK
  <2>2. CASE m # n
    BY <1>1, <1>2, <1>4, <2>2, Zenon DEF TokensOK
  <2> QED
    BY <2>1, <2>2, Zenon
<1>5. ASSUME NEW m \in Nodes, NEW q \in serving'[m], q.request.kind \notin ControlKinds
      PROVE  \E p \in serving[m] : /\ p.token = q.token /\ p.request.kind \notin ControlKinds
                                   /\ p.request.caller = q.request.caller
  <2>1. CASE m = n
    <3>1. PICK p \in serving[n] : p.token = q.token /\ p.request = q.request
      BY <1>2, <1>5, <2>1, Zenon
    <3> QED
      BY <1>5, <2>1, <3>1, Zenon
  <2>2. CASE m # n
    BY <1>2, <1>5, <2>2, Zenon
  <2> QED
    BY <2>1, <2>2, Zenon
<1>6. AnswerableStays
  BY <1>1, <1>3, <1>5, AnswerableGrows, Zenon
<1> QED
  BY <1>1, <1>2, <1>4, <1>6, Zenon DEF TokensOK

LEMMA ControlRequestKeeps ==
  ASSUME RpcInv, NEW n \in Nodes, NEW kind \in ControlKinds, HasRequest(n, {kind}), Consume(n),
         AdmitControl(n),
         UNCHANGED <<scenario, call, pending, next_attempt, catalog, wire, next_token, mailbox, tablet>>
  PROVE  RpcInv'
<1>1. PICK x, s : x = Incoming(n).message /\ s = Incoming(n).source
  BY Zenon
<1>2. inbound[n].rpc # <<>> /\ x.kind \in ControlKinds
  BY <1>1, Zenon DEF HasRequest
<1>3. x \in SoundMessages /\ s \in Nodes
  BY <1>1, <1>2, Received, Zenon
<1>4. PICK w : w = [token |-> 0, source |-> s, request |-> x, completion |-> NoReply]
  BY Zenon
<1>5. 0 \in Nat
  OBVIOUS
<1>6. w \in Entries(SoundMessages) /\ w.token = 0 /\ w.request = x
  BY <1>3, <1>4, <1>5, NewEntry, Zenon
<1>7. PICK R : R = reserve_control_rpc(n, s, x)
  BY Zenon
<1>8. R = serving[n] \/ R = serving[n] \cup {w}
  BY <1>4, <1>7, Zenon DEF reserve_control_rpc
<1>9. PICK fits : fits = (R # serving[n] /\ Len(host_queue[n]) < MaxMailbox)
  BY Zenon
<1>10. PICK E : E = IF fits \/ R = serving[n] THEN R ELSE cancel_control_rpc(R, x.attempt)
  BY Zenon
<1>11. /\ serving' = [serving EXCEPT ![n] = E]
       /\ peer' = IF fits THEN peer ELSE send_response(n, x, s, Reply("ProposalUnavailable"))
  BY <1>1, <1>7, <1>9, <1>10, Zenon DEF AdmitControl
<1>12. E \subseteq serving[n] \cup {w}
  BY <1>8, <1>10, Zenon DEF cancel_control_rpc
<1>13. E \subseteq Entries(SoundMessages)
  BY <1>6, <1>12, ServerParts, Zenon
<1>14. \A q \in E : \/ q.token = 0 /\ q.request.kind \in ControlKinds
                    \/ \E p \in serving[n] : p.token = q.token /\ p.request = q.request
  BY <1>2, <1>6, <1>12, Zenon
<1>15. /\ serving' \in [Nodes -> SUBSET Entries(SoundMessages)]
       /\ next_token' \in [Nodes -> Nat \ {0}] /\ TokensOK' /\ AnswerableStays
  BY <1>11, <1>13, <1>14, EntriesChanged, Zenon
<1>16. /\ mailbox' = [i \in Nodes |-> mailbox'[i]]
       /\ \A i \in Nodes : mailbox'[i] \in Seq(AnswerableRequests(i)')
  BY <1>15, MailboxStays, ServerParts, Zenon
<1>17. peer' \in [Nodes -> [Nodes -> Peers(SoundMessages)]]
  <2>1. Reply("ProposalUnavailable") \in Answers(tablet.outcome[x.caller])
    BY MadeUp, Zenon
  <2>2. CASE fits
    BY <1>11, <2>2, NetworkParts, Zenon
  <2>3. CASE ~fits
    BY <1>3, <1>11, <2>1, <2>3, ResponseSent, Zenon
  <2> QED
    BY <2>2, <2>3, Zenon
<1>18. inbound' \in [Nodes -> Inbounds(SoundMessages)]
  BY <1>2, Consumed, Zenon
<1> QED
  BY <1>15, <1>16, <1>17, <1>18, NetworkParts, DispatchKeeps, Zenon

\* An entry leaves the table with a true answer.
LEMMA EntryAnswered ==
  ASSUME RpcInv, NEW n \in Nodes, NEW p \in serving[n], NEW r \in Answers(tablet.outcome[p.request.caller]),
         scenario' \in ScenarioStates, serving' = [serving EXCEPT ![n] = @ \ {p}],
         peer' = send_response(n, p.request, p.source, r),
         UNCHANGED <<call, pending, next_attempt, catalog, wire, inbound, next_token, mailbox, tablet>>
  PROVE  RpcInv'
<1>1. serving[n] \subseteq Entries(SoundMessages)
  BY ServerParts, Zenon
<1>2. p.source \in Nodes /\ p.request \in SoundMessages
  BY <1>1, EntryParts, Zenon
<1>3. PICK E : E = serving[n] \ {p}
  BY Zenon
<1>4. serving' = [serving EXCEPT ![n] = E]
  BY <1>3, Zenon
<1>5. E \subseteq Entries(SoundMessages) /\ E \subseteq serving[n]
  BY <1>1, <1>3, Zenon
<1>6. \A q \in E : \E i \in serving[n] : i.token = q.token /\ i.request = q.request
  BY <1>5, Zenon
<1>7. /\ serving' \in [Nodes -> SUBSET Entries(SoundMessages)]
      /\ next_token' \in [Nodes -> Nat \ {0}] /\ TokensOK' /\ AnswerableStays
  BY <1>4, <1>5, <1>6, EntriesChanged, Zenon
<1>8. /\ mailbox' = [i \in Nodes |-> mailbox'[i]]
      /\ \A i \in Nodes : mailbox'[i] \in Seq(AnswerableRequests(i)')
  BY <1>7, MailboxStays, ServerParts, Zenon
<1>9. peer' \in [Nodes -> [Nodes -> Peers(SoundMessages)]]
  BY <1>2, ResponseSent, Zenon
<1> QED
  BY <1>7, <1>8, <1>9, NetworkParts, DispatchKeeps, Zenon

LEMMA DrainTabletKeeps ==
  ASSUME RpcInv, NEW n \in Nodes, drain_tablet_rpc_completions(n)
  PROVE  RpcInv'
<1>1. PICK p \in TabletRequests(n), late \in BOOLEAN :
        /\ IF late THEN DeadlinePasses ELSE p.completion # NoReply /\ scenario' = scenario
        /\ serving' = [serving EXCEPT ![n] = @ \ {p}]
        /\ peer' = send_response(n, p.request, p.source,
                      IF late THEN tablet_rpc_deadline_error(p.request.kind) ELSE p.completion)
  BY Zenon DEF drain_tablet_rpc_completions
<1>2. UNCHANGED <<call, pending, next_attempt, catalog, wire, inbound, next_token, mailbox, tablet>>
  BY Zenon DEF drain_tablet_rpc_completions
<1>3. p \in serving[n] /\ p \in Entries(SoundMessages)
  BY ServerParts, Zenon DEF TabletRequests
<1>4. PICK r : r = IF late THEN tablet_rpc_deadline_error(p.request.kind) ELSE p.completion
  BY Zenon
<1>5. r \in Answers(tablet.outcome[p.request.caller])
  <2>1. tablet_rpc_deadline_error(p.request.kind) \in Answers(tablet.outcome[p.request.caller])
    BY MadeUp, Zenon DEF tablet_rpc_deadline_error
  <2>2. p.completion \in Answers(tablet.outcome[p.request.caller])
    BY <1>3, EntryParts, Zenon
  <2> QED
    BY <1>4, <2>1, <2>2, Zenon
<1>6. scenario' \in ScenarioStates
  BY <1>1, NetworkParts, ScenarioSpent, Zenon DEF DeadlinePasses
<1>7. peer' = send_response(n, p.request, p.source, r)
  BY <1>1, <1>4, Zenon
<1> QED
  BY <1>1, <1>2, <1>3, <1>5, <1>6, <1>7, EntryAnswered, Zenon

LEMMA DrainControlKeeps ==
  ASSUME RpcInv, NEW n \in Nodes, drain_control_rpc_completions(n)
  PROVE  RpcInv'
<1>1. PICK p \in ControlRequests(n) :
        /\ IF p.completion = NoReply THEN DeadlinePasses ELSE scenario' = scenario
        /\ serving' = [serving EXCEPT ![n] = @ \ {p}]
        /\ peer' = send_response(n, p.request, p.source,
                      IF p.completion = NoReply THEN Reply("ProposalUnavailable") ELSE p.completion)
  BY Zenon DEF drain_control_rpc_completions
<1>2. UNCHANGED <<call, pending, next_attempt, catalog, wire, inbound, next_token, mailbox, tablet>>
  BY Zenon DEF drain_control_rpc_completions
<1>3. p \in serving[n] /\ p \in Entries(SoundMessages)
  BY ServerParts, Zenon DEF ControlRequests
<1>4. PICK r : r = IF p.completion = NoReply THEN Reply("ProposalUnavailable") ELSE p.completion
  BY Zenon
<1>5. r \in Answers(tablet.outcome[p.request.caller])
  <2>1. Reply("ProposalUnavailable") \in Answers(tablet.outcome[p.request.caller])
    BY MadeUp, Zenon
  <2>2. p.completion \in Answers(tablet.outcome[p.request.caller])
    BY <1>3, EntryParts, Zenon
  <2> QED
    BY <1>4, <2>1, <2>2, Zenon
<1>6. scenario' \in ScenarioStates
  BY <1>1, NetworkParts, ScenarioSpent, Zenon DEF DeadlinePasses
<1>7. peer' = send_response(n, p.request, p.source, r)
  BY <1>1, <1>4, Zenon
<1> QED
  BY <1>1, <1>2, <1>3, <1>5, <1>6, <1>7, EntryAnswered, Zenon

\* The host's answer to a control request is the same for every request.
LEMMA HostAnswersKeeps ==
  ASSUME RpcInv, NEW n \in Nodes, HostAnswers(n)
  PROVE  RpcInv'
<1>1. PICK x : x = Head(host_queue[n])
  BY Zenon
<1>2. PICK E : E = {IF p.request = x THEN [p EXCEPT !.completion = Reply("done")] ELSE p : p \in serving[n]}
  BY Zenon
<1>3. /\ serving' = [serving EXCEPT ![n] = E]
      /\ UNCHANGED <<scenario, call, pending, next_attempt, catalog, peer, wire, inbound,
                     next_token, mailbox, tablet>>
  BY <1>1, <1>2, Zenon DEF HostAnswers, callers, network
<1>4. ASSUME NEW p \in serving[n]
      PROVE  LET q == [p EXCEPT !.completion = Reply("done")] IN
             q \in Entries(SoundMessages) /\ q.token = p.token /\ q.request = p.request
  <2>1. /\ p \in [token : Nat, source : Nodes, request : SoundMessages, completion : Replies]
    BY ServerParts, EntryParts, Zenon
  <2>2. Reply("done") \in Answers(tablet.outcome[p.request.caller])
    BY MadeUp, Zenon
  <2>3. Reply("done") \in Replies
    BY <2>2, Zenon DEF Answers
  <2>4. PICK r : r = Reply("done")
    BY Zenon
  <2>5. PICK q : q = [p EXCEPT !.completion = r]
    BY Zenon
  <2>6. r \in Replies
    BY <2>3, <2>4, Zenon
  <2>7. /\ q \in [token : Nat, source : Nodes, request : SoundMessages, completion : Replies]
        /\ q.token = p.token /\ q.request = p.request /\ q.completion = r
    BY <2>1, <2>5, <2>6
  <2>8. q \in Entries(SoundMessages)
    BY <2>2, <2>4, <2>7, Zenon DEF Entries
  <2> QED
    BY <2>4, <2>5, <2>7, <2>8, Zenon
<1>5. ASSUME NEW q \in E
      PROVE  q \in Entries(SoundMessages) /\ \E p \in serving[n] : p.token = q.token /\ p.request = q.request
  <2>1. PICK p \in serving[n] : q = IF p.request = x THEN [p EXCEPT !.completion = Reply("done")] ELSE p
    BY <1>2, <1>5, Zenon
  <2> QED
    BY <1>4, <2>1, ServerParts, Zenon
<1>6. /\ serving' \in [Nodes -> SUBSET Entries(SoundMessages)]
      /\ next_token' \in [Nodes -> Nat \ {0}] /\ TokensOK' /\ AnswerableStays
  <2>1. E \subseteq Entries(SoundMessages)
    BY <1>5, Zenon
  <2> QED
    BY <1>3, <1>5, <2>1, EntriesChanged, Zenon
<1>7. /\ mailbox' = [i \in Nodes |-> mailbox'[i]]
      /\ \A i \in Nodes : mailbox'[i] \in Seq(AnswerableRequests(i)')
  BY <1>3, <1>6, MailboxStays, ServerParts, Zenon
<1> QED
  BY <1>3, <1>6, <1>7, NetworkParts, DispatchKeeps, Zenon

(***************************************************************************)
(* Answers that reach a waiting thread.                                    *)
(***************************************************************************)
Answered(c, k, r) ==
    [k EXCEPT !.answer = r, !.answers = [caller |-> c, kind |-> k.kind, from |-> k.target]]

LEMMA AnsweredCall ==
  ASSUME NEW c, NEW k, NEW o, CallOK(c, k, o), k.state = "waiting", NEW r \in Answers(o)
  PROVE  CallOK(c, Answered(c, k, r), o) /\ Answered(c, k, r).kind = k.kind
<1>0. k = CallOf(k.state, k.kind, k.route, k.original, k.attempted, k.attempt, k.id, k.target,
                 k.last, k.answer, k.answers, k.result)
  BY CallIsRecord, Zenon DEF CallOK
<1>1. PICK a, b, x, d, e, f, g, h, i, j, l, m : k = CallOf(a, b, x, d, e, f, g, h, i, j, l, m)
  BY <1>0, Zenon
<1>2. /\ k.state = a /\ k.kind = b /\ k.route = x /\ k.original = d /\ k.attempt = f /\ k.last = i
      /\ k.result = m /\ k.target = h
  BY <1>1 DEF CallOf
<1>3. PICK w : w = [caller |-> c, kind |-> b, from |-> h]
  BY Zenon
<1>4. PICK n : n = [k EXCEPT !.answer = r, !.answers = w]
  BY Zenon
<1>5. n = CallOf(a, b, x, d, e, f, g, h, i, r, w, m)
  BY <1>1, <1>4, Zenon DEF CallOf
<1>6. /\ n.state = a /\ n.kind = b /\ n.route = x /\ n.original = d /\ n.attempted = e
      /\ n.attempt = f /\ n.id = g /\ n.target = h /\ n.last = i /\ n.answer = r
      /\ n.answers = w /\ n.result = m
  BY <1>5 DEF CallOf
<1>7. IsCall(n)
  BY <1>2, <1>5, <1>6, Zenon DEF IsCall, CallOf, CallOK
<1>8. CallOK(c, n, o)
  BY <1>2, <1>3, <1>6, <1>7, Zenon DEF CallOK
<1>9. n = Answered(c, k, r)
  BY <1>2, <1>3, <1>4, Zenon DEF Answered
<1> QED
  BY <1>2, <1>6, <1>8, <1>9, Zenon

LEMMA CallGrows ==
  ASSUME NEW c, NEW k, NEW o, NEW u, CallOK(c, k, o), o = u \/ o = "none"
  PROVE  CallOK(c, k, u)
<1>1. Answers(o) \subseteq Answers(u)
  BY AnswersGrow, Zenon
<1>2. k.result \in {"applied", "rejected"} => u = k.result
  BY DEF CallOK
<1> QED
  BY <1>1, <1>2, Zenon DEF CallOK

LEMMA AnswersDelivered ==
  ASSUME RpcInv, OutcomesStay, call' = [c \in Callers |-> call'[c]],
         \A c \in Callers : CallOK(c, call'[c], tablet.outcome'[c]) /\ call'[c].kind = call[c].kind,
         pending' \subseteq pending, \A p \in pending' : call'[p.caller] = call[p.caller],
         UNCHANGED next_attempt
  PROVE  CallsOK' /\ PendingOK' /\ SoundMessages \subseteq SoundMessages'
<1>1. CallsOK'
  BY Zenon DEF CallsOK
<1>2. PendingOK'
  BY Zenon DEF RpcInv, PendingOK
<1>3. next_attempt \in Nat
  BY Zenon DEF RpcInv, StateOK
<1>4. next_attempt' \in Nat /\ next_attempt <= next_attempt'
  BY <1>3
<1>5. SoundMessages \subseteq SoundMessages'
  BY <1>4, SoundGrows, Zenon DEF RpcInv
<1> QED
  BY <1>1, <1>2, <1>5, Zenon

\* The table links an answer to the caller and the kind it was awaited for.
LEMMA DeliverKeeps ==
  ASSUME RpcInv, NEW n \in Nodes, inbound[n].rpc # <<>>, DeliverResponse(n)
  PROVE  RpcInv'
<1>1. PICK x, s : x = Incoming(n).message /\ s = Incoming(n).source
  BY Zenon
<1>2. x \in SoundMessages /\ s \in Nodes
  BY <1>1, Received, Zenon
<1>3. PICK A : A = Awaited(n)
  BY Zenon
<1>4. /\ Consume(n) /\ pending' = pending \ A
      /\ call' = [c \in Callers |->
                    IF \E p \in A : p.caller = c
                    THEN [call[c] EXCEPT !.answer = response_error(x.reply),
                                         !.answers = [caller |-> x.caller, kind |-> x.kind, from |-> s]]
                    ELSE call[c]]
      /\ UNCHANGED <<scenario, next_attempt, catalog, peer, wire, serving, next_token, mailbox, tablet>>
  BY <1>1, <1>3, Zenon DEF DeliverResponse, servers
<1>5. \A p : p \in A <=> p \in pending /\ p.id = x.attempt /\ p.target = s
  BY <1>1, <1>3, Zenon DEF Awaited
<1>6. OutcomesStay
  BY <1>4, Zenon DEF OutcomesStay
<1>7. call' = [c \in Callers |-> call'[c]]
  BY <1>4, Zenon
<1>8. ASSUME NEW c \in Callers
      PROVE  CallOK(c, call'[c], tablet.outcome'[c]) /\ call'[c].kind = call[c].kind
  <2>1. CallOK(c, call[c], tablet.outcome[c])
    BY Zenon DEF RpcInv, CallsOK
  <2>2. CASE \E p \in A : p.caller = c
    <3>1. PICK p \in A : p.caller = c
      BY <2>2, Zenon
    <3>2. call[c].state = "waiting" /\ call[c].target = s
      BY <1>5, <3>1, Zenon DEF RpcInv, PendingOK
    <3>3. x.caller = c /\ x.kind = call[c].kind /\ x.reply \in Answers(tablet.outcome[x.caller])
      BY <1>2, <1>5, <3>1, SoundParts, Zenon DEF Sound
    <3>4. response_error(x.reply) \in Answers(tablet.outcome[c])
      BY <3>3, CodedAnswers, Zenon
    <3>5. call'[c] = [call[c] EXCEPT !.answer = response_error(x.reply),
                                     !.answers = [caller |-> x.caller, kind |-> x.kind, from |-> s]]
      BY <1>4, <2>2, Zenon
    <3>6. PICK k, r, o : k = call[c] /\ r = response_error(x.reply) /\ o = tablet.outcome[c]
      BY Zenon
    <3>7. call'[c] = Answered(c, k, r)
      BY <3>2, <3>3, <3>5, <3>6, Zenon DEF Answered
    <3>8. CallOK(c, k, o) /\ k.state = "waiting" /\ r \in Answers(o)
      BY <2>1, <3>2, <3>4, <3>6, Zenon
    <3>9. CallOK(c, Answered(c, k, r), o) /\ Answered(c, k, r).kind = k.kind
      BY <3>8, AnsweredCall, Zenon
    <3>10. tablet.outcome'[c] = tablet.outcome[c]
      BY <1>4, Zenon
    <3> QED
      BY <3>6, <3>7, <3>9, <3>10, Zenon
  <2>3. CASE ~\E p \in A : p.caller = c
    BY <1>4, <2>1, <2>3, Zenon
  <2> QED
    BY <2>2, <2>3, Zenon
<1>9. ASSUME NEW p \in pending' PROVE call'[p.caller] = call[p.caller]
  <2>1. p \in pending /\ p \notin A /\ p.caller \in Callers
    BY <1>4, <1>9, Zenon DEF RpcInv, PendingOK
  <2>2. ASSUME NEW q \in A, q.caller = p.caller PROVE FALSE
    <3>1. q \in pending /\ q.id = x.attempt /\ q.target = s
      BY <1>5, Zenon
    <3>2. q.id = p.id /\ q.target = p.target
      BY <2>1, <2>2, <3>1, Zenon DEF RpcInv, PendingOK
    <3> QED
      BY <1>5, <2>1, <3>1, <3>2, Zenon
  <2> QED
    BY <1>4, <2>1, <2>2, Zenon
<1>10. CallsOK' /\ PendingOK' /\ SoundMessages \subseteq SoundMessages'
  <2>1. pending' \subseteq pending
    BY <1>4, Zenon
  <2> QED
    BY <1>4, <1>6, <1>7, <1>8, <1>9, <2>1, AnswersDelivered, Zenon
<1>11. inbound' \in [Nodes -> Inbounds(SoundMessages)]
  BY <1>4, Consumed, Zenon
<1>12. NetworkOK(SoundMessages)'
  BY <1>4, <1>10, <1>11, NetworkParts, TransportGrows, Zenon DEF NetworkOK
<1>13. StateOK /\ ServersOK(SoundMessages) /\ scenario \in ScenarioStates
  BY Zenon DEF RpcInv, StateOK
<1>14. ServersOK(SoundMessages)'
  BY <1>4, <1>6, <1>10, <1>13, ServersUntouched, Zenon
<1>15. StateOK'
  BY <1>4, <1>13, StateStays, Zenon
<1> QED
  BY <1>10, <1>12, <1>14, <1>15, Zenon DEF RpcInv

LEMMA JoinResponseKeeps ==
  ASSUME RpcInv, NEW n \in Nodes, ReplicaJoinResponse(n)
  PROVE  RpcInv'
<1>1. /\ inbound[n].rpc # <<>> /\ Consume(n)
      /\ UNCHANGED <<scenario, call, pending, next_attempt, catalog, peer, wire, serving, next_token,
                     mailbox, tablet>>
  BY Zenon DEF ReplicaJoinResponse, HasResponse, callers, servers
<1>2. inbound' \in [Nodes -> Inbounds(SoundMessages)]
  BY <1>1, Consumed, Zenon
<1> QED
  BY <1>1, <1>2, NetworkParts, TransportKeeps, Zenon

LEMMA DispatchStepKeeps ==
  ASSUME RpcInv, NEW n \in Nodes, DispatcherStep(n)
  PROVE  RpcInv'
<1>1. CASE \/ TabletCommandRequest(n) \/ TabletReadRequest(n) \/ TabletTransactionStatusRequest(n)
           \/ TabletPointInspectionRequest(n) \/ TabletScanRequest(n) \/ TabletOutcomeQueryRequest(n)
  BY <1>1, TabletRequestKeeps, Zenon
     DEF TabletCommandRequest, TabletReadRequest, TabletTransactionStatusRequest,
         TabletPointInspectionRequest, TabletScanRequest, TabletOutcomeQueryRequest
<1>2. CASE MetadataRequest(n) \/ ReplicaJoinRequest(n)
  <2>1. "metadata" \in ControlKinds /\ "join" \in ControlKinds
    BY Zenon DEF ControlKinds
  <2> QED
    BY <1>2, <2>1, ControlRequestKeeps, Zenon DEF MetadataRequest, ReplicaJoinRequest, callers
<1>3. CASE TabletCommandResponse(n) \/ MetadataResponse(n)
  BY <1>3, DeliverKeeps, Zenon DEF TabletCommandResponse, MetadataResponse, HasResponse
<1> QED
  BY <1>1, <1>2, <1>3, JoinResponseKeeps, DrainTabletKeeps, DrainControlKeeps, Zenon
     DEF DispatcherStep, dispatch_message

(***************************************************************************)
(* The tablet.                                                             *)
(***************************************************************************)

\* A reply about the command of c, from node n, may go to origin o.
Meets(n, o, c) == IF n \in Nodes THEN Answerable(n, o, c) ELSE n = NoNode /\ o.token = 0

\* In this process the reply meets only the thread of the caller it is about.
LEMMA CompletedCalls ==
  ASSUME RpcInv, OutcomesStay, NEW n, NEW o, NEW c \in Callers, NEW r \in Answers(tablet.outcome'[c]),
         o.token = 0, Meets(n, o, c), Complete(n, o, r), UNCHANGED <<pending, next_attempt>>
  PROVE  CallsOK' /\ PendingOK' /\ SoundMessages \subseteq SoundMessages'
<1>1. call' = [x \in Callers |->
                 IF x = o.caller /\ call[x].state = "waiting" /\ call[x].target = n
                    /\ call[x].kind = o.kind /\ call[x].attempt = o.attempt
                 THEN [call[x] EXCEPT !.answer = r,
                                      !.answers = [caller |-> x, kind |-> o.kind, from |-> n]]
                 ELSE call[x]]
  BY Zenon DEF Complete
<1>2. call' = [x \in Callers |-> call'[x]]
  BY <1>1, Zenon
<1>3. ASSUME NEW x \in Callers PROVE CallOK(x, call[x], tablet.outcome'[x])
  <2>1. CallOK(x, call[x], tablet.outcome[x])
    BY Zenon DEF RpcInv, CallsOK
  <2>2. PICK u, v : u = tablet.outcome[x] /\ v = tablet.outcome'[x]
    BY Zenon
  <2>3. u = v \/ u = "none"
    BY <2>2, Zenon DEF OutcomesStay
  <2> QED
    BY <2>1, <2>2, <2>3, CallGrows, Zenon
<1>4. ASSUME NEW x \in Callers, call'[x] # call[x]
      PROVE  /\ x = c /\ n = Gateway /\ call[x].state = "waiting" /\ call[x].target = n
             /\ call'[x] = Answered(x, call[x], r)
  <2>1. /\ x = o.caller /\ call[x].state = "waiting" /\ call[x].target = n /\ call[x].kind = o.kind
        /\ call'[x] = [call[x] EXCEPT !.answer = r,
                                      !.answers = [caller |-> x, kind |-> o.kind, from |-> n]]
    BY <1>1, <1>4, Zenon
  <2>2. call[x].target # NoNode
    BY <1>3, <2>1, Zenon DEF CallOK
  <2>3. x = c /\ n = Gateway
    BY <2>1, <2>2, Zenon DEF Meets, Answerable
  <2>4. call'[x] = Answered(x, call[x], r)
    BY <2>1, Zenon DEF Answered
  <2> QED
    BY <2>1, <2>3, <2>4, Zenon
<1>5. ASSUME NEW x \in Callers
      PROVE  CallOK(x, call'[x], tablet.outcome'[x]) /\ call'[x].kind = call[x].kind
  <2>1. CASE call'[x] = call[x]
    BY <1>3, <2>1, Zenon
  <2>2. CASE call'[x] # call[x]
    <3>1. PICK k, u : k = call[x] /\ u = tablet.outcome'[x]
      BY Zenon
    <3>2. CallOK(x, k, u) /\ k.state = "waiting" /\ r \in Answers(u)
      BY <1>3, <1>4, <2>2, <3>1, Zenon
    <3>3. CallOK(x, Answered(x, k, r), u) /\ Answered(x, k, r).kind = k.kind
      BY <3>2, AnsweredCall, Zenon
    <3> QED
      BY <1>4, <2>2, <3>1, <3>3, Zenon
  <2> QED
    BY <2>1, <2>2, Zenon
<1>6. ASSUME NEW p \in pending' PROVE call'[p.caller] = call[p.caller]
  <2>1. p.caller \in Callers /\ call[p.caller].target # Gateway
    BY <1>6, Zenon DEF RpcInv, PendingOK
  <2> QED
    BY <1>4, <2>1, Zenon
<1> QED
  BY <1>2, <1>5, <1>6, AnswersDelivered, Zenon

\* From the wire, it meets only the entry of a request of that caller.
LEMMA CompletedEntries ==
  ASSUME RpcInv, OutcomesStay, SoundMessages \subseteq SoundMessages', NEW n \in Nodes, NEW o,
         NEW c \in Callers, NEW r \in Answers(tablet.outcome'[c]), o.token # 0, Answerable(n, o, c),
         serving' = [serving EXCEPT ![n] = publish_tablet_completion(n, o.token, r)],
         UNCHANGED next_token
  PROVE  /\ (serving \in [Nodes -> SUBSET Entries(SoundMessages)])' /\ TokensOK' /\ AnswerableStays
<1>1. /\ serving \in [Nodes -> SUBSET Entries(SoundMessages)]
      /\ next_token \in [Nodes -> Nat \ {0}] /\ TokensOK
  BY ServerParts, Zenon
<1>2. PICK E, F : E = publish_tablet_completion(n, o.token, r) /\ F = Entries(SoundMessages)'
  BY Zenon
<1>3. Entries(SoundMessages) \subseteq F
  BY <1>2, EntriesGrow, Zenon
<1>4. ASSUME NEW p \in serving[n], p.token = o.token, p.request.kind \notin ControlKinds
      PROVE  LET q == [p EXCEPT !.completion = r] IN
             q \in F /\ q.token = p.token /\ q.request = p.request
  <2>1. p \in [token : Nat, source : Nodes, request : SoundMessages, completion : Replies]
    BY <1>1, EntryParts, Zenon
  <2>2. p.request.caller = c
    BY <1>4, Zenon DEF Answerable
  <2>3. r \in Replies
    BY Zenon DEF Answers
  <2>4. PICK q : q = [p EXCEPT !.completion = r]
    BY Zenon
  <2>5. PICK S : S = SoundMessages'
    BY Zenon
  <2>6. p \in [token : Nat, source : Nodes, request : S, completion : Replies]
    BY <2>1, <2>5
  <2>7. /\ q \in [token : Nat, source : Nodes, request : S, completion : Replies]
        /\ q.token = p.token /\ q.request = p.request /\ q.completion = r
    BY <2>3, <2>4, <2>6
  <2>8. q \in F
    BY <1>2, <2>2, <2>5, <2>7, Zenon DEF Entries
  <2> QED
    BY <2>4, <2>7, <2>8, Zenon
<1>5. ASSUME NEW q \in E
      PROVE  q \in F /\ \E p \in serving[n] : p.token = q.token /\ p.request = q.request
  <2>1. PICK p \in serving[n] :
          q = IF p.token = o.token /\ p.request.kind \notin ControlKinds /\ p.completion = NoReply
              THEN [p EXCEPT !.completion = r] ELSE p
    BY <1>2, <1>5, Zenon DEF publish_tablet_completion
  <2> QED
    BY <1>1, <1>3, <1>4, <2>1, Zenon
<1>6. serving \in [Nodes -> SUBSET F]
  <2>1. PICK G : G = Entries(SoundMessages)
    BY Zenon
  <2>2. serving \in [Nodes -> SUBSET G] /\ G \subseteq F
    BY <1>1, <1>3, <2>1, Zenon
  <2> QED
    BY <2>2
<1>7. E \in SUBSET F /\ serving' = [serving EXCEPT ![n] = E]
  BY <1>2, <1>5, Zenon
<1>8. /\ serving' \in [Nodes -> SUBSET F] /\ serving'[n] = E
      /\ \A m \in Nodes : m # n => serving'[m] = serving[m]
  BY <1>6, <1>7, OneServing
<1>9. ASSUME NEW m \in Nodes, NEW q \in serving'[m]
      PROVE  \E p \in serving[m] : p.token = q.token /\ p.request = q.request
  BY <1>5, <1>8, <1>9, Zenon
<1>10. TokensOK'
  <2>1. ASSUME NEW m \in Nodes, NEW q \in serving'[m] PROVE q.token < next_token'[m]
    <3>1. PICK p \in serving[m] : p.token = q.token
      BY <1>9, <2>1, Zenon
    <3> QED
      BY <1>1, <3>1, Zenon DEF TokensOK
  <2> QED
    BY <2>1, Zenon DEF TokensOK
<1>11. \A m \in Nodes : next_token[m] <= next_token'[m]
  BY <1>1
<1>12. AnswerableStays
  BY <1>1, <1>9, <1>11, AnswerableGrows, Zenon
<1> QED
  BY <1>2, <1>8, <1>10, <1>12, Zenon

LEMMA ServingStays ==
  ASSUME RpcInv, OutcomesStay, SoundMessages \subseteq SoundMessages', UNCHANGED <<serving, next_token>>
  PROVE  /\ (serving \in [Nodes -> SUBSET Entries(SoundMessages)])' /\ TokensOK' /\ AnswerableStays
<1>1. (serving \in [Nodes -> SUBSET Entries(SoundMessages)])'
  BY ServerParts, ServingGrows, Zenon
<1>2. TokensOK'
  BY ServerParts, Zenon DEF TokensOK
<1>3. AnswerableStays
  BY Zenon DEF AnswerableStays, Answerable
<1> QED
  BY <1>1, <1>2, <1>3, Zenon

LEMMA CallsStay ==
  ASSUME RpcInv, OutcomesStay, UNCHANGED <<call, pending, next_attempt>>
  PROVE  CallsOK' /\ PendingOK' /\ SoundMessages \subseteq SoundMessages'
<1>1. ASSUME NEW x \in Callers PROVE CallOK(x, call[x], tablet.outcome'[x])
  <2>1. CallOK(x, call[x], tablet.outcome[x])
    BY Zenon DEF RpcInv, CallsOK
  <2>2. PICK u, v : u = tablet.outcome[x] /\ v = tablet.outcome'[x]
    BY Zenon
  <2>3. u = v \/ u = "none"
    BY <2>2, Zenon DEF OutcomesStay
  <2> QED
    BY <2>1, <2>2, <2>3, CallGrows, Zenon
<1>2. call = [x \in Callers |-> call[x]]
  BY Zenon DEF RpcInv, CallsOK
<1> QED
  BY <1>1, <1>2, AnswersDelivered, Zenon

LEMMA Completed ==
  ASSUME RpcInv, OutcomesStay, NEW n, NEW o, NEW c \in Callers, NEW r \in Answers(tablet.outcome'[c]),
         Meets(n, o, c), Complete(n, o, r), UNCHANGED <<pending, next_attempt, next_token>>
  PROVE  /\ CallsOK' /\ PendingOK' /\ SoundMessages \subseteq SoundMessages'
         /\ (serving \in [Nodes -> SUBSET Entries(SoundMessages)])' /\ TokensOK' /\ AnswerableStays
<1>1. CASE o.token = 0
  <2>1. CallsOK' /\ PendingOK' /\ SoundMessages \subseteq SoundMessages'
    BY <1>1, CompletedCalls, Zenon
  <2>2. serving' = serving
    BY <1>1, Zenon DEF Complete
  <2> QED
    BY <2>1, <2>2, ServingStays, Zenon
<1>2. CASE o.token # 0
  <2>1. /\ serving' = [serving EXCEPT ![n] = publish_tablet_completion(n, o.token, r)]
        /\ call' = call
    BY <1>2, Zenon DEF Complete
  <2>2. n \in Nodes /\ Answerable(n, o, c)
    BY <1>2, Zenon DEF Meets
  <2>3. CallsOK' /\ PendingOK' /\ SoundMessages \subseteq SoundMessages'
    BY <2>1, CallsStay, Zenon
  <2> QED
    BY <1>2, <2>1, <2>2, <2>3, CompletedEntries, Zenon
<1> QED
  BY <1>1, <1>2, Zenon

LEMMA TabletKeeps ==
  ASSUME RpcInv, OutcomesStay, StateOK', CallsOK', PendingOK', SoundMessages \subseteq SoundMessages',
         (serving \in [Nodes -> SUBSET Entries(SoundMessages)])', TokensOK', AnswerableStays,
         mailbox' = [x \in Nodes |-> mailbox'[x]],
         \A x \in Nodes : mailbox'[x] \in Seq(AnswerableRequests(x)'),
         \A e \in tablet.proposed' : e \in tablet.proposed \/ ProposedOK(e)',
         UNCHANGED <<peer, wire, inbound, next_token>>
  PROVE  RpcInv'
<1>1. StateOK /\ NetworkOK(SoundMessages) /\ ServersOK(SoundMessages)
  BY Zenon DEF RpcInv
<1>2. NetworkOK(SoundMessages)'
  BY <1>1, NetworkUntouched, Zenon
<1>3. (next_token \in [Nodes -> Nat \ {0}])'
  BY ServerParts, Zenon
<1>4. ServersOK(SoundMessages)'
  BY <1>1, <1>3, ServersKept, Zenon
<1> QED
  BY <1>2, <1>4, Zenon DEF RpcInv

LEMMA TabletParts ==
  ASSUME RpcInv
  PROVE  /\ tablet \in [leader : Hints, epoch : Nat, proposed : SUBSET Proposals,
                        outcome : [Callers -> Outcomes]]
         /\ tablet.leader \in Hints /\ tablet.epoch \in Nat /\ tablet.proposed \subseteq Proposals
         /\ tablet.outcome \in [Callers -> Outcomes]
         /\ next_attempt \in Nat /\ catalog \in Nat /\ scenario \in ScenarioStates
<1>1. /\ tablet \in [leader : Hints, epoch : Nat, proposed : SUBSET Proposals,
                     outcome : [Callers -> Outcomes]]
      /\ next_attempt \in Nat /\ catalog \in Nat /\ scenario \in ScenarioStates
  BY Zenon DEF RpcInv, StateOK
<1> QED
  BY <1>1

LEMMA RequestParts ==
  ASSUME RpcInv, NEW n \in Nodes, mailbox[n] # <<>>
  PROVE  LET m == Head(mailbox[n]) IN
         /\ m \in Requests /\ m.origin \in Origins /\ m.caller \in Callers
         /\ Answerable(n, m.origin, m.caller)
<1>1. PICK m : m = Head(mailbox[n])
  BY Zenon
<1>2. mailbox[n] \in Seq(AnswerableRequests(n))
  BY Zenon DEF RpcInv, ServersOK
<1>3. m \in AnswerableRequests(n)
  BY <1>1, <1>2, SeqParts, Zenon
<1>4. m \in Requests /\ Answerable(n, m.origin, m.caller)
  BY <1>3, Zenon DEF AnswerableRequests
<1>5. m.origin \in Origins /\ m.caller \in Callers
  BY <1>4 DEF Requests
<1> QED
  BY <1>1, <1>4, <1>5, Zenon

LEMMA RefusalsAnswer ==
  ASSUME NEW o, NEW epoch \in Nat, NEW hint \in Hints
  PROVE  /\ [Reply("StaleTabletEpoch") EXCEPT !.epoch = epoch] \in Answers(o)
         /\ [Reply("NotLeader") EXCEPT !.hint = hint] \in Answers(o)
<1>1. [Reply("StaleTabletEpoch") EXCEPT !.epoch = epoch] =
         [status |-> "StaleTabletEpoch", hint |-> NoNode, epoch |-> epoch]
  BY DEF Reply
<1>2. [Reply("NotLeader") EXCEPT !.hint = hint] = [status |-> "NotLeader", hint |-> hint, epoch |-> 0]
  BY DEF Reply
<1>3. "StaleTabletEpoch" \in Statuses /\ "NotLeader" \in Statuses /\ NoNode \in Hints
  BY DEF Statuses, Hints
<1>4. [status |-> "StaleTabletEpoch", hint |-> NoNode, epoch |-> epoch] \in Answers(o)
  BY <1>3 DEF Answers, Replies
<1>5. [status |-> "NotLeader", hint |-> hint, epoch |-> 0] \in Answers(o)
  BY <1>3 DEF Answers, Replies
<1> QED
  BY <1>1, <1>2, <1>4, <1>5, Zenon

\* A refusal, a row, or what the replica knows of the outcome.
LEMMA ServedAnswer ==
  ASSUME RpcInv, NEW n \in Nodes, mailbox[n] # <<>>, NEW m, m = Head(mailbox[n]),
         NEW r \in Answers(tablet.outcome[m.caller]), Complete(n, m.origin, r),
         mailbox' = [mailbox EXCEPT ![n] = Tail(@)],
         UNCHANGED <<scenario, pending, next_attempt, catalog, peer, wire, inbound, next_token, tablet>>
  PROVE  RpcInv'
<1>1. OutcomesStay
  BY Zenon DEF OutcomesStay
<1>2. m.origin \in Origins /\ m.caller \in Callers /\ Answerable(n, m.origin, m.caller)
  BY RequestParts, Zenon
<1>3. Meets(n, m.origin, m.caller) /\ r \in Answers(tablet.outcome'[m.caller])
  BY <1>2, Zenon DEF Meets
<1>4. PICK o, c : o = m.origin /\ c = m.caller
  BY Zenon
<1>5. /\ c \in Callers /\ r \in Answers(tablet.outcome'[c]) /\ Meets(n, o, c) /\ Complete(n, o, r)
  BY <1>2, <1>3, <1>4, Zenon
<1>6. /\ CallsOK' /\ PendingOK' /\ SoundMessages \subseteq SoundMessages'
      /\ (serving \in [Nodes -> SUBSET Entries(SoundMessages)])' /\ TokensOK' /\ AnswerableStays
  BY <1>1, <1>5, Completed, Zenon
<1>7. /\ mailbox' = [x \in Nodes |-> mailbox'[x]]
      /\ \A x \in Nodes : mailbox'[x] \in Seq(AnswerableRequests(x)')
  BY <1>6, MailboxShrinks, ServerParts, Zenon
<1>8. StateOK'
  BY TabletParts, StateStays, Zenon DEF RpcInv
<1>9. \A e \in tablet.proposed' : e \in tablet.proposed
  BY Zenon
<1> QED
  BY <1>1, <1>6, <1>7, <1>8, <1>9, TabletKeeps, Zenon

\* A command enters the log with the origin its answer will go to.
LEMMA CommandProposed ==
  ASSUME RpcInv, NEW n \in Nodes, mailbox[n] # <<>>, NEW m, m = Head(mailbox[n]),
         tablet' = [tablet EXCEPT !.proposed = @ \cup
                      {[node |-> n, origin |-> m.origin, caller |-> m.caller, lost |-> FALSE]}],
         mailbox' = [mailbox EXCEPT ![n] = Tail(@)],
         UNCHANGED <<scenario, call, pending, next_attempt, catalog, peer, wire, inbound, serving, next_token>>
  PROVE  RpcInv'
<1>1. m.origin \in Origins /\ m.caller \in Callers /\ Answerable(n, m.origin, m.caller)
  BY RequestParts, Zenon
<1>2. PICK w : w = [node |-> n, origin |-> m.origin, caller |-> m.caller, lost |-> FALSE]
  BY Zenon
<1>3. w \in Proposals /\ w.node = n /\ w.origin = m.origin /\ w.caller = m.caller
  BY <1>1, <1>2 DEF Proposals, Hints
<1>4. tablet' = [tablet EXCEPT !.proposed = @ \cup {w}]
  BY <1>2, Zenon
<1>5. /\ tablet' \in [leader : Hints, epoch : Nat, proposed : SUBSET Proposals,
                      outcome : [Callers -> Outcomes]]
      /\ tablet.outcome' = tablet.outcome /\ tablet.proposed' = tablet.proposed \cup {w}
  BY <1>3, <1>4, TabletParts
<1>6. StateOK'
  BY <1>5, TabletParts, Zenon DEF StateOK
<1>7. OutcomesStay
  BY <1>5, Zenon DEF OutcomesStay
<1>8. CallsOK' /\ PendingOK' /\ SoundMessages \subseteq SoundMessages'
  BY <1>7, CallsStay, Zenon
<1>9. (serving \in [Nodes -> SUBSET Entries(SoundMessages)])' /\ TokensOK' /\ AnswerableStays
  BY <1>7, <1>8, ServingStays, Zenon
<1>10. /\ mailbox' = [x \in Nodes |-> mailbox'[x]]
       /\ \A x \in Nodes : mailbox'[x] \in Seq(AnswerableRequests(x)')
  BY <1>9, MailboxShrinks, ServerParts, Zenon
<1>11. ProposedOK(w)'
  BY <1>1, <1>3, <1>9, Zenon DEF ProposedOK, AnswerableStays
<1>12. \A e \in tablet.proposed' : e \in tablet.proposed \/ ProposedOK(e)'
  BY <1>5, <1>11, Zenon
<1> QED
  BY <1>6, <1>7, <1>8, <1>9, <1>10, <1>12, TabletKeeps, Zenon

LEMMA ServeKeeps ==
  ASSUME RpcInv, NEW n \in Nodes, Serve(n)
  PROVE  RpcInv'
<1>1. PICK m : m = Head(mailbox[n])
  BY Zenon
<1>2. /\ mailbox[n] # <<>> /\ mailbox' = [mailbox EXCEPT ![n] = Tail(@)]
      /\ UNCHANGED <<scenario, pending, next_attempt, catalog, peer, wire, inbound, next_token>>
  BY Zenon DEF Serve, network
<1>3. PICK o : o = tablet.outcome[m.caller]
  BY Zenon
<1>4. ASSUME NEW r \in Answers(o), Complete(n, m.origin, r), tablet' = tablet PROVE RpcInv'
  BY <1>1, <1>2, <1>3, <1>4, ServedAnswer, Zenon
<1>5. [Reply("StaleTabletEpoch") EXCEPT !.epoch = tablet.epoch] \in Answers(o)
  BY TabletParts, RefusalsAnswer, Zenon DEF Hints
<1>6. ASSUME NEW hint \in {tablet.leader, NoNode}
      PROVE  [Reply("NotLeader") EXCEPT !.hint = hint] \in Answers(o)
  <2>1. hint \in Hints
    BY TabletParts, Zenon DEF Hints
  <2> QED
    BY <2>1, TabletParts, RefusalsAnswer, Zenon
<1>7. PICK r : r = IF m.kind # "query" THEN Reply("row")
                   ELSE IF o = "none" THEN Reply("absent") ELSE Reply(o)
  BY Zenon
<1>8. r \in Answers(o)
  <2>1. Reply("row") \in Answers(o) /\ Reply("absent") \in Answers(o)
    BY MadeUp, Zenon
  <2>2. m.caller \in Callers
    BY <1>1, <1>2, RequestParts, Zenon
  <2>3. o \in Outcomes
    BY <1>3, <2>2, TabletParts, Zenon
  <2>4. o \in Statuses
    BY <2>3 DEF Outcomes, Statuses
  <2>5. Reply(o) \in Answers(o)
    BY <2>4, ReplyAnswers, Zenon
  <2> QED
    BY <1>7, <2>1, <2>5, Zenon
<1>9. \/ /\ Complete(n, m.origin, [Reply("StaleTabletEpoch") EXCEPT !.epoch = tablet.epoch])
         /\ tablet' = tablet
      \/ /\ \E hint \in {tablet.leader, NoNode} :
               Complete(n, m.origin, [Reply("NotLeader") EXCEPT !.hint = hint])
         /\ tablet' = tablet
      \/ /\ Complete(n, m.origin, r) /\ tablet' = tablet
      \/ /\ tablet' = [tablet EXCEPT !.proposed = @ \cup
                         {[node |-> n, origin |-> m.origin, caller |-> m.caller, lost |-> FALSE]}]
         /\ UNCHANGED <<call, serving>>
  BY <1>1, <1>3, <1>7, Zenon DEF Serve
<1>10. CASE /\ tablet' = [tablet EXCEPT !.proposed = @ \cup
                            {[node |-> n, origin |-> m.origin, caller |-> m.caller, lost |-> FALSE]}]
            /\ UNCHANGED <<call, serving>>
  BY <1>1, <1>2, <1>10, CommandProposed, Zenon
<1>11. CASE /\ Complete(n, m.origin, [Reply("StaleTabletEpoch") EXCEPT !.epoch = tablet.epoch])
            /\ tablet' = tablet
  BY <1>4, <1>5, <1>11, Zenon
<1>12. CASE /\ \E hint \in {tablet.leader, NoNode} :
                  Complete(n, m.origin, [Reply("NotLeader") EXCEPT !.hint = hint])
            /\ tablet' = tablet
  BY <1>4, <1>6, <1>12, Zenon
<1>13. CASE Complete(n, m.origin, r) /\ tablet' = tablet
  BY <1>4, <1>8, <1>13, Zenon
<1> QED
  BY <1>9, <1>10, <1>11, <1>12, <1>13, Zenon

LEMMA ProposalMeets ==
  ASSUME RpcInv, NEW e \in tablet.proposed
  PROVE  /\ e \in Proposals /\ e.caller \in Callers /\ ProposedOK(e)
         /\ Meets(e.node, e.origin, e.caller)
<1>1. e \in Proposals
  BY TabletParts, Zenon
<1>2. e.caller \in Callers /\ e.node \in Hints
  BY <1>1 DEF Proposals
<1>3. ProposedOK(e)
  BY Zenon DEF RpcInv, ServersOK, ProposedOK
<1>4. Meets(e.node, e.origin, e.caller)
  BY <1>2, <1>3, Zenon DEF Meets, ProposedOK, Hints
<1> QED
  BY <1>1, <1>2, <1>3, <1>4, Zenon

LEMMA ApplyKeeps ==
  ASSUME RpcInv, NEW e \in tablet.proposed, Apply(e)
  PROVE  RpcInv'
<1>1. PICK o \in {"applied", "rejected"} :
        /\ tablet.outcome[e.caller] \in {"none", o}
        /\ tablet' = [tablet EXCEPT !.proposed = @ \ {e}, !.outcome[e.caller] = o]
        /\ Complete(e.node, e.origin, Reply(o))
  BY Zenon DEF Apply
<1>2. UNCHANGED <<scenario, pending, next_attempt, catalog, peer, wire, inbound, next_token, mailbox>>
  BY Zenon DEF Apply, network
<1>3. PICK c : c = e.caller
  BY Zenon
<1>4. c \in Callers /\ Meets(e.node, e.origin, c)
  BY <1>3, ProposalMeets, Zenon
<1>5. o \in Outcomes
  BY DEF Outcomes
<1>6. /\ tablet' \in [leader : Hints, epoch : Nat, proposed : SUBSET Proposals,
                      outcome : [Callers -> Outcomes]]
      /\ tablet.proposed' = tablet.proposed \ {e}
      /\ tablet.outcome' = [tablet.outcome EXCEPT ![c] = o]
  BY <1>1, <1>3, <1>4, <1>5, TabletParts, Zenon
<1>7. tablet.outcome'[c] = o /\ \A x \in Callers : x # c => tablet.outcome'[x] = tablet.outcome[x]
  BY <1>4, <1>6, TabletParts, Zenon
<1>8. OutcomesStay
  BY <1>1, <1>3, <1>7, Zenon DEF OutcomesStay
<1>9. Reply(o) \in Answers(tablet.outcome'[c])
  <2>1. o \in Statuses
    BY DEF Statuses
  <2> QED
    BY <1>7, <2>1, ReplyAnswers, Zenon
<1>10. /\ CallsOK' /\ PendingOK' /\ SoundMessages \subseteq SoundMessages'
       /\ (serving \in [Nodes -> SUBSET Entries(SoundMessages)])' /\ TokensOK' /\ AnswerableStays
  BY <1>1, <1>2, <1>4, <1>8, <1>9, Completed, Zenon
<1>11. StateOK'
  BY <1>2, <1>6, TabletParts, Zenon DEF StateOK
<1>12. /\ mailbox' = [x \in Nodes |-> mailbox'[x]]
       /\ \A x \in Nodes : mailbox'[x] \in Seq(AnswerableRequests(x)')
  BY <1>2, <1>10, MailboxStays, ServerParts, Zenon
<1>13. \A p \in tablet.proposed' : p \in tablet.proposed
  BY <1>6, Zenon
<1> QED
  BY <1>2, <1>8, <1>10, <1>11, <1>12, <1>13, TabletKeeps, Zenon

LEMMA AbandonKeeps ==
  ASSUME RpcInv, NEW e \in tablet.proposed, Abandon(e)
  PROVE  RpcInv'
<1>1. PICK w : w = [e EXCEPT !.node = NoNode, !.origin = RemoteOrigin(0)]
  BY Zenon
<1>2. /\ tablet' = [tablet EXCEPT !.proposed = (@ \ {e}) \cup {w}]
      /\ Complete(e.node, e.origin, Reply("ProposalUnavailable"))
      /\ UNCHANGED <<scenario, pending, next_attempt, catalog, peer, wire, inbound, next_token, mailbox>>
  BY <1>1, Zenon DEF Abandon, network
<1>3. e \in Proposals /\ e.caller \in Callers /\ Meets(e.node, e.origin, e.caller)
  BY ProposalMeets, Zenon
<1>4. PICK b : b = RemoteOrigin(0)
  BY Zenon
<1>5. b \in Origins /\ b.token = 0
  BY <1>4 DEF RemoteOrigin, Origins
<1>6. w = [e EXCEPT !.node = NoNode, !.origin = b] /\ NoNode \in Hints
  BY <1>1, <1>4, Zenon DEF Hints
<1>7. w \in Proposals /\ w.node = NoNode /\ w.origin = b
  BY <1>3, <1>5, <1>6, Zenon DEF Proposals
<1>8. /\ tablet' \in [leader : Hints, epoch : Nat, proposed : SUBSET Proposals,
                      outcome : [Callers -> Outcomes]]
      /\ tablet.proposed' = (tablet.proposed \ {e}) \cup {w}
      /\ tablet.outcome' = tablet.outcome
  BY <1>2, <1>7, TabletParts
<1>9. OutcomesStay
  BY <1>8, Zenon DEF OutcomesStay
<1>10. PICK c : c = e.caller
  BY Zenon
<1>11. c \in Callers /\ Meets(e.node, e.origin, c) /\ Reply("ProposalUnavailable") \in Answers(tablet.outcome'[c])
  BY <1>3, <1>10, MadeUp, Zenon
<1>12. /\ CallsOK' /\ PendingOK' /\ SoundMessages \subseteq SoundMessages'
       /\ (serving \in [Nodes -> SUBSET Entries(SoundMessages)])' /\ TokensOK' /\ AnswerableStays
  BY <1>2, <1>9, <1>11, Completed, Zenon
<1>13. StateOK'
  BY <1>2, <1>8, TabletParts, Zenon DEF StateOK
<1>14. /\ mailbox' = [x \in Nodes |-> mailbox'[x]]
       /\ \A x \in Nodes : mailbox'[x] \in Seq(AnswerableRequests(x)')
  BY <1>2, <1>12, MailboxStays, ServerParts, Zenon
<1>15. ProposedOK(w)'
  BY <1>5, <1>7, RpcBounds, Zenon DEF ProposedOK
<1>16. \A p \in tablet.proposed' : p \in tablet.proposed \/ ProposedOK(p)'
  BY <1>8, <1>15, Zenon
<1> QED
  BY <1>2, <1>9, <1>12, <1>13, <1>14, <1>16, TabletKeeps, Zenon

\* Steps of the tablet that answer nobody.
LEMMA TabletMoves ==
  ASSUME RpcInv, scenario' \in ScenarioStates, catalog' \in Nat,
         tablet' \in [leader : Hints, epoch : Nat, proposed : SUBSET Proposals,
                      outcome : [Callers -> Outcomes]],
         tablet.outcome' = tablet.outcome,
         \A q \in tablet.proposed' : \E e \in tablet.proposed :
             q.node = e.node /\ q.origin = e.origin /\ q.caller = e.caller,
         UNCHANGED <<call, pending, next_attempt, peer, wire, inbound, serving, next_token, mailbox>>
  PROVE  RpcInv'
<1>1. OutcomesStay
  BY Zenon DEF OutcomesStay
<1>2. CallsOK' /\ PendingOK' /\ SoundMessages \subseteq SoundMessages'
  BY <1>1, CallsStay, Zenon
<1>3. (serving \in [Nodes -> SUBSET Entries(SoundMessages)])' /\ TokensOK' /\ AnswerableStays
  BY <1>1, <1>2, ServingStays, Zenon
<1>4. StateOK'
  BY TabletParts, Zenon DEF StateOK
<1>5. /\ mailbox' = [x \in Nodes |-> mailbox'[x]]
      /\ \A x \in Nodes : mailbox'[x] \in Seq(AnswerableRequests(x)')
  BY <1>3, MailboxStays, ServerParts, Zenon
<1>6. ASSUME NEW q \in tablet.proposed' PROVE ProposedOK(q)'
  <2>1. PICK e \in tablet.proposed : q.node = e.node /\ q.origin = e.origin /\ q.caller = e.caller
    BY <1>6, Zenon
  <2>2. ProposedOK(e)'
    BY <1>3, ProposalMeets, ProposedGrows, Zenon
  <2> QED
    BY <2>1, <2>2, Zenon DEF ProposedOK
<1> QED
  BY <1>1, <1>2, <1>3, <1>4, <1>5, <1>6, TabletKeeps, Zenon

LEMMA ElectKeeps ==
  ASSUME RpcInv, Elect
  PROVE  RpcInv'
<1>1. PICK leader \in Hints :
        tablet' = [tablet EXCEPT !.leader = leader, !.proposed = {[e EXCEPT !.lost = TRUE] : e \in @}]
  BY Zenon DEF Elect, Hints
<1>2. /\ scenario' = [scenario EXCEPT !.elections = @ - 1]
      /\ UNCHANGED <<call, pending, next_attempt, catalog, peer, wire, inbound, serving, next_token, mailbox>>
  BY Zenon DEF Elect, network, servers
<1>3. PICK P : P = {[e EXCEPT !.lost = TRUE] : e \in tablet.proposed}
  BY Zenon
<1>4. ASSUME NEW q \in P
      PROVE  q \in Proposals /\ \E e \in tablet.proposed :
                 q.node = e.node /\ q.origin = e.origin /\ q.caller = e.caller
  <2>1. PICK e \in tablet.proposed : q = [e EXCEPT !.lost = TRUE]
    BY <1>3, <1>4, Zenon
  <2>2. e \in Proposals
    BY TabletParts, Zenon
  <2>3. q \in Proposals /\ q.node = e.node /\ q.origin = e.origin /\ q.caller = e.caller
    BY <2>1, <2>2, Zenon DEF Proposals
  <2> QED
    BY <2>3, Zenon
<1>5. tablet' = [tablet EXCEPT !.leader = leader, !.proposed = P]
  BY <1>1, <1>3, Zenon
<1>6. P \subseteq Proposals
  BY <1>4, Zenon
<1>7. /\ tablet' \in [leader : Hints, epoch : Nat, proposed : SUBSET Proposals,
                      outcome : [Callers -> Outcomes]]
      /\ tablet.proposed' = P /\ tablet.outcome' = tablet.outcome
  BY <1>5, <1>6, TabletParts, Zenon
<1>8. scenario' \in ScenarioStates /\ catalog' \in Nat
  BY <1>2, TabletParts, ScenarioSpent, Zenon
<1> QED
  BY <1>2, <1>4, <1>7, <1>8, TabletMoves, Zenon

LEMMA ChangeEpochKeeps ==
  ASSUME RpcInv, ChangeEpoch
  PROVE  RpcInv'
<1>1. /\ scenario' = [scenario EXCEPT !.epochs = @ - 1]
      /\ tablet' = [tablet EXCEPT !.epoch = @ + 1]
      /\ UNCHANGED <<call, pending, next_attempt, catalog, peer, wire, inbound, serving, next_token, mailbox>>
  BY Zenon DEF ChangeEpoch, network, servers
<1>2. /\ tablet' \in [leader : Hints, epoch : Nat, proposed : SUBSET Proposals,
                      outcome : [Callers -> Outcomes]]
      /\ tablet.proposed' = tablet.proposed /\ tablet.outcome' = tablet.outcome
  BY <1>1, TabletParts
<1>3. scenario' \in ScenarioStates /\ catalog' \in Nat
  BY <1>1, TabletParts, ScenarioSpent, Zenon
<1> QED
  BY <1>1, <1>2, <1>3, TabletMoves, Zenon

LEMMA PublishKeeps ==
  ASSUME RpcInv, PublishCatalog
  PROVE  RpcInv'
<1>1. /\ catalog' = catalog + 1
      /\ UNCHANGED <<scenario, call, pending, next_attempt, peer, wire, inbound, serving, next_token,
                     mailbox, tablet>>
  BY Zenon DEF PublishCatalog, network, servers
<1>2. catalog' \in Nat
  BY <1>1, TabletParts
<1> QED
  BY <1>1, <1>2, TabletParts, TabletMoves, Zenon

(***************************************************************************)
(* The theorems.                                                           *)
(***************************************************************************)
LEMMA RpcInit ==
  ASSUME Init
  PROVE  RpcInv
<1>1. /\ scenario \in ScenarioStates
      /\ call = [c \in Callers |-> IdleCall] /\ pending = {} /\ next_attempt = 1 /\ catalog = 1
      /\ peer = [n \in Nodes |-> [m \in Nodes |-> OutboundPeer]]
      /\ wire = [n \in Nodes |-> [m \in Nodes |-> <<>>]]
      /\ inbound = [n \in Nodes |-> InboundQueues]
      /\ serving = [n \in Nodes |-> {}] /\ next_token = [n \in Nodes |-> 1]
      /\ mailbox = [n \in Nodes |-> <<>>]
      /\ tablet \in [leader : {scenario.leader}, epoch : {1}, proposed : {{}},
                     outcome : {[c \in Callers |-> "none"]}]
  <2>1. Scenarios \subseteq ScenarioStates
    BY RpcBounds DEF ScenarioStates, Hints
  <2> QED
    BY <2>1, Zenon DEF Init
<1>2. scenario.leader \in Hints
  BY <1>1 DEF ScenarioStates
<1>3. /\ tablet \in [leader : Hints, epoch : Nat, proposed : SUBSET Proposals,
                     outcome : [Callers -> Outcomes]]
      /\ tablet.proposed = {} /\ tablet.outcome = [c \in Callers |-> "none"]
  <2>1. "none" \in Outcomes
    BY DEF Outcomes
  <2>2. [c \in Callers |-> "none"] \in [Callers -> Outcomes]
    BY <2>1
  <2> QED
    BY <1>1, <1>2, <2>2
<1>4. StateOK
  BY <1>1, <1>3 DEF StateOK
<1>5. CallsOK
  <2>1. PICK r, w : /\ r = [epoch |-> 0, leader |-> NoNode]
                    /\ w = [caller |-> "none", kind |-> "none", from |-> NoNode]
    BY Zenon
  <2>2. PICK k : k = IdleCall
    BY Zenon
  <2>3. k = CallOf("idle", "none", r, r, {}, 0, 0, NoNode, NoReply, NoReply, w, "none")
    BY <2>1, <2>2, Zenon DEF IdleCall, CallOf
  <2>4. /\ k.state = "idle" /\ k.kind = "none" /\ k.route = r /\ k.original = r /\ k.attempted = {}
        /\ k.attempt = 0 /\ k.id = 0 /\ k.target = NoNode /\ k.last = NoReply /\ k.answer = NoReply
        /\ k.answers = w /\ k.result = "none"
    BY <2>3 DEF CallOf
  <2>5. IsRoute(r)
    BY <2>1 DEF IsRoute
  <2>6. 0 \in Nat
    OBVIOUS
  <2>7. IsCall(k)
    BY <2>3, <2>4, <2>5, <2>6, Zenon DEF IsCall, CallOf
  <2>8. k.state \notin {"ready", "waiting"} /\ k.state # "waiting" /\ k.result \notin {"applied", "rejected"}
    BY <2>4
  <2>9. ASSUME NEW c \in Callers PROVE CallOK(c, k, tablet.outcome[c])
    <3>1. PICK o : o = tablet.outcome[c]
      BY Zenon
    <3>2. NoReply \in Answers(o)
      BY NoReplyAnswers, Zenon
    <3>3. CallOK(c, k, o)
      BY <2>4, <2>7, <2>8, <3>2, Zenon DEF CallOK
    <3> QED
      BY <3>1, <3>3, Zenon
  <2> QED
    BY <1>1, <2>2, <2>9, Zenon DEF CallsOK
<1>6. PendingOK
  BY <1>1, Zenon DEF PendingOK
<1>7. NetworkOK(SoundMessages)
  <2>1. PICK S : S = SoundMessages
    BY Zenon
  <2>2. /\ <<>> \in Seq(RaftFrames) /\ <<>> \in Seq(RpcFrames(S)) /\ <<>> \in Seq(WireFrames(S))
        /\ <<>> \in Seq([source : Nodes, message : RaftMessages]) /\ <<>> \in Seq([source : Nodes, message : S])
    BY EmptySeq, Zenon
  <2>3. 0 \in Int
    OBVIOUS
  <2>4. OutboundPeer \in Peers(S)
    BY <2>2, <2>3, PeerOf, Zenon DEF OutboundPeer
  <2>5. InboundQueues \in Inbounds(S)
    BY <2>2, InboundOf, Zenon DEF InboundQueues
  <2>6. peer \in [Nodes -> [Nodes -> Peers(S)]]
    BY <1>1, <2>4
  <2>7. wire \in [Nodes -> [Nodes -> Seq(WireFrames(S))]]
    BY <1>1, <2>2
  <2>8. inbound \in [Nodes -> Inbounds(S)]
    BY <1>1, <2>5
  <2> QED
    BY <2>1, <2>6, <2>7, <2>8, Zenon DEF NetworkOK
<1>8. ServersOK(SoundMessages)
  <2>1. PICK E : E = Entries(SoundMessages)
    BY Zenon
  <2>2. serving \in [Nodes -> SUBSET E] /\ \A n \in Nodes : serving[n] = {}
    BY <1>1
  <2>3. next_token \in [Nodes -> Nat \ {0}]
    BY <1>1
  <2>4. mailbox = [n \in Nodes |-> mailbox[n]] /\ \A n \in Nodes : mailbox[n] = <<>>
    BY <1>1
  <2>5. \A n \in Nodes : mailbox[n] \in Seq(AnswerableRequests(n))
    BY <2>4, EmptySeq, Zenon
  <2> QED
    BY <1>3, <2>1, <2>2, <2>3, <2>4, <2>5, Zenon DEF ServersOK, TokensOK
<1> QED
  BY <1>4, <1>5, <1>6, <1>7, <1>8, Zenon DEF RpcInv

LEMMA RpcStutters ==
  ASSUME RpcInv, UNCHANGED vars
  PROVE  RpcInv'
<1>1. UNCHANGED <<scenario, call, pending, next_attempt, catalog, peer, wire, inbound, serving,
                  next_token, mailbox, tablet>>
  BY Zenon DEF vars, callers, network, servers
<1> QED
  BY <1>1, NetworkParts, TransportKeeps, Zenon

LEMMA RpcStep ==
  ASSUME RpcInv, [Next]_vars
  PROVE  RpcInv'
<1>1. ASSUME NEW c \in Callers, CallerStep(c) PROVE RpcInv'
  BY <1>1, BeginKeeps, ExhaustedKeeps, GiveUpKeeps, AttemptLocalKeeps, AttemptRemoteKeeps,
     NoBudgetKeeps, LearnKeeps, TimeoutKeeps, Zenon DEF CallerStep
<1>2. ASSUME NEW n \in Nodes, NEW m \in Nodes, TransportStep(n, m) PROVE RpcInv'
  BY <1>2, RaftSendKeeps, TakeFrameKeeps, WorkerKeeps, ConnectionKeeps, BreakKeeps, Zenon
     DEF TransportStep
<1>3. ASSUME NEW n \in Nodes,
             HostReceives(n) \/ ChangeRoute(n) \/ DispatcherStep(n) \/ Serve(n) \/ HostAnswers(n)
      PROVE  RpcInv'
  BY <1>3, HostReceivesKeeps, ChangeRouteKeeps, DispatchStepKeeps, ServeKeeps, HostAnswersKeeps, Zenon
<1>4. ASSUME TabletStep PROVE RpcInv'
  BY <1>4, ElectKeeps, ChangeEpochKeeps, PublishKeeps, ApplyKeeps, AbandonKeeps, Zenon DEF TabletStep
<1> QED
  BY <1>1, <1>2, <1>3, <1>4, RpcStutters, Zenon DEF Next

\* Whatever the transport loses, delays or refuses, and whoever answers late: every
\* message on its way names an attempt that was made and, while that attempt is
\* awaited, the caller and the kind of the call that made it; every token of a serving
\* node meets only the entry it was issued for; and no reply anywhere claims an outcome
\* the command does not have (send_remote, dispatch_message, drain_tablet_rpc_completions).
THEOREM RpcInvariant == Spec => []RpcInv
<1>1. Init => RpcInv
  BY RpcInit
<1>2. RpcInv /\ [Next]_vars => RpcInv'
  BY RpcStep
<1> QED
  BY <1>1, <1>2, PTL DEF Spec

\* The answer handed to a waiting thread is the answer to its own request, of the kind
\* it waits for now, from the node it asked (dispatch_message and the pending table).
THEOREM ThreadsGetOwnAnswers == Spec => []OwnAnswers
<1>1. RpcInv => OwnAnswers
  BY Zenon DEF RpcInv, CallsOK, CallOK, OwnAnswers
<1> QED
  BY <1>1, RpcInvariant, PTL

\* A command call that reports "applied" or "rejected" reports what became of the
\* command, through any number of attempts, leaders, epochs, lost frames and outcome
\* queries (submit_with_outcome_recovery).
THEOREM OutcomesAreTrue == Spec => []AnswersAreTrue
<1>1. RpcInv => AnswersAreTrue
  BY Zenon DEF RpcInv, CallsOK, CallOK, AnswersAreTrue
<1> QED
  BY <1>1, RpcInvariant, PTL
=============================================================================
