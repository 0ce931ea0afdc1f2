------------------------ MODULE TabletReplicaProofs -------------------------
(***************************************************************************)
(* The state machine, the log and the waiters of a replica, for any number *)
(* of replicas, gateways, sessions and requests, any history of leaders,   *)
(* and whatever order the log holds the retries in.                        *)
(*                                                                         *)
(* No replica executes a command twice: an executed command is either      *)
(* remembered by its outcome or covered by the floor its client            *)
(* acknowledged (Covered), which is local to the state machine.  What a    *)
(* replica knows committed is a prefix of what the group agreed on, and the*)
(* leader of the newest term, who alone extends that, holds all of it      *)
(* (LogInv).  And the entry a leader applies at the position of a waiter is*)
(* the command that waiter proposed.                                       *)
(*                                                                         *)
(* The replicas of a tablet agree, and every answer is the one every       *)
(* replica will give.  HistoryInv relates states to logs: there is one     *)
(* function F from logs to states, defined on every log that has been in   *)
(* use, such that the state of a replica is F of the prefix it has applied.*)
(* Two replicas with the same frontier have applied the same prefix.       *)
(*                                                                         *)
(* No session is refused the request it waits for: nothing in a log or a   *)
(* gateway acknowledges its own request or is ahead of its session         *)
(* (LiveInv).                                                              *)
(***************************************************************************)
EXTENDS TabletReplica, TLAPS

(***************************************************************************)
(* Sequences                                                               *)
(***************************************************************************)
LEMMA ElementOfSeq ==
    ASSUME NEW S, NEW s \in Seq(S), NEW i \in 1..Len(s) PROVE s[i] \in S
  OBVIOUS

LEMMA EmptySeq ==
    ASSUME NEW S
    PROVE  /\ << >> \in Seq(S) /\ Len(<< >>) = 0
           /\ \A s \in Seq(S) : s # << >> => Len(s) \in Nat \ {0}
  OBVIOUS

LEMMA SeqEqual ==
    ASSUME NEW S, NEW s \in Seq(S), NEW t \in Seq(S), Len(s) = Len(t),
           \A i \in 1..Len(s) : s[i] = t[i]
    PROVE  s = t
  OBVIOUS

LEMMA SubSeqFull == ASSUME NEW S, NEW s \in Seq(S) PROVE SubSeq(s, 1, Len(s)) = s
  OBVIOUS

LEMMA SubSeqEmpty ==
    ASSUME NEW s, NEW m \in Int, NEW n \in Int, n < m PROVE SubSeq(s, m, n) = << >>
  OBVIOUS

LEMMA PrefixOfLog ==
    ASSUME NEW S, NEW l \in Seq(S), NEW k \in 0..Len(l)
    PROVE  SubSeq(l, 1, k) \in Seq(S) /\ Len(SubSeq(l, 1, k)) = k
  OBVIOUS

LEMMA PrefixElements ==
    ASSUME NEW S, NEW l \in Seq(S), NEW k \in 0..Len(l)
    PROVE  \A i \in 1..k : SubSeq(l, 1, k)[i] = l[i]
  OBVIOUS

Sound(s) == s \in States /\ ExecutedOnce(s) /\ Covered(s)

(***************************************************************************)
(* The state machine                                                       *)
(***************************************************************************)
LEMMA EmptySound == Sound(EmptyState)
<1>1. EmptyState.executed = << >> /\ Len(EmptyState.executed) = 0
  BY Zenon DEF EmptyState
<1>2. EmptyState \in States
  BY DEF EmptyState, States, NoOutcome, Answer, Results, None
<1> QED
  BY <1>1, <1>2 DEF Sound, ExecutedOnce, Covered

\* Raising the floor keeps every executed command covered.
LEMMA HorizonSound ==
  ASSUME NEW s, Sound(s), NEW env \in Envelopes,
         ~(env.ack # None /\ env.ack < s.floor[env.req.client])
  PROVE  Sound(Horizon(s, env)) /\ Horizon(s, env).executed = s.executed
<1> DEFINE c == env.req.client
<1>1. env.req \in Requests /\ c \in Clients /\ env.ack \in Acks
  BY Zenon DEF Envelopes, Requests
<1>2. CASE env.ack = None \/ env.ack = s.floor[c]
  BY <1>2, Zenon DEF Horizon
<1>3. CASE ~(env.ack = None \/ env.ack = s.floor[c])
  <2> DEFINE h == Horizon(s, env)
  <2>1. h = RaiseFloor(s, c, env.ack)
    BY <1>3, Zenon DEF Horizon
  <2>2. env.ack \in Int /\ s.floor[c] < env.ack
    BY <1>1, <1>3, DedupAssumption DEF Acks, None, Sound, States
  <2>3. /\ h.floor = [s.floor EXCEPT ![c] = env.ack]
        /\ h.outcome = [q \in Requests |-> IF q.client = c /\ q.sequence <= env.ack
                                           THEN NoOutcome ELSE s.outcome[q]]
        /\ h.executed = s.executed
    BY <2>1, Zenon DEF RaiseFloor, Sound, States
  <2>4. h \in States
    <3>1. s \in States
      BY Zenon DEF Sound
    <3>2. NoOutcome \in Results
      BY Zenon DEF NoOutcome, Answer, Results
    <3>3. h.floor \in [Clients -> Int]
      BY <2>2, <2>3, <3>1, Zenon DEF States
    <3>4. h.outcome \in [Requests -> Results]
      BY <2>3, <3>1, <3>2 DEF States
    <3>5. h = [outcome |-> h.outcome, floor |-> h.floor, executed |-> s.executed]
      BY <2>1, <3>1, Zenon DEF RaiseFloor, States
    <3> HIDE DEF h
    <3> QED
      BY <3>1, <3>3, <3>4, <3>5 DEF States
  <2>5. ASSUME NEW i \in 1..Len(h.executed)
        PROVE  \/ h.outcome[h.executed[i].req] # NoOutcome
               \/ h.executed[i].req.sequence <= h.floor[h.executed[i].req.client]
    <3> DEFINE q == s.executed[i].req
    <3>0. s.executed[i] \in Executions
      <4>1. s.executed \in Seq(Executions)
        BY Zenon DEF Sound, States
      <4> QED
        BY <4>1, <2>3, ElementOfSeq, Zenon
    <3>1. q \in Requests /\ q.client \in Clients /\ q.sequence \in Int
      BY <3>0 DEF Requests, Executions
    <3>2. s.outcome[q] # NoOutcome \/ q.sequence <= s.floor[q.client]
      BY <2>3, <2>5, Zenon DEF Sound, Covered
    <3>3. s.floor \in [Clients -> Int]
      BY Zenon DEF Sound, States
    <3> HIDE DEF q, c, h
    <3>4. h.outcome[q] # NoOutcome \/ q.sequence <= h.floor[q.client]
      BY <2>2, <2>3, <3>1, <3>2, <3>3, <1>1
    <3> QED
      BY <3>4, <2>3, Zenon DEF q
  <2>6. Covered(h)
    BY <2>5, Zenon DEF Covered
  <2>7. ExecutedOnce(h)
    BY <2>3, Zenon DEF Sound, ExecutedOnce
  <2> QED
    BY <2>3, <2>4, <2>6, <2>7, Zenon DEF Sound
<1> QED
  BY <1>2, <1>3, Zenon

\* A command without outcome above the floor has not been executed.
LEMMA ExecuteSound ==
  ASSUME NEW s, Sound(s), NEW q \in Requests,
         ~Expired(s, q), s.outcome[q] = NoOutcome
  PROVE  Sound(Execute(s, q)) /\ Dispatch(s, q) \in Results
<1> DEFINE out == Dispatch(s, q)
           n == Len(s.executed)
           rec == [req |-> q, out |-> out]
           e == Execute(s, q)
<1>1. out \in Results /\ out # NoOutcome
  BY DEF Dispatch, Answer, Applied, Results, NoOutcome, Sound, States
<1>2. s.executed \in Seq(Executions) /\ n \in Nat
  BY DEF Sound, States
<1>3. rec \in Executions
  BY <1>1, Zenon DEF Executions
<1> HIDE DEF out
<1>4. /\ e.executed = Append(s.executed, rec)
      /\ e.outcome = [s.outcome EXCEPT ![q] = out]
      /\ e.floor = s.floor
  BY Zenon DEF Execute, out, Sound, States
<1>5. e.executed \in Seq(Executions)
  BY <1>2, <1>3, <1>4
<1>6. e \in States
  BY <1>1, <1>4, <1>5, Zenon DEF Execute, out, Sound, States
<1>7. /\ Len(e.executed) = n + 1
      /\ e.executed[n + 1].req = q
      /\ \A i \in 1..n : e.executed[i] = s.executed[i]
  BY <1>2, <1>3, <1>4
<1> HIDE DEF e, n, rec
<1>8. \A i \in 1..n : s.executed[i].req # q
  BY Zenon DEF Sound, Covered, Expired, n
<1>9. ExecutedOnce(e)
  <2> SUFFICES ASSUME NEW i \in 1..(n + 1), NEW j \in 1..(n + 1), i # j
               PROVE  e.executed[i].req # e.executed[j].req
    BY <1>7, Zenon DEF ExecutedOnce
  <2>1. CASE i \in 1..n /\ j \in 1..n
    BY <2>1, <1>7, Zenon DEF Sound, ExecutedOnce, n
  <2>2. CASE i = n + 1
    BY <2>2, <1>2, <1>7, <1>8
  <2>3. CASE j = n + 1
    BY <2>3, <1>2, <1>7, <1>8
  <2> QED
    BY <2>1, <2>2, <2>3, <1>2
<1>10. Covered(e)
  <2> SUFFICES ASSUME NEW i \in 1..(n + 1)
               PROVE  \/ e.outcome[e.executed[i].req] # NoOutcome
                      \/ e.executed[i].req.sequence <= e.floor[e.executed[i].req.client]
    BY <1>7, Zenon DEF Covered
  <2>1. s.outcome \in [Requests -> Results]
    BY Zenon DEF Sound, States
  <2>2. CASE i = n + 1
    <3>1. e.outcome[q] = out
      BY <1>4, <2>1, Zenon
    <3> QED
      BY <2>2, <3>1, <1>1, <1>7, Zenon
  <2>3. CASE i \in 1..n
    <3>1. e.executed[i].req = s.executed[i].req /\ s.executed[i].req \in Requests
      <4>1. s.executed[i] \in Executions
        BY <2>3, <1>2, ElementOfSeq, Zenon DEF n
      <4> QED
        BY <4>1, <2>3, <1>7, Zenon DEF Executions
    <3>2. e.outcome[s.executed[i].req] = s.outcome[s.executed[i].req]
      BY <3>1, <2>1, <2>3, <1>4, <1>8, Zenon
    <3> QED
      BY <2>3, <3>1, <3>2, <1>4, Zenon DEF Sound, Covered, n
  <2> QED
    BY <2>2, <2>3, <1>2
<1> QED
  BY <1>1, <1>6, <1>9, <1>10, Zenon DEF Sound, e, out

\* TabletStateMachine::apply keeps the state sound, for every envelope.
LEMMA ApplySound ==
  ASSUME NEW s, Sound(s), NEW env \in Envelopes
  PROVE  Sound(Apply(s, env).sm) /\ Apply(s, env).out \in Results
<1> DEFINE next == Horizon(s, env)
<1>1. env.req \in Requests
  BY Zenon DEF Envelopes
<1>2. \A k \in {"expired", "regressed"} : Answer(k) \in Results
  BY Zenon DEF Answer, Results
<1>3. CASE env.ack # None /\ env.ack < s.floor[env.req.client]
  BY <1>2, <1>3, Zenon DEF Apply
<1>4. CASE ~(env.ack # None /\ env.ack < s.floor[env.req.client])
  <2>1. Sound(next)
    BY <1>4, HorizonSound, Zenon
  <2>2. next.outcome[env.req] \in Results
    BY <2>1, <1>1, Zenon DEF Sound, States
  <2>3. CASE Expired(next, env.req)
    BY <2>1, <2>3, <1>2, <1>4, Zenon DEF Apply
  <2>4. CASE ~Expired(next, env.req) /\ next.outcome[env.req] # NoOutcome
    BY <2>1, <2>2, <2>4, <1>4, Zenon DEF Apply
  <2>5. CASE ~Expired(next, env.req) /\ next.outcome[env.req] = NoOutcome
    <3> HIDE DEF next
    <3>1. Sound(Execute(next, env.req)) /\ Dispatch(next, env.req) \in Results
      BY <2>1, <2>5, <1>1, ExecuteSound, Zenon
    <3> QED
      BY <3>1, <2>5, <1>4, Zenon DEF Apply, next
  <2> QED
    BY <2>3, <2>4, <2>5, Zenon
<1> QED
  BY <1>3, <1>4, Zenon

(***************************************************************************)
(* The replicas                                                            *)
(***************************************************************************)
StatesOK == sm \in [Replicas -> States] /\ \A r \in Replicas : Sound(sm[r])

IInv == FrontiersOK /\ StatesOK /\ WaitersOK

LEMMA InitInv == Init => IInv
<1> SUFFICES ASSUME Init PROVE IInv
  OBVIOUS
<1>1. Barrier(1) \in Entries
  BY Zenon DEF Barrier, Entries
<1>2. <<Barrier(1)>> \in Seq(Entries) /\ Len(<<Barrier(1)>>) = 1
  BY <1>1
<1>3. FrontiersOK
  BY <1>2 DEF Init, FrontiersOK
<1>4. StatesOK
  BY EmptySound, Zenon DEF Init, StatesOK, Sound
<1>5. WaitersOK
  BY DedupAssumption DEF Init, WaitersOK, Waiter, NoEntry
<1> QED
  BY <1>3, <1>4, <1>5, Zenon DEF IInv

\* What a gateway has sent is an envelope.
LEMMA ProposedIsEntry ==
  ASSUME IInv, NEW r \in Replicas, NEW g \in Gateways, gw[g].state = "sent"
  PROVE  Proposed(r, g) \in Entries /\ gw[g] \in Sent
<1>1. gw[g] \in Sent
  BY DEF IInv, WaitersOK, Idle
<1>2. term[r] \in Nat
  BY Zenon DEF IInv, FrontiersOK
<1> QED
  BY <1>1, <1>2, Zenon DEF Proposed, Entries, Envelopes, Sent

\* The entry that is drained next holds an envelope.
LEMMA DrainedEntry ==
  ASSUME IInv, NEW r \in Replicas, Draining(r)
  PROVE  /\ log[r][applied[r] + 1] \in Entries
         /\ applied[r] + 1 <= commit[r]
<1>1. log[r] \in Seq(Entries) /\ applied[r] + 1 \in 1..Len(log[r])
  BY DEF IInv, FrontiersOK, Draining
<1> QED
  BY <1>1, ElementOfSeq DEF IInv, FrontiersOK, Draining

LEMMA FrontierStep == IInv /\ [Next]_vars => FrontiersOK'
<1> SUFFICES ASSUME IInv, [Next]_vars PROVE FrontiersOK'
  OBVIOUS
<1> USE DEF IInv
<1>1. ASSUME NEW r \in Replicas, Elect(r) PROVE FrontiersOK'
  <2>1. PICK l \in {committed} \cup UNION {Extensions(log[s]) : s \in Replicas} :
          log' = [log EXCEPT ![r] = l]
    BY <1>1, Zenon DEF Elect
  <2>2. l \in Seq(Entries) /\ Len(committed) <= Len(l)
    <3>1. CASE l = committed
      BY <3>1 DEF FrontiersOK
    <3>2. ASSUME NEW s \in Replicas, l \in Extensions(log[s])
          PROVE  l \in Seq(Entries) /\ Len(committed) <= Len(l)
      <4>1. PICK k \in Len(committed)..Len(log[s]) : l = SubSeq(log[s], 1, k)
        BY <3>2, Zenon DEF Extensions
      <4>2. log[s] \in Seq(Entries) /\ k \in 0..Len(log[s])
        BY DEF FrontiersOK
      <4> QED
        BY <4>1, <4>2, PrefixOfLog
    <3> QED
      BY <2>1, <3>1, <3>2, Zenon
  <2>3. UNCHANGED <<committed, commit, applied>> /\ epoch' = epoch + 1
        /\ term' = [term EXCEPT ![r] = epoch + 1] /\ lead' = [lead EXCEPT ![r] = TRUE]
    BY <1>1, Zenon DEF Elect, applyVars
  <2> QED
    BY <2>1, <2>2, <2>3 DEF FrontiersOK
<1>2. ASSUME NEW r \in Replicas, AdvanceCommit(r) PROVE FrontiersOK'
  <2>1. PICK i \in (Len(committed) + 1)..Len(log[r]) :
          /\ committed' = SubSeq(log[r], 1, i)
          /\ commit' = [commit EXCEPT ![r] = i]
    BY <1>2, Zenon DEF AdvanceCommit
  <2>2. log[r] \in Seq(Entries) /\ i \in 0..Len(log[r]) /\ Len(committed) \in Nat
    BY DEF FrontiersOK
  <2>3. committed' \in Seq(Entries) /\ Len(committed') = i
    BY <2>1, <2>2, PrefixOfLog, Zenon
  <2>4. UNCHANGED <<epoch, term, lead, log, applied>>
    BY <1>2, Zenon DEF AdvanceCommit, applyVars
  <2> QED
    BY <2>1, <2>2, <2>3, <2>4 DEF FrontiersOK
<1>3. ASSUME NEW r \in Replicas, StepDown(r) PROVE FrontiersOK'
  BY <1>3, Zenon DEF StepDown, FrontiersOK, applyVars
<1>4. ASSUME NEW r \in Replicas, AppendEntries(r) PROVE FrontiersOK'
  <2>1. PICK i \in (commit[r] + 1)..Len(committed) :
          /\ commit' = [commit EXCEPT ![r] = i]
          /\ log' = [log EXCEPT ![r] = SubSeq(committed, 1, i)]
    BY <1>4, Zenon DEF AppendEntries
  <2>2. committed \in Seq(Entries) /\ i \in 0..Len(committed) /\ commit[r] \in Nat
    BY DEF FrontiersOK
  <2>3. SubSeq(committed, 1, i) \in Seq(Entries) /\ Len(SubSeq(committed, 1, i)) = i
    BY <2>2, PrefixOfLog, Zenon
  <2>4. UNCHANGED <<committed, epoch, term, applied>> /\ lead' = [lead EXCEPT ![r] = FALSE]
    BY <1>4, Zenon DEF AppendEntries, applyVars
  <2> QED
    BY <2>1, <2>2, <2>3, <2>4 DEF FrontiersOK
<1>5. ASSUME NEW r \in Replicas, Draining(r), Drained(r) PROVE FrontiersOK'
  <2>1. applied' = [applied EXCEPT ![r] = applied[r] + 1]
        /\ UNCHANGED <<committed, epoch, term, lead, log, commit>>
    BY <1>5, Zenon DEF Drained, raftVars
  <2> QED
    BY <2>1, <1>5, DrainedEntry DEF FrontiersOK
<1>6. ASSUME NEW r \in Replicas, NEW l \in Replicas, InstallSnapshot(r, l)
      PROVE  FrontiersOK'
  <2>1. log[l] \in Seq(Entries) /\ applied[l] \in 0..Len(log[l])
        /\ applied[l] <= Len(committed)
    BY DEF FrontiersOK
  <2>2. /\ SubSeq(log[l], 1, applied[l]) \in Seq(Entries)
        /\ Len(SubSeq(log[l], 1, applied[l])) = applied[l]
    BY <2>1, PrefixOfLog, Zenon
  <2>3. /\ lead' = [lead EXCEPT ![r] = FALSE]
        /\ log' = [log EXCEPT ![r] = SubSeq(log[l], 1, applied[l])]
        /\ commit' = [commit EXCEPT ![r] = applied[l]]
        /\ applied' = [applied EXCEPT ![r] = applied[l]]
        /\ UNCHANGED <<committed, epoch, term>>
    BY <1>6, Zenon DEF InstallSnapshot
  <2> QED
    BY <2>1, <2>2, <2>3 DEF FrontiersOK
<1>7. ASSUME NEW r \in Replicas, NEW e \in Entries,
             log' = [log EXCEPT ![r] = Append(log[r], e)],
             UNCHANGED <<committed, epoch, term, lead, commit, applied>>
      PROVE  FrontiersOK'
  <2>1. Append(log[r], e) \in Seq(Entries) /\ Len(Append(log[r], e)) = Len(log[r]) + 1
    BY DEF FrontiersOK
  <2> QED
    BY <1>7, <2>1 DEF FrontiersOK
<1>8. ASSUME NEW r \in Replicas, StartTerm(r) PROVE FrontiersOK'
  <2>1. Barrier(term[r]) \in Entries
    BY Zenon DEF FrontiersOK, Barrier, Entries
  <2> QED
    BY <1>7, <1>8, <2>1, Zenon DEF StartTerm, EndTurn, applyVars
<1>9. ASSUME NEW r \in Replicas, NEW g \in Gateways, Admit(r, g) PROVE FrontiersOK'
  <2>1. Proposed(r, g) \in Entries
    BY <1>9, ProposedIsEntry, Zenon DEF Admit, Admissible
  <2> QED
    BY <1>7, <1>9, <2>1, Zenon DEF Admit, EndTurn, applyVars
<1>10. ASSUME NEW r \in Replicas, Restart(r) PROVE FrontiersOK'
  BY <1>10 DEF Restart, FrontiersOK
<1>11. ASSUME UNCHANGED <<raftVars, applied>> PROVE FrontiersOK'
  BY <1>11, Zenon DEF raftVars, FrontiersOK
<1>12. ASSUME NEW r \in Replicas, FinishTurn(r) PROVE FrontiersOK'
  BY <1>11, <1>12, Zenon DEF FinishTurn, EndTurn, raftVars, applyVars
<1>13. ASSUME NEW r \in Replicas, ApplyMismatch(r) PROVE FrontiersOK'
  BY <1>11, <1>13, Zenon DEF ApplyMismatch
<1>14. ASSUME NEW g \in Gateways,
              \/ \E c \in Clients : Submit(g, c)
              \/ OutcomeUnknown(g)
              \/ \E r \in Replicas : QueryOutcome(g, r)
       PROVE  FrontiersOK'
  BY <1>11, <1>14, Zenon DEF Submit, OutcomeUnknown, QueryOutcome, applyVars
<1>15. CASE UNCHANGED vars
  BY <1>11, <1>15, Zenon DEF vars, applyVars
<1> QED
  BY <1>1, <1>2, <1>3, <1>4, <1>5, <1>6, <1>8, <1>9, <1>10, <1>12, <1>13, <1>14, <1>15, Zenon
     DEF Next, ApplyBarrier, ApplyCommand

LEMMA StateStep == IInv /\ [Next]_vars => StatesOK'
<1> SUFFICES ASSUME IInv, [Next]_vars PROVE StatesOK'
  OBVIOUS
<1>1. ASSUME NEW r \in Replicas, NEW s, Sound(s), sm' = [sm EXCEPT ![r] = s]
      PROVE  StatesOK'
  <2>1. s \in States
    BY <1>1, Zenon DEF Sound
  <2> QED
    BY <1>1, <2>1, Zenon DEF IInv, StatesOK
<1>2. ASSUME UNCHANGED sm PROVE StatesOK'
  BY <1>2, Zenon DEF IInv, StatesOK
<1>3. ASSUME NEW r \in Replicas, Draining(r), log[r][applied[r] + 1].env # NoEnvelope
      PROVE  Sound(Apply(sm[r], log[r][applied[r] + 1].env).sm)
  <2>1. log[r][applied[r] + 1].env \in Envelopes
    BY <1>3, DrainedEntry, Zenon DEF Entries
  <2>2. Sound(sm[r])
    BY Zenon DEF IInv, StatesOK
  <2> QED
    BY <2>1, <2>2, ApplySound, Zenon
<1>4. ASSUME NEW r \in Replicas, ApplyCommand(r) \/ ApplyMismatch(r) PROVE StatesOK'
  <2> DEFINE s == Apply(sm[r], log[r][applied[r] + 1].env).sm
  <2>1. sm' = [sm EXCEPT ![r] = s]
    BY <1>4, Zenon DEF ApplyCommand, ApplyMismatch
  <2>2. Draining(r) /\ log[r][applied[r] + 1].env # NoEnvelope
    BY <1>4, Zenon DEF ApplyCommand, ApplyMismatch
  <2>3. Sound(s)
    BY <1>3, <2>2, Zenon
  <2> HIDE DEF s
  <2> QED
    BY <1>1, <2>1, <2>3, Zenon
<1>5. ASSUME NEW r \in Replicas, NEW l \in Replicas, InstallSnapshot(r, l)
      PROVE  StatesOK'
  <2>1. Sound(sm[l])
    BY Zenon DEF IInv, StatesOK
  <2>2. Restored(sm[l]) = sm[l]
    BY <2>1, Zenon DEF Restored, Sound, States
  <2> QED
    BY <1>1, <1>5, <2>1, <2>2, Zenon DEF InstallSnapshot
<1>6. ASSUME NEW r \in Replicas, Restart(r) PROVE StatesOK'
  BY <1>1, <1>6, EmptySound, Zenon DEF Restart
<1>7. ASSUME NEW r \in Replicas,
             \/ Elect(r) \/ AdvanceCommit(r) \/ StepDown(r) \/ AppendEntries(r)
             \/ ApplyBarrier(r) \/ StartTerm(r) \/ FinishTurn(r)
             \/ \E g \in Gateways : Admit(r, g)
      PROVE  StatesOK'
  BY <1>2, <1>7, Zenon DEF Elect, AdvanceCommit, StepDown, AppendEntries, ApplyBarrier,
     StartTerm, FinishTurn, Admit, EndTurn, applyVars
<1>8. ASSUME NEW g \in Gateways,
             \/ \E c \in Clients : Submit(g, c)
             \/ OutcomeUnknown(g)
             \/ \E r \in Replicas : QueryOutcome(g, r)
      PROVE  StatesOK'
  BY <1>2, <1>8, Zenon DEF Submit, OutcomeUnknown, QueryOutcome, applyVars
<1>9. CASE UNCHANGED vars
  BY <1>2, <1>9, Zenon DEF vars, applyVars
<1> QED
  BY <1>4, <1>5, <1>6, <1>7, <1>8, <1>9, Zenon DEF Next

(***************************************************************************)
(* Waiters, completions and gateways: the types an apply rests on.         *)
(***************************************************************************)
Registry == {reg \in [Requests -> Waiter] :
               \A q \in Requests : reg[q].live => reg[q].gateway \in Gateways}

LEMMA ReleasedOK ==
  ASSUME NEW reg \in Registry, NEW index
  PROVE  Released(reg, index) \in Registry
<1>1. NoEntry \in Waiter /\ ~NoEntry.live
  BY Zenon DEF NoEntry, Waiter
<1> QED
  BY <1>1, Zenon DEF Registry, Released

LEMMA AbandonedOK ==
  ASSUME NEW reg \in Registry, NEW Q
  PROVE  Abandoned(reg, Q) \in Registry
<1>1. \A q \in Requests : reg[q] \in Waiter /\ (reg[q].live => reg[q].gateway \in Gateways)
  BY Zenon DEF Registry
<1>2. \A q \in Requests : /\ [reg[q] EXCEPT !.live = FALSE] \in Waiter
                          /\ ~[reg[q] EXCEPT !.live = FALSE].live
  BY <1>1, Zenon DEF Waiter
<1> QED
  BY <1>1, <1>2, Zenon DEF Registry, Abandoned

\* A session moves on only from a request of its range.
LEMMA AnsweredOK ==
  ASSUME NEW S, \A a \in S : a[1] \in Requests, cur \in [Clients -> 1..(MaxSequence + 1)],
         Answered(S)
  PROVE  cur' \in [Clients -> 1..(MaxSequence + 1)]
<1> SUFFICES ASSUME NEW c \in Clients,
                    \E a \in S : a[1] = [client |-> c, sequence |-> cur[c]]
             PROVE  cur[c] + 1 \in 1..(MaxSequence + 1)
  BY Zenon DEF Answered
<1>1. [client |-> c, sequence |-> cur[c]] \in Requests
  OBVIOUS
<1>2. cur[c] \in 1..MaxSequence
  BY <1>1, Zenon DEF Requests
<1> QED
  BY <1>2, DedupAssumption

\* The end of a turn, whatever admission left in the registry and the gateways.
LEMMA EndTurnOK ==
  ASSUME IInv, NEW r \in Replicas, NEW reg \in Registry,
         NEW gws \in [Gateways -> {Idle} \cup Sent], EndTurn(r, reg, gws)
  PROVE  WaitersOK'
<1>0. PICK late :
        /\ registry' = [registry EXCEPT ![r] = Abandoned(reg, Leaving(r, late))]
        /\ completed' = [completed EXCEPT ![r] = {}]
        /\ gw' = [g \in Gateways |-> IF gws[g] = gw[g]
                                      THEN Forwarded(r, g, Leaving(r, late)) ELSE gws[g]]
        /\ Answered({<<c.req, c.out>> : c \in Outcomes(r)})
  BY Zenon DEF EndTurn
<1> DEFINE Q == Leaving(r, late)
<1>1. /\ registry' = [registry EXCEPT ![r] = Abandoned(reg, Q)]
      /\ completed' = [completed EXCEPT ![r] = {}]
      /\ gw' = [g \in Gateways |-> IF gws[g] = gw[g] THEN Forwarded(r, g, Q)
                                    ELSE gws[g]]
      /\ Answered({<<c.req, c.out>> : c \in Outcomes(r)})
  BY <1>0, Zenon
<1> HIDE DEF Q
<1>2. Abandoned(reg, Q) \in Registry
  BY AbandonedOK, Zenon
<1>3. \A g \in Gateways : Forwarded(r, g, Q) \in {Idle} \cup Sent
  <2> SUFFICES ASSUME NEW g \in Gateways PROVE Forwarded(r, g, Q) \in {Idle} \cup Sent
    OBVIOUS
  <2>1. gw[g] \in {Idle} \cup Sent
    BY Zenon DEF IInv, WaitersOK
  <2>2. ASSUME gw[g].state = "waiting" PROVE [gw[g] EXCEPT !.state = "sent"] \in Sent
    BY <2>1, <2>2 DEF Idle, Sent
  <2> QED
    BY <2>1, <2>2, Zenon DEF Forwarded, Waits
<1>4. cur' \in [Clients -> 1..(MaxSequence + 1)]
  <2>1. \A c \in Outcomes(r) : c.req \in Requests
    BY DEF IInv, WaitersOK, Outcomes, Completion
  <2>2. \A a \in {<<c.req, c.out>> : c \in Outcomes(r)} : a[1] \in Requests
    BY <2>1
  <2>3. cur \in [Clients -> 1..(MaxSequence + 1)]
    BY Zenon DEF IInv, WaitersOK
  <2> QED
    BY <1>1, <2>2, <2>3, AnsweredOK, Zenon
<1>5. registry' \in [Replicas -> [Requests -> Waiter]]
      /\ \A p \in Replicas : \A q \in Requests :
           registry'[p][q].live => registry'[p][q].gateway \in Gateways
  BY <1>1, <1>2, Zenon DEF IInv, WaitersOK, Registry
<1>6. gw' \in [Gateways -> {Idle} \cup Sent]
  BY <1>1, <1>3, Zenon
<1>7. completed' \in [Replicas -> SUBSET Completion]
  BY <1>1, Zenon DEF IInv, WaitersOK
<1> QED
  BY <1>4, <1>5, <1>6, <1>7, Zenon DEF WaitersOK

LEMMA WaiterStep == IInv /\ [Next]_vars => WaitersOK'
<1> SUFFICES ASSUME IInv, [Next]_vars PROVE WaitersOK'
  OBVIOUS
<1>1. \A r \in Replicas : registry[r] \in Registry
  BY Zenon DEF IInv, WaitersOK, Registry
<1>2. ASSUME NEW r \in Replicas, NEW reg \in Registry,
             registry' = [registry EXCEPT ![r] = reg],
             NEW done, done \subseteq Completion,
             completed' = [completed EXCEPT ![r] = done],
             gw' \in [Gateways -> {Idle} \cup Sent], UNCHANGED cur
      PROVE  WaitersOK'
  BY <1>2, Zenon DEF IInv, WaitersOK, Registry
<1>3. gw \in [Gateways -> {Idle} \cup Sent]
      /\ completed \in [Replicas -> SUBSET Completion]
      /\ registry \in [Replicas -> [Requests -> Waiter]]
  BY Zenon DEF IInv, WaitersOK
<1>4. ASSUME NEW r \in Replicas, ApplyBarrier(r) PROVE WaitersOK'
  <2>1. Frontier(r, registry[r]) \in Registry
    BY <1>1, ReleasedOK, Zenon DEF Frontier
  <2>2. /\ registry' = [registry EXCEPT ![r] = Frontier(r, registry[r])]
        /\ UNCHANGED <<completed, gw, cur>>
    BY <1>4, Zenon DEF ApplyBarrier, Drained, clientVars
  <2>3. completed' = [completed EXCEPT ![r] = completed[r]] /\ completed[r] \subseteq Completion
    BY <2>2, <1>3, Zenon
  <2> QED
    BY <1>2, <1>3, <2>1, <2>2, <2>3, Zenon
<1>5. ASSUME NEW r \in Replicas, ApplyCommand(r) PROVE WaitersOK'
  <2> DEFINE env   == log[r][applied[r] + 1].env
             out   == Apply(sm[r], env).out
             entry == registry[r][env.req]
             reg   == [registry[r] EXCEPT ![env.req] = NoEntry]
             done  == IF entry.live
                      THEN completed[r] \cup {[gateway |-> entry.gateway, req |-> env.req,
                                               out |-> out]}
                      ELSE completed[r]
  <2>1. env \in Envelopes /\ env.req \in Requests
    BY <1>5, DrainedEntry, Zenon DEF ApplyCommand, Entries, Envelopes
  <2>2. out \in Results
    BY <2>1, ApplySound, Zenon DEF IInv, StatesOK
  <2>3. /\ registry' = [registry EXCEPT ![r] = Frontier(r, reg)]
        /\ completed' = [completed EXCEPT ![r] = done]
        /\ UNCHANGED <<gw, cur>>
    BY <1>5, Zenon DEF ApplyCommand, Drained, clientVars
  <2>4. reg \in Registry
    <3>1. NoEntry \in Waiter /\ ~NoEntry.live
      BY Zenon DEF NoEntry, Waiter
    <3> HIDE DEF env
    <3> QED
      BY <1>1, <2>1, <3>1, Zenon DEF Registry
  <2>5. done \subseteq Completion
    <3>1. entry.live => entry.gateway \in Gateways
      BY <2>1, Zenon DEF IInv, WaitersOK
    <3>2. completed[r] \subseteq Completion
      BY <1>3, Zenon
    <3> HIDE DEF env, out, entry
    <3> QED
      BY <2>1, <2>2, <3>1, <3>2 DEF Completion
  <2> HIDE DEF reg, done
  <2>6. Frontier(r, reg) \in Registry
    BY <2>4, ReleasedOK, Zenon DEF Frontier
  <2> QED
    BY <1>2, <1>3, <2>3, <2>5, <2>6, Zenon
<1>6. ASSUME NEW r \in Replicas, NEW l \in Replicas, InstallSnapshot(r, l)
      PROVE  WaitersOK'
  <2>1. Released(registry[r], applied[l]) \in Registry
    BY <1>1, ReleasedOK, Zenon
  <2>2. /\ registry' = [registry EXCEPT ![r] = Released(registry[r], applied[l])]
        /\ UNCHANGED <<completed, gw, cur>>
    BY <1>6, Zenon DEF InstallSnapshot, clientVars
  <2>3. completed' = [completed EXCEPT ![r] = completed[r]] /\ completed[r] \subseteq Completion
    BY <2>2, <1>3, Zenon
  <2> QED
    BY <1>2, <1>3, <2>1, <2>2, <2>3, Zenon
<1>7. ASSUME NEW r \in Replicas, StartTerm(r) \/ FinishTurn(r) PROVE WaitersOK'
  BY <1>1, <1>3, <1>7, EndTurnOK, Zenon DEF StartTerm, FinishTurn
<1>8. ASSUME NEW r \in Replicas, NEW g \in Gateways, Admit(r, g) PROVE WaitersOK'
  <2> DEFINE reg == [registry[r] EXCEPT ![gw[g].req] = Registered(r, g)]
             gws == [gw EXCEPT ![g].state = "waiting", ![g].at = r]
  <2>1. EndTurn(r, reg, gws) /\ gw[g].state = "sent"
    BY <1>8, Zenon DEF Admit, Admissible
  <2>2. gw[g] \in Sent
    BY <2>1, ProposedIsEntry, Zenon
  <2>3. Registered(r, g) \in Waiter /\ Registered(r, g).gateway \in Gateways
    <3>1. term[r] \in Nat /\ Len(log[r]) + 1 \in Nat
      BY DEF IInv, FrontiersOK
    <3> QED
      BY <3>1, Zenon DEF Registered, Waiter
  <2>4. reg \in Registry
    <3>1. gw[g].req \in Requests
      BY <2>2, Zenon DEF Sent
    <3> QED
      BY <1>1, <2>3, <3>1, Zenon DEF Registry
  <2>5. gws \in [Gateways -> {Idle} \cup Sent]
    <3>1. [[gw[g] EXCEPT !.state = "waiting"] EXCEPT !.at = r] \in Sent
      BY <2>2, Zenon DEF Sent
    <3>2. gws = [gw EXCEPT ![g] = [[gw[g] EXCEPT !.state = "waiting"] EXCEPT !.at = r]]
      BY <1>3, Zenon
    <3> HIDE DEF gws
    <3> QED
      BY <1>3, <3>1, <3>2, Zenon
  <2> HIDE DEF reg, gws
  <2> QED
    BY <2>1, <2>4, <2>5, EndTurnOK, Zenon
<1>9. ASSUME NEW r \in Replicas, Restart(r) PROVE WaitersOK'
  <2>1. [q \in Requests |-> NoEntry] \in Registry
    BY Zenon DEF Registry, NoEntry, Waiter
  <2>2. gw' \in [Gateways -> {Idle} \cup Sent]
    BY <1>3, <1>9, Zenon DEF Restart
  <2> QED
    BY <1>2, <1>9, <2>1, <2>2, Zenon DEF Restart
<1>10. ASSUME UNCHANGED <<registry, completed, cur>>, gw' \in [Gateways -> {Idle} \cup Sent]
       PROVE  WaitersOK'
  BY <1>10, Zenon DEF IInv, WaitersOK
<1>11. ASSUME NEW g \in Gateways, NEW c \in Clients, Submit(g, c) PROVE WaitersOK'
  <2> DEFINE sent == [state |-> "sent", at |-> None,
                      req |-> [client |-> c, sequence |-> cur[c]],
                      ack |-> IF c \in Acknowledging /\ cur[c] > 1 THEN cur[c] - 1
                              ELSE None]
  <2>1. cur[c] \in 1..(MaxSequence + 1) /\ cur[c] <= MaxSequence
    BY <1>11, Zenon DEF IInv, WaitersOK, Submit
  <2>2. cur[c] \in 1..MaxSequence /\ cur[c] - 1 \in 0..MaxSequence
    BY <2>1, DedupAssumption
  <2>3. sent \in Sent
    BY <2>2, Zenon DEF Sent, Requests, Acks
  <2>4. gw' = [gw EXCEPT ![g] = sent] /\ UNCHANGED <<registry, completed, cur>>
    BY <1>11, Zenon DEF Submit, runtimeVars
  <2> HIDE DEF sent
  <2> QED
    BY <1>3, <1>10, <2>3, <2>4, Zenon
<1>12. ASSUME NEW g \in Gateways, OutcomeUnknown(g) PROVE WaitersOK'
  BY <1>3, <1>10, <1>12, Zenon DEF OutcomeUnknown, runtimeVars
<1>13. ASSUME NEW g \in Gateways, NEW r \in Replicas, QueryOutcome(g, r) PROVE WaitersOK'
  <2> DEFINE out == sm[r].outcome[gw[g].req]
             S   == IF out = NoOutcome THEN {} ELSE {<<gw[g].req, out>>}
  <2>1. gw[g] \in Sent
    BY <1>3, <1>13, Zenon DEF QueryOutcome
  <2>2. \A a \in S : a[1] \in Requests
    BY <2>1 DEF Sent
  <2>3. Answered(S) /\ UNCHANGED <<registry, completed>> /\ gw' = [gw EXCEPT ![g] = Idle]
    BY <1>13, Zenon DEF QueryOutcome, runtimeVars
  <2> HIDE DEF S
  <2>4. cur' \in [Clients -> 1..(MaxSequence + 1)]
    BY <2>2, <2>3, AnsweredOK, Zenon DEF IInv, WaitersOK
  <2> QED
    BY <1>3, <2>3, <2>4, Zenon DEF IInv, WaitersOK
<1>14. ASSUME UNCHANGED <<runtimeVars, clientVars>> PROVE WaitersOK'
  BY <1>3, <1>10, <1>14, Zenon DEF runtimeVars, clientVars
<1>15. ASSUME NEW r \in Replicas,
              \/ Elect(r) \/ AdvanceCommit(r) \/ StepDown(r) \/ AppendEntries(r)
              \/ ApplyMismatch(r)
       PROVE  WaitersOK'
  BY <1>14, <1>15, Zenon DEF Elect, AdvanceCommit, StepDown, AppendEntries, ApplyMismatch
<1>16. CASE UNCHANGED vars
  BY <1>14, <1>16, Zenon DEF vars
<1> QED
  BY <1>4, <1>5, <1>6, <1>7, <1>8, <1>9, <1>11, <1>12, <1>13, <1>15, <1>16, Zenon DEF Next

LEMMA Inductive == IInv /\ [Next]_vars => IInv'
  BY FrontierStep, StateStep, WaiterStep, Zenon DEF IInv

LEMMA Invariance == Spec => []IInv
  BY InitInv, Inductive, PTL DEF Spec

\* Frontiers stay ordered and every waiter, completion and gateway is well
\* formed (`RaftReadyLoop::advance_applied_frontier`, `ProposalRegistry`).
THEOREM ReplicaTypes == Spec => []TypeOK
<1>1. IInv => TypeOK
  BY Zenon DEF IInv, StatesOK, TypeOK
<1> QED
  BY <1>1, Invariance, PTL

\* `TabletStateMachine::apply` executes a logical command at most once, however
\* often and wherever the log holds it and whatever was acknowledged.
THEOREM CommandsExecuteOnce == Spec => []AtMostOnce
<1>1. IInv => AtMostOnce
  BY Zenon DEF IInv, StatesOK, Sound, AtMostOnce
<1> QED
  BY <1>1, Invariance, PTL

(***************************************************************************)
(* The logs                                                                *)
(***************************************************************************)
Newest(r) == lead[r] /\ term[r] = epoch

\* l begins with the first n entries of c
Holds(l, c, n) == n <= Len(l) /\ \A i \in 1..n : l[i] = c[i]

TermsOK(r) ==
    /\ term[r] <= epoch /\ activation[r].term <= epoch
    /\ failed[r] => applied[r] < commit[r]

LogOK(r) ==
    /\ Holds(log[r], committed, commit[r])
    /\ Newest(r) => Holds(log[r], committed, Len(committed))

\* until it commits, the barrier of the newest leader is beyond what is committed
LeaderOK(r) ==
    Newest(r) => \/ commit[r] = Len(committed)
                 \/ activation[r].term = term[r] => activation[r].index > Len(committed)

LogTypes ==
    /\ failed \in [Replicas -> BOOLEAN]
    /\ activation \in [Replicas -> [term : Nat, index : Nat]]

OneLeader == \A r, s \in Replicas : Newest(r) /\ Newest(s) => r = s

LogInv ==
    /\ LogTypes /\ OneLeader
    /\ \A r \in Replicas : TermsOK(r) /\ LogOK(r) /\ LeaderOK(r)

\* The log a new leader has.
LEMMA ElectedLog ==
  ASSUME IInv, NEW r \in Replicas, Elect(r)
  PROVE  \E l \in Seq(Entries) :
           /\ log' = [log EXCEPT ![r] = l]
           /\ Holds(l, committed, Len(committed))
           /\ \/ l = committed
              \/ \E s \in Replicas : \E k \in 0..Len(log[s]) : l = SubSeq(log[s], 1, k)
<1>1. PICK l \in {committed} \cup UNION {Extensions(log[s]) : s \in Replicas} :
        log' = [log EXCEPT ![r] = l]
  BY Zenon DEF Elect
<1>2. committed \in Seq(Entries) /\ Len(committed) \in Nat
  BY DEF IInv, FrontiersOK
<1>3. committed \in Seq(Entries) /\ Holds(committed, committed, Len(committed))
  BY <1>2 DEF Holds
<1>4. ASSUME NEW s \in Replicas, l \in Extensions(log[s])
      PROVE  /\ l \in Seq(Entries) /\ Holds(l, committed, Len(committed))
             /\ \E k \in 0..Len(log[s]) : l = SubSeq(log[s], 1, k)
  <2>1. PICK k \in Len(committed)..Len(log[s]) :
          l = SubSeq(log[s], 1, k) /\ SubSeq(log[s], 1, Len(committed)) = committed
    BY <1>4, Zenon DEF Extensions
  <2>2. log[s] \in Seq(Entries) /\ k \in 0..Len(log[s]) /\ Len(log[s]) \in Nat
    BY <1>2 DEF IInv, FrontiersOK
  <2>3. l \in Seq(Entries) /\ Len(l) = k /\ \A i \in 1..k : l[i] = log[s][i]
    BY <2>1, <2>2, PrefixOfLog, PrefixElements, Zenon
  <2>4. \A i \in 1..Len(committed) : committed[i] = log[s][i]
    <3>1. Len(committed) \in 0..Len(log[s])
      BY <1>2, <2>2
    <3> QED
      BY <2>1, <2>2, <3>1, PrefixElements, Zenon
  <2>5. Holds(l, committed, Len(committed))
    BY <1>2, <2>2, <2>3, <2>4 DEF Holds
  <2> QED
    BY <2>1, <2>2, <2>3, <2>5, Zenon
<1>5. l = committed \/ \E s \in Replicas : l \in Extensions(log[s])
  BY Zenon
<1>6. /\ l \in Seq(Entries) /\ Holds(l, committed, Len(committed))
      /\ \/ l = committed
         \/ \E s \in Replicas : \E k \in 0..Len(log[s]) : l = SubSeq(log[s], 1, k)
  BY <1>3, <1>4, <1>5, Zenon
<1> QED
  BY <1>1, <1>6, Zenon

LEMMA LogInit == Init => LogInv
<1> SUFFICES ASSUME Init PROVE LogInv
  OBVIOUS
<1>1. Len(<<Barrier(1)>>) = 1
  OBVIOUS
<1> QED
  BY <1>1 DEF Init, LogInv, LogTypes, OneLeader, TermsOK, LogOK, LeaderOK, Newest, Holds, NoPosition

\* Nothing about a replica's leadership, log and frontiers moves but r's.
LEMMA LogStep ==
  ASSUME IInv, IInv', LogInv, [Next]_vars
  PROVE  LogInv'
<1> USE DEF IInv
<1>0. committed \in Seq(Entries) /\ Len(committed) \in Nat /\ epoch \in Nat
  BY DEF FrontiersOK
<1>6. ASSUME NEW r \in Replicas
      PROVE  /\ log[r] \in Seq(Entries) /\ Len(log[r]) \in Nat
             /\ term[r] \in Nat /\ commit[r] \in Nat /\ applied[r] \in Nat
             /\ applied[r] <= commit[r] /\ commit[r] <= Len(log[r])
             /\ commit[r] <= Len(committed)
  BY DEF FrontiersOK
<1>1. ASSUME NEW r \in Replicas, Elect(r) PROVE LogInv'
  <2>1. PICK l \in Seq(Entries) :
          log' = [log EXCEPT ![r] = l] /\ Holds(l, committed, Len(committed))
    BY <1>1, ElectedLog, Zenon
  <2>2. /\ UNCHANGED <<committed, commit, applied, failed, activation>> /\ epoch' = epoch + 1
        /\ term' = [term EXCEPT ![r] = epoch + 1] /\ lead' = [lead EXCEPT ![r] = TRUE]
    BY <1>1, Zenon DEF Elect, applyVars, runtimeVars
  <2>3. \A s \in Replicas : /\ log'[s] = IF s = r THEN l ELSE log[s]
                            /\ term'[s] = IF s = r THEN epoch + 1 ELSE term[s]
    BY <2>1, <2>2, Zenon DEF FrontiersOK
  <2>4. \A s \in Replicas : Newest(s)' => s = r
    BY <1>0, <1>6, <2>2, <2>3 DEF Newest, LogInv, TermsOK
  <2>5. Holds(l, committed, commit[r])
    BY <1>0, <1>6, <2>1 DEF Holds
  <2>6. \A s \in Replicas : activation[s].term \in Nat /\ activation[s].term <= epoch
    BY <1>0, <1>6, Zenon DEF LogInv, LogTypes, TermsOK
  <2>7. \A s \in Replicas : TermsOK(s)'
    BY <1>0, <1>6, <2>2, <2>3, <2>6 DEF LogInv, TermsOK
  <2>8. \A s \in Replicas : LogOK(s)'
    BY <2>1, <2>2, <2>3, <2>4, <2>5, Zenon DEF LogInv, LogOK
  <2>9. ASSUME NEW s \in Replicas PROVE LeaderOK(s)'
    <3>1. activation'[r].term # term'[r]
      BY <1>0, <2>2, <2>3, <2>6
    <3> QED
      BY <2>4, <3>1, Zenon DEF LeaderOK
  <2> QED
    BY <2>2, <2>4, <2>7, <2>8, <2>9, Zenon DEF LogInv, LogTypes, OneLeader
<1>2. ASSUME NEW r \in Replicas, AdvanceCommit(r) PROVE LogInv'
  <2>1. PICK i \in (Len(committed) + 1)..Len(log[r]) :
          /\ committed' = SubSeq(log[r], 1, i)
          /\ commit' = [commit EXCEPT ![r] = i]
    BY <1>2, Zenon DEF AdvanceCommit
  <2>2. i \in 0..Len(log[r]) /\ i > Len(committed)
    BY <1>0, <1>6
  <2>3. Len(committed') = i /\ \A j \in 1..i : committed'[j] = log[r][j]
    BY <1>0, <1>6, <2>1, <2>2, PrefixOfLog, PrefixElements, Zenon
  <2>4. UNCHANGED <<epoch, term, lead, log, applied, failed, activation>> /\ Newest(r)
    BY <1>2, Zenon DEF AdvanceCommit, applyVars, runtimeVars, Newest
  <2>5. \A j \in 1..Len(committed) : committed'[j] = committed[j]
    <3>1. Holds(log[r], committed, Len(committed))
      BY <2>4, Zenon DEF LogInv, LogOK
    <3> QED
      BY <1>0, <2>2, <2>3, <3>1 DEF Holds
  <2>6. \A s \in Replicas : commit'[s] = IF s = r THEN i ELSE commit[s]
    BY <2>1, Zenon DEF FrontiersOK
  <2>7. \A s \in Replicas : Newest(s)' => s = r
    BY <2>4, Zenon DEF Newest, LogInv, OneLeader
  <2>8. ASSUME NEW s \in Replicas PROVE Holds(log[s], committed', commit'[s])
    <3>1. CASE s = r
      BY <1>0, <1>6, <2>2, <2>3, <2>6, <3>1 DEF Holds
    <3>2. CASE s # r
      <4>1. Holds(log[s], committed, commit[s])
        BY Zenon DEF LogInv, LogOK
      <4> QED
        BY <1>0, <1>6, <2>5, <2>6, <3>2, <4>1 DEF Holds
    <3> QED
      BY <3>1, <3>2, Zenon
  <2>9. ~failed[r]
    BY <1>2, Zenon DEF AdvanceCommit, Ready
  <2>10. \A s \in Replicas : LogOK(s)' /\ LeaderOK(s)'
    BY <2>3, <2>4, <2>6, <2>7, <2>8, Zenon DEF LogOK, LeaderOK
  <2>11. \A s \in Replicas : TermsOK(s)'
    BY <2>4, <2>6, <2>9, Zenon DEF LogInv, TermsOK
  <2> QED
    BY <2>4, <2>7, <2>10, <2>11, Zenon DEF LogInv, LogTypes, OneLeader
\* the fields of one replica that is no longer leader change
<1>3. ASSUME NEW r \in Replicas, LogTypes', UNCHANGED <<committed, epoch, term>>,
             ~lead'[r], TermsOK(r)', Holds(log'[r], committed, commit'[r]),
             \A s \in Replicas \ {r} :
               /\ lead'[s] = lead[s] /\ log'[s] = log[s] /\ commit'[s] = commit[s]
               /\ applied'[s] = applied[s] /\ failed'[s] = failed[s]
               /\ activation'[s] = activation[s]
      PROVE  LogInv'
  <2>1. \A s \in Replicas : Newest(s)' => s # r /\ Newest(s)
    BY <1>3, Zenon DEF Newest
  <2>2. ASSUME NEW s \in Replicas PROVE LogOK(s)' /\ LeaderOK(s)' /\ TermsOK(s)'
    <3>0. TermsOK(s) /\ LogOK(s) /\ LeaderOK(s) /\ UNCHANGED <<committed, epoch, term>>
      BY <1>3, Zenon DEF LogInv
    <3>1. CASE s = r
      BY <1>3, <2>1, <3>0, <3>1, Zenon DEF LogOK, LeaderOK
    <3>2. CASE s # r
      <4>1. LogOK(s)' /\ LeaderOK(s)'
        BY <1>3, <2>1, <3>0, <3>2, Zenon DEF LogOK, LeaderOK
      <4>2. TermsOK(s)'
        BY <1>3, <3>0, <3>2, Zenon DEF TermsOK
      <4> QED
        BY <4>1, <4>2, Zenon
    <3> QED
      BY <3>1, <3>2, Zenon
  <2> QED
    BY <1>3, <2>1, <2>2, Zenon DEF LogInv, OneLeader
<1>4. ASSUME NEW r \in Replicas, StepDown(r) PROVE LogInv'
  <2>1. /\ UNCHANGED <<log, commit, applied, failed, activation, committed, epoch, term>>
        /\ lead' = [lead EXCEPT ![r] = FALSE]
    BY <1>4, Zenon DEF StepDown, applyVars, runtimeVars
  <2>2. LogTypes' /\ TermsOK(r)' /\ Holds(log'[r], committed, commit'[r])
    BY <2>1, Zenon DEF LogInv, LogTypes, TermsOK, LogOK
  <2> QED
    BY <1>3, <2>1, <2>2, Zenon DEF FrontiersOK
<1>5. ASSUME NEW r \in Replicas, AppendEntries(r) PROVE LogInv'
  <2>1. PICK i \in (commit[r] + 1)..Len(committed) :
          /\ commit' = [commit EXCEPT ![r] = i]
          /\ log' = [log EXCEPT ![r] = SubSeq(committed, 1, i)]
    BY <1>5, Zenon DEF AppendEntries
  <2>2. i \in 0..Len(committed) /\ i \in Nat
    BY <1>0, <1>6
  <2>3. Holds(SubSeq(committed, 1, i), committed, i)
    BY <1>0, <1>6, <2>2, PrefixOfLog, PrefixElements DEF Holds
  <2>4. /\ UNCHANGED <<committed, epoch, term, applied, failed, activation>>
        /\ lead' = [lead EXCEPT ![r] = FALSE] /\ ~failed[r]
    BY <1>5, Zenon DEF AppendEntries, applyVars, runtimeVars, Ready
  <2>5. Holds(log'[r], committed, commit'[r])
    BY <2>1, <2>3, Zenon DEF FrontiersOK
  <2>6. LogTypes' /\ TermsOK(r)'
    BY <2>4, Zenon DEF LogInv, LogTypes, TermsOK
  <2> QED
    BY <1>3, <2>1, <2>4, <2>5, <2>6, Zenon DEF FrontiersOK
<1>7. ASSUME NEW r \in Replicas, NEW l \in Replicas, InstallSnapshot(r, l) PROVE LogInv'
  <2>1. applied[l] \in 0..Len(log[l]) /\ applied[l] \in Nat
    BY <1>0, <1>6
  <2>2. Holds(SubSeq(log[l], 1, applied[l]), committed, applied[l])
    <3>1. Holds(log[l], committed, applied[l])
      BY <1>0, <1>6 DEF LogInv, LogOK, Holds
    <3> QED
      BY <1>0, <1>6, <2>1, <3>1, PrefixOfLog, PrefixElements DEF Holds
  <2>3. /\ lead' = [lead EXCEPT ![r] = FALSE]
        /\ log' = [log EXCEPT ![r] = SubSeq(log[l], 1, applied[l])]
        /\ commit' = [commit EXCEPT ![r] = applied[l]]
        /\ applied' = [applied EXCEPT ![r] = applied[l]]
        /\ UNCHANGED <<committed, epoch, term, failed, activation>> /\ ~failed[r]
    BY <1>7, Zenon DEF InstallSnapshot, Ready
  <2>4. LogTypes' /\ TermsOK(r)'
    BY <2>3, Zenon DEF LogInv, LogTypes, TermsOK
  <2>5. Holds(log'[r], committed, commit'[r])
    BY <2>2, <2>3, Zenon DEF FrontiersOK
  <2> QED
    BY <1>3, <2>3, <2>4, <2>5, Zenon DEF FrontiersOK
<1>8. ASSUME NEW r \in Replicas, Restart(r) PROVE LogInv'
  <2>1. Holds(log[r], committed, 0)
    BY <1>0, <1>6 DEF Holds
  <2>2. NoPosition \in [term : Nat, index : Nat] /\ NoPosition.term <= epoch
    BY <1>0, <1>6 DEF NoPosition
  <2>3. /\ lead' = [lead EXCEPT ![r] = FALSE] /\ log' = log
        /\ commit' = [commit EXCEPT ![r] = 0] /\ applied' = [applied EXCEPT ![r] = 0]
        /\ failed' = [failed EXCEPT ![r] = FALSE]
        /\ activation' = [activation EXCEPT ![r] = NoPosition]
        /\ UNCHANGED <<committed, epoch, term>>
    BY <1>8, Zenon DEF Restart
  <2>4. LogTypes' /\ TermsOK(r)'
    BY <2>2, <2>3, Zenon DEF LogInv, LogTypes, TermsOK
  <2>5. Holds(log'[r], committed, commit'[r])
    BY <2>1, <2>3, Zenon DEF FrontiersOK
  <2> QED
    BY <1>3, <2>3, <2>4, <2>5, Zenon DEF FrontiersOK, LogInv, LogTypes
\* a turn: the log of a leader grows, its barrier may be set
<1>9. ASSUME NEW r \in Replicas, NEW l, NEW p \in [term : Nat, index : Nat],
             log' = [log EXCEPT ![r] = l], activation' = [activation EXCEPT ![r] = p],
             \A n \in Nat : Holds(log[r], committed, n) => Holds(l, committed, n),
             \/ p = activation[r]
             \/ lead[r] /\ p = [term |-> term[r], index |-> Len(log[r]) + 1]
             \/ ~lead[r] /\ p = NoPosition,
             UNCHANGED <<committed, epoch, term, lead, commit, applied, failed>>
      PROVE  LogInv'
  <2>1. \A s \in Replicas : /\ log'[s] = IF s = r THEN l ELSE log[s]
                            /\ activation'[s] = IF s = r THEN p ELSE activation[s]
                            /\ Newest(s)' <=> Newest(s)
    BY <1>9, Zenon DEF FrontiersOK, LogInv, LogTypes, Newest
  <2>2. ASSUME NEW s \in Replicas PROVE LogOK(s)'
    <3>1. LogOK(s) /\ commit[s] \in Nat
      BY <1>6, Zenon DEF LogInv
    <3> QED
      BY <1>0, <1>9, <2>1, <3>1, Zenon DEF LogOK
  <2>3. ASSUME NEW s \in Replicas PROVE TermsOK(s)'
    <3>1. TermsOK(s) /\ TermsOK(r)
      BY Zenon DEF LogInv
    <3>2. p.term <= epoch
      BY <1>0, <1>9, <3>1 DEF TermsOK, NoPosition
    <3> QED
      BY <1>9, <2>1, <3>1, <3>2, Zenon DEF TermsOK
  <2>4. ASSUME NEW s \in Replicas PROVE LeaderOK(s)'
    <3>1. CASE s # r \/ p = activation[r]
      <4>1. LeaderOK(s)
        BY Zenon DEF LogInv
      <4>2. activation'[s] = activation[s]
        BY <2>1, <3>1, Zenon
      <4> QED
        BY <1>9, <2>1, <4>1, <4>2, Zenon DEF LeaderOK
    <3>2. CASE s = r /\ p # activation[r]
      <4>1. Newest(r) => Len(committed) <= Len(log[r])
        BY Zenon DEF LogInv, LogOK, Holds
      <4>2. Newest(r) => p.index > Len(committed)
        BY <1>0, <1>6, <1>9, <3>2, <4>1 DEF Newest
      <4> QED
        BY <1>9, <2>1, <3>2, <4>2, Zenon DEF LeaderOK
    <3> QED
      BY <3>1, <3>2, Zenon
  <2>5. LogTypes' /\ OneLeader'
    BY <1>9, <2>1, Zenon DEF LogInv, LogTypes, OneLeader
  <2> QED
    BY <2>2, <2>3, <2>4, <2>5, Zenon DEF LogInv
<1>10. ASSUME NEW r \in Replicas, NEW e
       PROVE  \A n \in Nat : Holds(log[r], committed, n) => Holds(Append(log[r], e), committed, n)
  BY <1>0, <1>6 DEF Holds
<1>11. ASSUME NEW r \in Replicas, StartTerm(r) PROVE LogInv'
  <2>1. [term |-> term[r], index |-> Len(log[r]) + 1] \in [term : Nat, index : Nat]
    BY <1>0, <1>6
  <2>2. /\ log' = [log EXCEPT ![r] = Append(log[r], Barrier(term[r]))] /\ lead[r]
        /\ activation' = [activation EXCEPT ![r] = [term |-> term[r], index |-> Len(log[r]) + 1]]
        /\ UNCHANGED <<committed, epoch, term, lead, commit, applied, failed>>
    BY <1>11, Zenon DEF StartTerm, EndTurn, applyVars
  <2> QED
    BY <1>9, <1>10, <2>1, <2>2, Zenon
<1>12. ASSUME NEW r \in Replicas, NEW g \in Gateways, Admit(r, g) PROVE LogInv'
  <2>1. /\ log' = [log EXCEPT ![r] = Append(log[r], Proposed(r, g))]
        /\ UNCHANGED <<committed, epoch, term, lead, commit, applied, failed, activation>>
    BY <1>12, Zenon DEF Admit, EndTurn, applyVars
  <2>2. activation' = [activation EXCEPT ![r] = activation[r]]
        /\ activation[r] \in [term : Nat, index : Nat]
    BY <2>1, Zenon DEF LogInv, LogTypes
  <2> QED
    BY <1>9, <1>10, <2>1, <2>2, Zenon
<1>13. ASSUME NEW r \in Replicas, FinishTurn(r) PROVE LogInv'
  <2>1. NoPosition \in [term : Nat, index : Nat]
    BY Zenon DEF NoPosition
  <2>2. /\ UNCHANGED <<committed, epoch, term, lead, log, commit, applied, failed>>
        /\ activation' = [activation EXCEPT ![r] = IF lead[r] THEN activation[r] ELSE NoPosition]
    BY <1>13, Zenon DEF FinishTurn, EndTurn, applyVars
  <2>3. activation[r] \in [term : Nat, index : Nat] /\ log' = [log EXCEPT ![r] = log[r]]
    BY <2>2, Zenon DEF LogInv, LogTypes, FrontiersOK
  <2> QED
    BY <1>9, <2>1, <2>2, <2>3, Zenon
\* a drain moves the applied frontier only
<1>14. ASSUME NEW r \in Replicas, ~failed'[r], \A s \in Replicas \ {r} : applied'[s] = applied[s],
              UNCHANGED <<committed, epoch, term, lead, log, commit, failed, activation>>
       PROVE  LogInv'
  <2>1. \A s \in Replicas : TermsOK(s)'
    BY <1>14, Zenon DEF LogInv, TermsOK
  <2>2. \A s \in Replicas : LogOK(s)' /\ LeaderOK(s)'
    BY <1>14, Zenon DEF LogInv, LogOK, LeaderOK, Newest
  <2>3. LogTypes' /\ OneLeader'
    BY <1>14, Zenon DEF LogInv, LogTypes, OneLeader, Newest
  <2> QED
    BY <2>1, <2>2, <2>3, Zenon DEF LogInv
<1>15. ASSUME NEW r \in Replicas, ApplyBarrier(r) \/ ApplyCommand(r) PROVE LogInv'
  <2>1. /\ UNCHANGED <<committed, epoch, term, lead, log, commit, failed, activation>>
        /\ ~failed[r] /\ applied' = [applied EXCEPT ![r] = applied[r] + 1]
    BY <1>15, Zenon DEF ApplyBarrier, ApplyCommand, Draining, Drained, raftVars
  <2> QED
    BY <1>14, <2>1, Zenon DEF FrontiersOK
<1>16. ASSUME NEW r \in Replicas, ApplyMismatch(r) PROVE LogInv'
  <2>1. /\ UNCHANGED <<committed, epoch, term, lead, log, commit, applied, activation>>
        /\ applied[r] < commit[r] /\ failed' = [failed EXCEPT ![r] = TRUE]
    BY <1>16, Zenon DEF ApplyMismatch, Draining, raftVars, runtimeVars
  <2>2. \A s \in Replicas : TermsOK(s)'
    BY <2>1, Zenon DEF LogInv, LogTypes, TermsOK
  <2>3. \A s \in Replicas : LogOK(s)' /\ LeaderOK(s)'
    BY <2>1, Zenon DEF LogInv, LogOK, LeaderOK, Newest
  <2>4. LogTypes' /\ OneLeader'
    BY <2>1, Zenon DEF LogInv, LogTypes, OneLeader, Newest
  <2> QED
    BY <2>2, <2>3, <2>4, Zenon DEF LogInv
<1>17. ASSUME UNCHANGED <<raftVars, applied, failed, activation>> PROVE LogInv'
  BY <1>17, Zenon DEF raftVars, LogInv, LogTypes, OneLeader, TermsOK, LogOK, LeaderOK, Newest
<1>18. ASSUME NEW g \in Gateways,
              \/ \E c \in Clients : Submit(g, c)
              \/ OutcomeUnknown(g)
              \/ \E r \in Replicas : QueryOutcome(g, r)
       PROVE  LogInv'
  BY <1>17, <1>18, Zenon DEF Submit, OutcomeUnknown, QueryOutcome, applyVars, runtimeVars
<1>19. CASE UNCHANGED vars
  BY <1>17, <1>19, Zenon DEF vars, applyVars, runtimeVars
<1> QED
  BY <1>1, <1>2, <1>4, <1>5, <1>7, <1>8, <1>11, <1>12, <1>13, <1>15, <1>16, <1>18, <1>19, Zenon
     DEF Next

(***************************************************************************)
(* Waiters                                                                 *)
(***************************************************************************)
(***************************************************************************)
(* The waiters of a leader.  Its barrier is the last entry of its log      *)
(* until it is applied; every later entry is a command the registry holds  *)
(* at that position; and only a leader that has applied its barrier has    *)
(* waiters of its term.  These are relations between the epoch ep, the     *)
(* term tm, the log l, the frontier ap, the registry reg and the           *)
(* activation act of a replica that leads when ld.                         *)
(***************************************************************************)
\* the registry holds the command of entry e at position i
Held(e, reg, i) == e.env \in Envelopes /\ reg[e.env.req].index = i

TermsKnown(ep, reg) == \A q \in Requests : reg[q].term <= ep

BeyondBarrier(l, ap, reg, a) ==
    /\ a <= Len(l)
    /\ ap < a => Len(l) = a
    /\ \A i \in 1..Len(l) : ap < i /\ a < i => Held(l[i], reg, i)

Served(tm, ap, reg, act) ==
    \A q \in Requests : reg[q].live /\ reg[q].term = tm => act.term = tm /\ act.index <= ap

Waiters(ep, tm, ld, l, ap, reg, act) ==
    /\ TermsKnown(ep, reg)
    /\ ld /\ act.term = tm => BeyondBarrier(l, ap, reg, act.index)
    /\ ld => Served(tm, ap, reg, act)

WaitOK(r) ==
    Waiters(epoch, term[r], lead[r], log[r], applied[r], registry[r], activation[r])

WaitInv == \A r \in Replicas : WaitOK(r)

\* The waiter stays as it is, or is abandoned.
SameWaiter(w, v) == v.term = w.term /\ v.index = w.index /\ (v.live => w.live)

Activations == [term : Nat, index : Nat]

\* Waiters are abandoned; they go only when a leader has applied their position.  A leader that
\* goes on keeps its log.
GoesOn(ep, tm, ld, l, ap, reg, act, ep2, tm2, ld2, l2, ap2, reg2, act2) ==
    /\ Waiters(ep, tm, ld, l, ap, reg, act)
    /\ ep \in Nat /\ ep2 \in Nat /\ ep <= ep2 /\ ap \in Nat /\ ap2 \in Nat /\ Len(l) \in Nat
    /\ reg \in [Requests -> Waiter] /\ act \in Activations
    /\ ld2 => ld /\ tm2 = tm /\ l2 = l /\ act2 = act /\ ap <= ap2
    /\ \A q \in Requests : \/ SameWaiter(reg[q], reg2[q])
                           \/ /\ reg2[q] = NoEntry
                              /\ ld2 /\ act.term = tm /\ act.index <= ap => reg[q].index <= ap2

LEMMA WaitersKept ==
  ASSUME NEW ep, NEW tm, NEW ld, NEW l, NEW ap, NEW reg, NEW act,
         NEW ep2, NEW tm2, NEW ld2, NEW l2, NEW ap2, NEW reg2, NEW act2,
         GoesOn(ep, tm, ld, l, ap, reg, act, ep2, tm2, ld2, l2, ap2, reg2, act2)
  PROVE  Waiters(ep2, tm2, ld2, l2, ap2, reg2, act2)
<1>0. /\ Waiters(ep, tm, ld, l, ap, reg, act)
      /\ ep \in Nat /\ ep2 \in Nat /\ ep <= ep2 /\ ap \in Nat /\ ap2 \in Nat /\ Len(l) \in Nat
      /\ reg \in [Requests -> Waiter] /\ act \in Activations
      /\ ld2 => ld /\ tm2 = tm /\ l2 = l /\ act2 = act /\ ap <= ap2
      /\ \A q \in Requests : \/ SameWaiter(reg[q], reg2[q])
                             \/ /\ reg2[q] = NoEntry
                                /\ ld2 /\ act.term = tm /\ act.index <= ap => reg[q].index <= ap2
  BY Zenon DEF GoesOn
<1>1. NoEntry.term = 0 /\ ~NoEntry.live
  BY Zenon DEF NoEntry
<1>2. /\ act.index \in Nat
      /\ \A q \in Requests : reg[q].term \in Nat /\ reg[q].index \in Nat
  BY <1>0, Zenon DEF Activations, Waiter
<1>3. TermsKnown(ep2, reg2)
  <2>1. ASSUME NEW q \in Requests PROVE reg2[q].term <= ep2
    <3>1. reg[q].term \in Nat /\ reg[q].term <= ep
      BY <1>0, <1>2, Zenon DEF Waiters, TermsKnown
    <3>2. reg2[q].term = reg[q].term \/ reg2[q].term = 0
      BY <1>0, <1>1, Zenon DEF SameWaiter
    <3> QED
      BY <1>0, <3>1, <3>2
  <2> QED
    BY <2>1, Zenon DEF TermsKnown
<1>4. ASSUME ld2, act2.term = tm2 PROVE BeyondBarrier(l2, ap2, reg2, act2.index)
  <2>1. BeyondBarrier(l, ap, reg, act.index) /\ l2 = l /\ act2 = act /\ ap <= ap2 /\ act.term = tm
    BY <1>0, <1>4, Zenon DEF Waiters
  <2>2. /\ act.index <= Len(l)
        /\ ap < act.index => Len(l) = act.index
        /\ \A i \in 1..Len(l) : ap < i /\ act.index < i => Held(l[i], reg, i)
    BY <2>1, Zenon DEF BeyondBarrier
  <2>3. ASSUME NEW i \in 1..Len(l), ap2 < i, act.index < i PROVE Held(l[i], reg2, i)
    <3>1. PICK q : q = l[i].env.req
      BY Zenon
    <3>2. ap < i /\ act.index <= ap
      BY <1>0, <1>2, <2>1, <2>2, <2>3
    <3>3. l[i].env \in Envelopes /\ reg[q].index = i
      BY <2>2, <2>3, <3>1, <3>2, Zenon DEF Held
    <3>4. q \in Requests
      BY <3>1, <3>3, Zenon DEF Envelopes
    <3>5. SameWaiter(reg[q], reg2[q])
      BY <1>0, <1>4, <2>1, <2>3, <3>2, <3>3, <3>4
    <3>6. reg2[q].index = i
      BY <3>3, <3>5, Zenon DEF SameWaiter
    <3> QED
      BY <3>1, <3>3, <3>6, Zenon DEF Held
  <2> QED
    BY <1>0, <1>2, <2>1, <2>2, <2>3 DEF BeyondBarrier
<1>5. ASSUME ld2, NEW q \in Requests, reg2[q].live, reg2[q].term = tm2
      PROVE  act2.term = tm2 /\ act2.index <= ap2
  <2>1. reg[q].live /\ reg[q].term = tm
    BY <1>0, <1>1, <1>5, Zenon DEF SameWaiter
  <2>2. act.term = tm /\ act.index <= ap
    BY <1>0, <1>5, <2>1, Zenon DEF Waiters, Served
  <2> QED
    BY <1>0, <1>2, <1>5, <2>2
<1> QED
  BY <1>3, <1>4, <1>5, Zenon DEF Waiters, Served

\* A new leader has proposed its barrier.
LEMMA WaitersBegin ==
  ASSUME NEW ep, NEW tm, NEW n \in Nat, NEW l, NEW l2, Len(l2) = n + 1, NEW ap \in Nat, ap <= n,
         NEW reg, NEW reg2, NEW act, act.term # tm,
         Waiters(ep, tm, TRUE, l, ap, reg, act),
         \A q \in Requests : SameWaiter(reg[q], reg2[q])
  PROVE  Waiters(ep, tm, TRUE, l2, ap, reg2, [term |-> tm, index |-> n + 1])
<1>1. TermsKnown(ep, reg2)
  BY Zenon DEF Waiters, TermsKnown, SameWaiter
<1>2. BeyondBarrier(l2, ap, reg2, n + 1)
  BY DEF BeyondBarrier
<1>3. \A q \in Requests : ~(reg2[q].live /\ reg2[q].term = tm)
  BY Zenon DEF Waiters, Served, SameWaiter
<1> QED
  BY <1>1, <1>2, <1>3, Zenon DEF Waiters, Served

\* A leader that serves has proposed a command and registered its waiter.
Admitted(ep, tm, n, l, l2, ap, act, p, reg, reg2) ==
    /\ tm <= ep /\ n \in Nat /\ Len(l) = n /\ Len(l2) = n + 1 /\ \A i \in 1..n : l2[i] = l[i]
    /\ ap \in Nat /\ act.index \in Nat /\ act.term = tm /\ act.index <= ap
    /\ p \in Requests /\ reg[p] = NoEntry /\ reg2[p].index = n + 1 /\ reg2[p].term = tm
    /\ l2[n + 1].env \in Envelopes /\ l2[n + 1].env.req = p
    /\ \A q \in Requests \ {p} : SameWaiter(reg[q], reg2[q])

LEMMA WaitersAdmit ==
  ASSUME NEW ep, NEW tm, NEW n, NEW l, NEW l2, NEW ap, NEW act, NEW p, NEW reg, NEW reg2,
         Waiters(ep, tm, TRUE, l, ap, reg, act), Admitted(ep, tm, n, l, l2, ap, act, p, reg, reg2)
  PROVE  Waiters(ep, tm, TRUE, l2, ap, reg2, act)
<1>0. /\ tm <= ep /\ n \in Nat /\ Len(l) = n /\ Len(l2) = n + 1 /\ \A i \in 1..n : l2[i] = l[i]
      /\ ap \in Nat /\ act.index \in Nat /\ act.term = tm /\ act.index <= ap
      /\ p \in Requests /\ reg[p] = NoEntry /\ reg2[p].index = n + 1 /\ reg2[p].term = tm
      /\ l2[n + 1].env \in Envelopes /\ l2[n + 1].env.req = p
      /\ \A q \in Requests \ {p} : SameWaiter(reg[q], reg2[q])
  BY Zenon DEF Admitted
<1>1. TermsKnown(ep, reg2)
  BY <1>0 DEF Waiters, TermsKnown, SameWaiter
<1>2. /\ act.index <= n
      /\ \A i \in 1..n : ap < i /\ act.index < i => Held(l[i], reg, i)
  BY <1>0, Zenon DEF Waiters, BeyondBarrier
<1>3. ASSUME NEW i \in 1..(n + 1), ap < i PROVE Held(l2[i], reg2, i)
  <2>1. CASE i = n + 1
    BY <1>0, <2>1, Zenon DEF Held
  <2>2. CASE i # n + 1
    <3>1. i \in 1..n /\ act.index < i /\ l2[i] = l[i]
      BY <1>0, <1>3, <2>2
    <3>2. PICK q : q = l[i].env.req
      BY Zenon
    <3>3. l[i].env \in Envelopes /\ reg[q].index = i
      BY <1>2, <1>3, <3>1, <3>2, Zenon DEF Held
    <3>4. q \in Requests
      BY <3>2, <3>3, Zenon DEF Envelopes
    <3>5. q # p
      BY <1>0, <3>1, <3>3 DEF NoEntry
    <3>6. reg2[q].index = i
      BY <1>0, <3>3, <3>4, <3>5, Zenon DEF SameWaiter
    <3> QED
      BY <3>1, <3>2, <3>3, <3>6, Zenon DEF Held
  <2> QED
    BY <2>1, <2>2, Zenon
<1>4. BeyondBarrier(l2, ap, reg2, act.index)
  BY <1>0, <1>2, <1>3 DEF BeyondBarrier
<1> QED
  BY <1>0, <1>1, <1>4, Zenon DEF Waiters, Served

LEMMA WaitInit == Init => WaitInv
<1> SUFFICES ASSUME Init, NEW r \in Replicas PROVE WaitOK(r)
  BY Zenon DEF WaitInv
<1>1. Len(log[r]) = 1 /\ applied[r] = 1 /\ epoch = 1
      /\ \A q \in Requests : registry[r][q] = NoEntry
  BY Zenon DEF Init
<1>2. NoEntry.term = 0 /\ ~NoEntry.live
  BY Zenon DEF NoEntry
<1>3. lead[r] /\ activation[r].term = term[r] => activation[r].index = 1
  BY Zenon DEF Init, NoPosition
<1> QED
  BY <1>1, <1>2, <1>3 DEF WaitOK, Waiters, TermsKnown, BeyondBarrier, Served

\* What is known of one replica.
LEMMA OfReplica ==
  ASSUME IInv, LogInv, WaitInv, NEW r \in Replicas
  PROVE  /\ epoch \in Nat /\ term[r] \in Nat /\ lead[r] \in BOOLEAN
         /\ log[r] \in Seq(Entries) /\ Len(log[r]) \in Nat
         /\ applied[r] \in Nat /\ commit[r] \in Nat
         /\ applied[r] <= commit[r] /\ commit[r] <= Len(log[r])
         /\ registry[r] \in [Requests -> Waiter] /\ activation[r] \in Activations
         /\ WaitOK(r)
<1>1. /\ epoch \in Nat /\ term[r] \in Nat /\ lead[r] \in BOOLEAN
      /\ log[r] \in Seq(Entries) /\ Len(log[r]) \in Nat
      /\ applied[r] \in Nat /\ commit[r] \in Nat
      /\ applied[r] <= commit[r] /\ commit[r] <= Len(log[r])
  BY DEF IInv, FrontiersOK
<1>2. registry[r] \in [Requests -> Waiter]
  BY Zenon DEF IInv, WaitersOK
<1>3. activation[r] \in Activations
  BY Zenon DEF LogInv, LogTypes, Activations
<1> QED
  BY <1>1, <1>2, <1>3, Zenon DEF WaitInv

\* A replica to which nothing happens.
LEMMA OtherReplica ==
  ASSUME WaitInv, NEW s \in Replicas, epoch' = epoch, term'[s] = term[s], lead'[s] = lead[s],
         log'[s] = log[s], applied'[s] = applied[s], registry'[s] = registry[s],
         activation'[s] = activation[s]
  PROVE  WaitOK(s)'
<1>1. WaitOK(s)
  BY Zenon DEF WaitInv
<1> QED
  BY <1>1, Zenon DEF WaitOK

\* A replica that no longer leads, or whose leader goes on with the same log.
LEMMA ReplicaKept ==
  ASSUME IInv, LogInv, WaitInv, NEW r \in Replicas, epoch' \in Nat, epoch <= epoch',
         applied'[r] \in Nat,
         \A q \in Requests :
           \/ SameWaiter(registry[r][q], registry'[r][q])
           \/ /\ registry'[r][q] = NoEntry
              /\ lead'[r] /\ activation[r].term = term[r] /\ activation[r].index <= applied[r]
                   => registry[r][q].index <= applied'[r],
         lead'[r] => /\ lead[r] /\ term'[r] = term[r] /\ log'[r] = log[r]
                     /\ activation'[r] = activation[r] /\ applied[r] <= applied'[r]
  PROVE  WaitOK(r)'
<1>1. PICK tm, ld, l, ap, reg, act : /\ tm = term[r] /\ ld = lead[r] /\ l = log[r]
                                     /\ ap = applied[r] /\ reg = registry[r]
                                     /\ act = activation[r]
  BY Zenon
<1>2. PICK tm2, ld2, l2, ap2, reg2, act2 : /\ tm2 = term'[r] /\ ld2 = lead'[r] /\ l2 = log'[r]
                                           /\ ap2 = applied'[r] /\ reg2 = registry'[r]
                                           /\ act2 = activation'[r]
  BY Zenon
<1>3. /\ epoch \in Nat /\ Len(l) \in Nat /\ ap \in Nat
      /\ reg \in [Requests -> Waiter] /\ act \in Activations
      /\ Waiters(epoch, tm, ld, l, ap, reg, act)
  BY <1>1, OfReplica, Zenon DEF WaitOK
<1>4. GoesOn(epoch, tm, ld, l, ap, reg, act, epoch', tm2, ld2, l2, ap2, reg2, act2)
  BY <1>1, <1>2, <1>3, Zenon DEF GoesOn
<1>5. Waiters(epoch', tm2, ld2, l2, ap2, reg2, act2)
  BY <1>4, WaitersKept, Zenon
<1> QED
  BY <1>2, <1>5, Zenon DEF WaitOK

\* Nothing happens to the other replicas.
Aside(r) ==
    /\ epoch' = epoch
    /\ \A s \in Replicas \ {r} :
         /\ term'[s] = term[s] /\ lead'[s] = lead[s] /\ log'[s] = log[s]
         /\ applied'[s] = applied[s] /\ registry'[s] = registry[s]
         /\ activation'[s] = activation[s]

LEMMA OneWaits ==
  ASSUME WaitInv, NEW r \in Replicas, Aside(r), WaitOK(r)'
  PROVE  WaitInv'
<1>1. ASSUME NEW s \in Replicas, s # r PROVE WaitOK(s)'
  BY <1>1, OtherReplica, Zenon DEF Aside
<1>2. \A s \in Replicas : WaitOK(s)'
  BY <1>1, Zenon
<1> QED
  BY <1>2, Zenon DEF WaitInv

\* A replica that follows from now on may forget any waiter.
LEMMA WaitFollows ==
  ASSUME IInv, LogInv, WaitInv, NEW r \in Replicas, Aside(r), ~lead'[r], applied'[r] \in Nat,
         \A q \in Requests : registry'[r][q] \in {registry[r][q], NoEntry}
  PROVE  WaitInv'
<1>1. epoch' = epoch /\ epoch \in Nat
  BY Zenon DEF Aside, IInv, FrontiersOK
<1>2. ASSUME NEW q \in Requests
      PROVE  SameWaiter(registry[r][q], registry'[r][q]) \/ registry'[r][q] = NoEntry
  BY Zenon DEF SameWaiter
<1>3. WaitOK(r)'
  BY <1>1, <1>2, ReplicaKept
<1> QED
  BY <1>3, OneWaits, Zenon

LEMMA WaitElect ==
  ASSUME IInv, LogInv, WaitInv, NEW r \in Replicas, Elect(r)
  PROVE  WaitInv'
<1>1. /\ epoch' = epoch + 1 /\ UNCHANGED <<applied, registry, activation>>
      /\ term' = [term EXCEPT ![r] = epoch + 1] /\ lead' = [lead EXCEPT ![r] = TRUE]
      /\ \E l : log' = [log EXCEPT ![r] = l]
  BY Zenon DEF Elect, applyVars, runtimeVars
<1>2. /\ term'[r] = epoch + 1
      /\ \A s \in Replicas \ {r} : term'[s] = term[s] /\ lead'[s] = lead[s] /\ log'[s] = log[s]
  BY <1>1, Zenon DEF IInv, FrontiersOK
<1>3. ASSUME NEW s \in Replicas, s # r PROVE WaitOK(s)'
  <2>1. epoch' \in Nat /\ epoch <= epoch' /\ applied'[s] \in Nat /\ applied'[s] = applied[s]
        /\ applied[s] <= applied'[s]
    BY <1>1, OfReplica
  <2>2. registry'[s] = registry[s] /\ activation'[s] = activation[s]
    BY <1>1, Zenon
  <2>3. \A q \in Requests : SameWaiter(registry[s][q], registry'[s][q])
    BY <2>2, Zenon DEF SameWaiter
  <2> QED
    BY <1>2, <1>3, <2>1, <2>2, <2>3, ReplicaKept, Zenon
<1>4. WaitOK(r)'
  <2>1. epoch \in Nat /\ registry[r] \in [Requests -> Waiter] /\ activation[r] \in Activations
        /\ TermsKnown(epoch, registry[r])
    BY OfReplica, Zenon DEF WaitOK, Waiters
  <2>2. activation[r].term <= epoch
    BY Zenon DEF LogInv, TermsOK
  <2>3. \A q \in Requests : registry[r][q].term \in Nat /\ registry[r][q].term <= epoch
    BY <2>1, Zenon DEF TermsKnown, Waiter
  <2>4. TermsKnown(epoch', registry'[r])
    BY <1>1, <2>1, <2>3 DEF TermsKnown
  <2>5. activation'[r].term # term'[r] /\ \A q \in Requests : registry'[r][q].term # term'[r]
    BY <1>1, <1>2, <2>1, <2>2, <2>3 DEF Activations
  <2>6. Waiters(epoch', term'[r], lead'[r], log'[r], applied'[r], registry'[r], activation'[r])
    BY <2>4, <2>5, Zenon DEF Waiters, Served
  <2> QED
    BY <2>6, Zenon DEF WaitOK
<1>5. \A s \in Replicas : WaitOK(s)'
  BY <1>3, <1>4, Zenon
<1> QED
  BY <1>5, Zenon DEF WaitInv

\* One entry is drained; the waiter that goes, if any, is the one of its position.
LEMMA WaitDrains ==
  ASSUME IInv, LogInv, WaitInv, NEW r \in Replicas, Draining(r), Drained(r),
         NEW reg \in [Requests -> Waiter], registry' = [registry EXCEPT ![r] = Frontier(r, reg)],
         \A q \in Requests :
           \/ reg[q] = registry[r][q]
           \/ /\ reg[q] = NoEntry
              /\ lead[r] /\ activation[r].term = term[r] /\ activation[r].index <= applied[r]
                   => registry[r][q].index = applied[r] + 1
  PROVE  WaitInv'
<1>1. applied' = [applied EXCEPT ![r] = @ + 1] /\ UNCHANGED <<epoch, term, lead, log, activation>>
  BY Zenon DEF Drained, raftVars
<1>2. /\ applied'[r] = applied[r] + 1 /\ registry'[r] = Frontier(r, reg)
      /\ \A s \in Replicas \ {r} : applied'[s] = applied[s] /\ registry'[s] = registry[s]
  BY <1>1, Zenon DEF IInv, FrontiersOK, WaitersOK
<1>3. Aside(r)
  BY <1>1, <1>2, Zenon DEF Aside
<1>4. epoch' \in Nat /\ epoch <= epoch' /\ applied'[r] \in Nat /\ applied[r] <= applied'[r]
      /\ registry[r] \in [Requests -> Waiter]
  BY <1>1, <1>2, OfReplica
<1>5. ASSUME NEW q \in Requests
      PROVE  \/ SameWaiter(registry[r][q], registry'[r][q])
             \/ /\ registry'[r][q] = NoEntry
                /\ lead'[r] /\ activation[r].term = term[r] /\ activation[r].index <= applied[r]
                     => registry[r][q].index <= applied'[r]
  <2>1. registry'[r][q] = reg[q] \/ (registry'[r][q] = NoEntry /\ reg[q].index <= applied[r] + 1)
    BY <1>2 DEF Frontier, Released
  <2>2. registry[r][q].index \in Nat
    BY <1>4, Zenon DEF Waiter
  <2>3. applied[r] + 1 <= applied'[r] /\ applied[r] + 1 \in Nat /\ (lead'[r] = lead[r])
    BY <1>1, <1>2, <1>4, OfReplica
  <2>4. CASE registry'[r][q] = reg[q] /\ reg[q] = registry[r][q]
    BY <2>4, Zenon DEF SameWaiter
  <2>5. CASE registry'[r][q] = reg[q] /\ reg[q] # registry[r][q]
    BY <2>2, <2>3, <2>5, Zenon
  <2>6. CASE registry'[r][q] = NoEntry /\ reg[q].index <= applied[r] + 1
    <3>1. reg[q] = registry[r][q] => registry[r][q].index <= applied'[r]
      BY <1>2, <2>6, Zenon
    <3>2. registry[r][q].index = applied[r] + 1 => registry[r][q].index <= applied'[r]
      BY <2>3, Zenon
    <3> QED
      BY <2>3, <2>6, <3>1, <3>2, Zenon
  <2> QED
    BY <2>1, <2>4, <2>5, <2>6, Zenon
<1>6. WaitOK(r)'
  BY <1>1, <1>4, <1>5, ReplicaKept, Zenon
<1> QED
  BY <1>3, <1>6, OneWaits, Zenon

LEMMA WaitApplies ==
  ASSUME IInv, LogInv, WaitInv, NEW r \in Replicas, ApplyCommand(r)
  PROVE  WaitInv'
<1>1. PICK k : k = applied[r] + 1
  BY Zenon
<1>2. PICK e : e = log[r][k]
  BY Zenon
<1>3. PICK p : p = e.env.req
  BY Zenon
<1>4. PICK reg : reg = [registry[r] EXCEPT ![p] = NoEntry]
  BY Zenon
<1>5. Draining(r) /\ Drained(r) /\ registry' = [registry EXCEPT ![r] = Frontier(r, reg)]
  BY <1>1, <1>2, <1>3, <1>4, Zenon DEF ApplyCommand
<1>6. /\ Len(log[r]) \in Nat /\ applied[r] \in Nat /\ commit[r] \in Nat /\ commit[r] <= Len(log[r])
      /\ registry[r] \in [Requests -> Waiter] /\ activation[r] \in Activations
  BY OfReplica, Zenon
<1>7. reg \in [Requests -> Waiter]
  <2>1. NoEntry \in Waiter
    BY Zenon DEF NoEntry, Waiter
  <2>2. ASSUME NEW f \in [Requests -> Waiter] PROVE [f EXCEPT ![p] = NoEntry] \in [Requests -> Waiter]
    BY <2>1, Zenon
  <2> QED
    BY <1>4, <1>6, <2>2, Zenon
<1>8. ASSUME lead[r], activation[r].term = term[r], activation[r].index <= applied[r]
      PROVE  registry[r][p].index = k
  <2>1. k \in 1..Len(log[r]) /\ applied[r] < k /\ activation[r].index < k
    BY <1>1, <1>5, <1>6, <1>8 DEF Draining, Activations
  <2>2. BeyondBarrier(log[r], applied[r], registry[r], activation[r].index)
    BY <1>8, OfReplica, Zenon DEF WaitOK, Waiters
  <2>3. Held(e, registry[r], k)
    BY <1>2, <2>1, <2>2, Zenon DEF BeyondBarrier
  <2> QED
    BY <1>3, <2>3, Zenon DEF Held
<1>9. \A q \in Requests : reg[q] = registry[r][q] \/ (q = p /\ reg[q] = NoEntry)
  BY <1>4, <1>6, Zenon
<1>10. \A q \in Requests :
         \/ reg[q] = registry[r][q]
         \/ /\ reg[q] = NoEntry
            /\ lead[r] /\ activation[r].term = term[r] /\ activation[r].index <= applied[r]
                 => registry[r][q].index = applied[r] + 1
  BY <1>1, <1>8, <1>9, Zenon
<1> QED
  BY <1>5, <1>7, <1>10, WaitDrains, Zenon

\* Registries after a turn: abandoned waiters keep their position.
LEMMA TurnRegistry ==
  ASSUME IInv, NEW r \in Replicas, NEW reg \in [Requests -> Waiter], NEW gws, EndTurn(r, reg, gws)
  PROVE  /\ \A q \in Requests : SameWaiter(reg[q], registry'[r][q])
         /\ \A s \in Replicas \ {r} : registry'[s] = registry[s]
         /\ UNCHANGED <<epoch, term, lead, applied>>
<1>1. PICK late : registry' = [registry EXCEPT ![r] = Abandoned(reg, Leaving(r, late))]
  BY Zenon DEF EndTurn
<1>2. UNCHANGED <<epoch, term, lead, applied>>
  BY Zenon DEF EndTurn, applyVars
<1> DEFINE new == Abandoned(reg, Leaving(r, late))
<1>3. \A q \in Requests : SameWaiter(reg[q], new[q])
  BY Zenon DEF Abandoned, SameWaiter, Waiter
<1> HIDE DEF new
<1>4. registry'[r] = new /\ \A s \in Replicas \ {r} : registry'[s] = registry[s]
  BY <1>1, Zenon DEF IInv, WaitersOK, new
<1> QED
  BY <1>2, <1>3, <1>4, Zenon

LEMMA WaitFinishes ==
  ASSUME IInv, LogInv, WaitInv, NEW r \in Replicas, FinishTurn(r)
  PROVE  WaitInv'
<1>1. /\ EndTurn(r, registry[r], gw) /\ UNCHANGED log
      /\ activation' = [activation EXCEPT ![r] = IF lead[r] THEN @ ELSE NoPosition]
  BY Zenon DEF FinishTurn
<1>2. /\ \A q \in Requests : SameWaiter(registry[r][q], registry'[r][q])
      /\ \A s \in Replicas \ {r} : registry'[s] = registry[s]
      /\ UNCHANGED <<epoch, term, lead, applied>>
  BY <1>1, OfReplica, TurnRegistry, Zenon
<1>3. (lead[r] => activation'[r] = activation[r])
      /\ \A s \in Replicas \ {r} : activation'[s] = activation[s]
  BY <1>1, Zenon DEF LogInv, LogTypes
<1>4. Aside(r)
  BY <1>1, <1>2, <1>3, Zenon DEF Aside
<1>5. epoch' \in Nat /\ epoch <= epoch' /\ applied'[r] \in Nat /\ applied[r] <= applied'[r]
  BY <1>2, OfReplica
<1>6. WaitOK(r)'
  BY <1>1, <1>2, <1>3, <1>5, ReplicaKept, Zenon
<1> QED
  BY <1>4, <1>6, OneWaits, Zenon

LEMMA WaitBegins ==
  ASSUME IInv, LogInv, WaitInv, NEW r \in Replicas, StartTerm(r)
  PROVE  WaitInv'
<1>1. PICK n : n = Len(log[r])
  BY Zenon
<1>2. /\ EndTurn(r, registry[r], gw) /\ lead[r] /\ activation[r].term # term[r]
      /\ log' = [log EXCEPT ![r] = Append(@, Barrier(term[r]))]
      /\ activation' = [activation EXCEPT ![r] = [term |-> term[r], index |-> n + 1]]
  BY <1>1, Zenon DEF StartTerm
<1>3. /\ \A q \in Requests : SameWaiter(registry[r][q], registry'[r][q])
      /\ \A s \in Replicas \ {r} : registry'[s] = registry[s]
      /\ UNCHANGED <<epoch, term, lead, applied>>
  BY <1>2, OfReplica, TurnRegistry, Zenon
<1>4. /\ log'[r] = Append(log[r], Barrier(term[r]))
      /\ activation'[r] = [term |-> term[r], index |-> n + 1]
      /\ \A s \in Replicas \ {r} : log'[s] = log[s] /\ activation'[s] = activation[s]
  BY <1>2, Zenon DEF IInv, FrontiersOK, LogInv, LogTypes
<1>5. Aside(r)
  BY <1>3, <1>4, Zenon DEF Aside
<1>6. /\ n \in Nat /\ applied[r] \in Nat /\ applied[r] <= n /\ Len(log'[r]) = n + 1
      /\ WaitOK(r)
  BY <1>1, <1>4, OfReplica
<1>7. PICK tm, ap, act, l2, reg, reg2 : /\ tm = term[r] /\ ap = applied[r] /\ act = activation[r]
                                        /\ l2 = log'[r] /\ reg = registry[r]
                                        /\ reg2 = registry'[r]
  BY Zenon
<1>8. Waiters(epoch, tm, TRUE, log[r], ap, reg, act)
  BY <1>2, <1>6, <1>7, Zenon DEF WaitOK, Waiters
<1>9. /\ ap \in Nat /\ ap <= n /\ Len(l2) = n + 1 /\ act.term # tm
      /\ \A q \in Requests : SameWaiter(reg[q], reg2[q])
  BY <1>2, <1>3, <1>6, <1>7, Zenon
<1>10. PICK l : l = log[r]
  BY Zenon
<1>11. Waiters(epoch, tm, TRUE, l, ap, reg, act)
  BY <1>8, <1>10, Zenon
<1>12. Waiters(epoch, tm, TRUE, l2, ap, reg2, [term |-> tm, index |-> n + 1])
  BY <1>6, <1>9, <1>11, WaitersBegin, Zenon
<1>13. WaitOK(r)'
  BY <1>2, <1>3, <1>4, <1>7, <1>12, Zenon DEF WaitOK, Waiters
<1> QED
  BY <1>5, <1>13, OneWaits, Zenon

LEMMA WaitAdmits ==
  ASSUME IInv, LogInv, WaitInv, NEW r \in Replicas, NEW g \in Gateways, Admit(r, g)
  PROVE  WaitInv'
<1>1. PICK n : n = Len(log[r])
  BY Zenon
<1>2. PICK p : p = gw[g].req
  BY Zenon
<1>3. PICK e : e = Proposed(r, g)
  BY Zenon
<1>4. PICK reg : reg = [registry[r] EXCEPT ![p] = Registered(r, g)]
  BY Zenon
<1>5. PICK gws : EndTurn(r, reg, gws)
  BY <1>2, <1>4, Zenon DEF Admit
<1>6. gw[g].state = "sent" /\ registry[r][p] = NoEntry
  BY <1>2, Zenon DEF Admit, Admissible
<1>7. p \in Requests /\ e.env \in Envelopes /\ e.env.req = p
  <2>1. gw[g] \in Sent
    BY <1>6, ProposedIsEntry, Zenon
  <2>2. p \in Requests /\ gw[g].ack \in Acks
    BY <1>2, <2>1, Zenon DEF Sent
  <2>3. e.env = [req |-> p, ack |-> gw[g].ack]
    BY <1>2, <1>3, Zenon DEF Proposed
  <2> QED
    BY <2>2, <2>3 DEF Envelopes
<1>8. /\ lead[r] /\ activation[r].term = term[r] /\ activation[r].index <= applied[r]
      /\ log' = [log EXCEPT ![r] = Append(@, e)] /\ UNCHANGED activation
  <2>1. applied[r] \in Nat /\ activation[r].index \in Nat
    BY OfReplica, Zenon DEF Activations
  <2> QED
    BY <1>3, <2>1, Zenon DEF Admit, Serving
<1>9. /\ epoch \in Nat /\ n \in Nat /\ applied[r] \in Nat /\ registry[r] \in [Requests -> Waiter]
      /\ activation[r].index \in Nat /\ term[r] \in Nat /\ WaitOK(r)
  BY <1>1, OfReplica, Zenon DEF Activations
<1>10. /\ log'[r] = Append(log[r], e) /\ \A s \in Replicas \ {r} : log'[s] = log[s]
  BY <1>8, Zenon DEF IInv, FrontiersOK
<1>11. Len(log'[r]) = n + 1 /\ log'[r][n + 1] = e /\ \A i \in 1..n : log'[r][i] = log[r][i]
  <2>1. e \in Entries /\ log[r] \in Seq(Entries)
    BY <1>3, <1>6, ProposedIsEntry, OfReplica, Zenon
  <2> QED
    BY <1>1, <1>10, <2>1
<1>12. Registered(r, g) \in Waiter /\ Registered(r, g).index = n + 1
       /\ Registered(r, g).term = term[r]
  BY <1>1, <1>9 DEF Registered, Waiter
<1>13. /\ reg \in [Requests -> Waiter] /\ reg[p] = Registered(r, g)
       /\ \A q \in Requests \ {p} : reg[q] = registry[r][q]
  BY <1>4, <1>7, <1>9, <1>12, Zenon
<1>14. /\ \A q \in Requests : SameWaiter(reg[q], registry'[r][q])
       /\ \A s \in Replicas \ {r} : registry'[s] = registry[s]
       /\ UNCHANGED <<epoch, term, lead, applied>>
  BY <1>5, <1>13, TurnRegistry, Zenon
<1>15. Aside(r)
  BY <1>8, <1>10, <1>14, Zenon DEF Aside
<1>16. registry'[r][p].index = n + 1 /\ registry'[r][p].term = term[r]
  BY <1>7, <1>12, <1>13, <1>14, Zenon DEF SameWaiter
<1>17. \A q \in Requests \ {p} : SameWaiter(registry[r][q], registry'[r][q])
  BY <1>13, <1>14, Zenon
<1>18. term[r] <= epoch
  BY Zenon DEF LogInv, TermsOK
<1>19. PICK tm, l, ap, act, rg, l2, rg2 :
           /\ tm = term[r] /\ l = log[r] /\ ap = applied[r] /\ act = activation[r]
           /\ rg = registry[r] /\ l2 = log'[r] /\ rg2 = registry'[r]
  BY Zenon
<1>20. Waiters(epoch, tm, TRUE, l, ap, rg, act)
  BY <1>8, <1>9, <1>19, Zenon DEF WaitOK, Waiters
<1>21. /\ ap \in Nat /\ act.index \in Nat /\ act.term = tm /\ act.index <= ap /\ tm <= epoch
       /\ Len(l) = n /\ Len(l2) = n + 1 /\ l2[n + 1] = e /\ \A i \in 1..n : l2[i] = l[i]
  BY <1>1, <1>8, <1>9, <1>11, <1>18, <1>19, Zenon
<1>22. /\ rg[p] = NoEntry /\ rg2[p].index = n + 1 /\ rg2[p].term = tm
       /\ \A q \in Requests \ {p} : SameWaiter(rg[q], rg2[q])
  BY <1>6, <1>16, <1>17, <1>19, Zenon
<1>23. Waiters(epoch, tm, TRUE, l2, ap, rg2, act)
  <2>1. Admitted(epoch, tm, n, l, l2, ap, act, p, rg, rg2)
    BY <1>7, <1>9, <1>21, <1>22, Zenon DEF Admitted
  <2> QED
    BY <1>20, <2>1, WaitersAdmit, Zenon
<1>24. WaitOK(r)'
  BY <1>8, <1>14, <1>19, <1>23, Zenon DEF WaitOK, Waiters
<1> QED
  BY <1>15, <1>24, OneWaits, Zenon

LEMMA WaitStep ==
  ASSUME IInv, LogInv, WaitInv, [Next]_vars
  PROVE  WaitInv'
<1>1. ASSUME UNCHANGED <<epoch, term, lead, log, applied, registry, activation>> PROVE WaitInv'
  BY <1>1, OtherReplica, Zenon DEF WaitInv
<1>2. ASSUME NEW r \in Replicas, AdvanceCommit(r) PROVE WaitInv'
  BY <1>1, <1>2, Zenon DEF AdvanceCommit, applyVars, runtimeVars
<1>3. ASSUME NEW r \in Replicas, ~lead'[r], applied'[r] \in Nat, Aside(r),
             registry'[r] = registry[r]
      PROVE  WaitInv'
  BY <1>3, WaitFollows, Zenon
<1>4. ASSUME NEW r \in Replicas, StepDown(r) PROVE WaitInv'
  <2>1. lead' = [lead EXCEPT ![r] = FALSE]
        /\ UNCHANGED <<epoch, term, log, applied, registry, activation>>
    BY <1>4, Zenon DEF StepDown, applyVars, runtimeVars
  <2>2. ~lead'[r] /\ Aside(r)
    BY <2>1, Zenon DEF Aside, IInv, FrontiersOK
  <2> QED
    BY <1>3, <2>1, <2>2, OfReplica, Zenon
<1>5. ASSUME NEW r \in Replicas, AppendEntries(r) PROVE WaitInv'
  <2>1. /\ lead' = [lead EXCEPT ![r] = FALSE] /\ \E l : log' = [log EXCEPT ![r] = l]
        /\ UNCHANGED <<epoch, term, applied, registry, activation>>
    BY <1>5, Zenon DEF AppendEntries, applyVars, runtimeVars
  <2>2. ~lead'[r] /\ Aside(r)
    BY <2>1, Zenon DEF Aside, IInv, FrontiersOK
  <2> QED
    BY <1>3, <2>1, <2>2, OfReplica, Zenon
<1>6. ASSUME NEW r \in Replicas, NEW l \in Replicas, InstallSnapshot(r, l) PROVE WaitInv'
  <2>1. /\ lead' = [lead EXCEPT ![r] = FALSE] /\ \E m : log' = [log EXCEPT ![r] = m]
        /\ applied' = [applied EXCEPT ![r] = applied[l]]
        /\ registry' = [registry EXCEPT ![r] = Released(registry[r], applied[l])]
        /\ UNCHANGED <<epoch, term, activation>>
    BY <1>6, Zenon DEF InstallSnapshot
  <2>2. ~lead'[r] /\ applied'[r] = applied[l] /\ registry'[r] = Released(registry[r], applied[l])
    BY <2>1, Zenon DEF IInv, FrontiersOK, WaitersOK
  <2>3. Aside(r)
    BY <2>1, Zenon DEF Aside, IInv, FrontiersOK, WaitersOK
  <2>4. \A q \in Requests : registry'[r][q] \in {registry[r][q], NoEntry}
    BY <2>2, Zenon DEF Released
  <2> QED
    BY <2>2, <2>3, <2>4, OfReplica, WaitFollows, Zenon
<1>7. ASSUME NEW r \in Replicas, Restart(r) PROVE WaitInv'
  <2>1. /\ lead' = [lead EXCEPT ![r] = FALSE] /\ applied' = [applied EXCEPT ![r] = 0]
        /\ registry' = [registry EXCEPT ![r] = [q \in Requests |-> NoEntry]]
        /\ activation' = [activation EXCEPT ![r] = NoPosition] /\ UNCHANGED <<epoch, term, log>>
    BY <1>7, Zenon DEF Restart
  <2>2. ~lead'[r] /\ applied'[r] = 0 /\ registry'[r] = [q \in Requests |-> NoEntry]
    BY <2>1, Zenon DEF IInv, FrontiersOK, WaitersOK
  <2>3. Aside(r)
    BY <2>1, Zenon DEF Aside, IInv, FrontiersOK, WaitersOK, LogInv, LogTypes
  <2>4. \A q \in Requests : registry'[r][q] \in {registry[r][q], NoEntry}
    BY <2>2, Zenon
  <2> QED
    BY <2>2, <2>3, <2>4, WaitFollows
<1>8. ASSUME NEW r \in Replicas, ApplyBarrier(r) PROVE WaitInv'
  <2>1. registry[r] \in [Requests -> Waiter]
    BY OfReplica, Zenon
  <2> QED
    BY <1>8, <2>1, WaitDrains, Zenon DEF ApplyBarrier
<1>9. ASSUME NEW r \in Replicas, ApplyMismatch(r) PROVE WaitInv'
  BY <1>1, <1>9, Zenon DEF ApplyMismatch, raftVars, runtimeVars
<1>10. ASSUME UNCHANGED <<raftVars, applyVars, runtimeVars>> PROVE WaitInv'
  BY <1>1, <1>10, Zenon DEF raftVars, applyVars, runtimeVars
<1>11. ASSUME NEW g \in Gateways,
              OutcomeUnknown(g) \/ (\E c \in Clients : Submit(g, c))
                                \/ (\E r \in Replicas : QueryOutcome(g, r))
       PROVE  WaitInv'
  BY <1>10, <1>11, Zenon DEF OutcomeUnknown, Submit, QueryOutcome
<1>12. CASE UNCHANGED vars
  BY <1>10, <1>12, Zenon DEF vars
<1> QED
  BY <1>2, <1>4, <1>5, <1>6, <1>7, <1>8, <1>9, <1>11, <1>12, WaitElect, WaitApplies,
     WaitFinishes, WaitBegins, WaitAdmits, Zenon DEF Next

\* A waiter of the current term meets its own entry and no other: the commands a
\* leader has yet to apply hold the request at the position the registry gave it
\* (`admit_prepared_command`, `expire_deadlines`, `resolve_applied`).
THEOREM WaitersMeetTheirEntries == Spec => []WaiterMeetsItsEntry
<1>1. ASSUME IInv, LogInv, WaitInv, NEW r \in Replicas, NEW q \in Requests,
             lead[r], registry[r][q].live, registry[r][q].term = term[r],
             NEW i \in (applied[r] + 1)..Len(log[r]), log[r][i].env.req = q
      PROVE  i = registry[r][q].index
  <2>1. /\ applied[r] \in Nat /\ activation[r].index \in Nat /\ Len(log[r]) \in Nat
        /\ WaitOK(r)
    BY <1>1, OfReplica, Zenon DEF Activations
  <2>2. activation[r].term = term[r] /\ activation[r].index <= applied[r]
    BY <1>1, <2>1, Zenon DEF WaitOK, Waiters, Served
  <2>3. i \in 1..Len(log[r]) /\ applied[r] < i /\ activation[r].index < i
    BY <2>1, <2>2
  <2>4. Held(log[r][i], registry[r], i)
    BY <1>1, <2>1, <2>2, <2>3, Zenon DEF WaitOK, Waiters, BeyondBarrier
  <2> QED
    BY <1>1, <2>4, Zenon DEF Held
<1>2. IInv /\ LogInv /\ WaitInv => WaiterMeetsItsEntry
  BY <1>1, Zenon DEF WaiterMeetsItsEntry
<1>3. Init => IInv /\ LogInv /\ WaitInv
  BY InitInv, LogInit, WaitInit, Zenon
<1>4. IInv /\ LogInv /\ WaitInv /\ [Next]_vars => (IInv /\ LogInv /\ WaitInv)'
  BY Inductive, LogStep, WaitStep, Zenon
<1> QED
  BY <1>2, <1>3, <1>4, PTL DEF Spec

(***************************************************************************)
(* What a log computes                                                     *)
(***************************************************************************)
Prefix(l, k) == SubSeq(l, 1, k)

\* the state machine after one more entry
After(s, e) == IF e.env = NoEnvelope THEN s ELSE Apply(s, e.env).sm

\* t has executed what s has executed, in the same order and with the same outcomes
Continues(s, t) ==
    /\ Len(s.executed) <= Len(t.executed)
    /\ \A i \in 1..Len(s.executed) : t.executed[i] = s.executed[i]

\* s has executed q with outcome o
Known(s, q, o) == \E i \in 1..Len(s.executed) : s.executed[i] = [req |-> q, out |-> o]

\* a cached outcome is the outcome of an execution
Remembers(s) ==
    \A q \in Requests : s.outcome[q] # NoOutcome => Known(s, q, s.outcome[q])

Definite(o) == o.kind \in {"applied", "rejected"}

\* F is the state after each log of P, a set closed under prefixes
History(P, F) ==
    /\ P \subseteq Seq(Entries) /\ << >> \in P /\ F[<< >>] = EmptyState
    /\ \A l \in P : Sound(F[l]) /\ Remembers(F[l])
    /\ \A l \in P : \A k \in 0..Len(l) : Prefix(l, k) \in P /\ Continues(F[Prefix(l, k)], F[l])
    /\ \A l \in P : l # << >> => F[l] = After(F[Prefix(l, Len(l) - 1)], l[Len(l)])

LEMMA ContinuesTransitive ==
  ASSUME NEW s \in States, NEW t \in States, NEW u \in States, Continues(s, t), Continues(t, u)
  PROVE  Continues(s, u)
<1>1. Len(s.executed) \in Nat /\ Len(t.executed) \in Nat /\ Len(u.executed) \in Nat
  BY DEF States
<1> QED
  BY <1>1 DEF Continues

LEMMA ContinuesReflexive ==
  ASSUME NEW s \in States PROVE Continues(s, s)
<1>1. Len(s.executed) \in Nat
  BY DEF States
<1> QED
  BY <1>1 DEF Continues

LEMMA KnownContinues ==
  ASSUME NEW s \in States, NEW t \in States, Continues(s, t), NEW q, NEW o, Known(s, q, o)
  PROVE  Known(t, q, o)
<1>1. Len(s.executed) \in Nat /\ Len(t.executed) \in Nat
  BY DEF States
<1> QED
  BY <1>1 DEF Continues, Known

\* Raising the floor only forgets outcomes.
LEMMA HorizonRemembers ==
  ASSUME NEW s, Sound(s), Remembers(s), NEW env \in Envelopes,
         ~(env.ack # None /\ env.ack < s.floor[env.req.client])
  PROVE  Remembers(Horizon(s, env)) /\ Continues(s, Horizon(s, env))
<1> DEFINE h == Horizon(s, env)
<1>1. Sound(h) /\ h.executed = s.executed
  BY HorizonSound, Zenon
<1>2. \A q \in Requests : h.outcome[q] # NoOutcome => h.outcome[q] = s.outcome[q]
  BY Zenon DEF Horizon, RaiseFloor, Sound, States
<1>3. Continues(s, h)
  <2>1. s \in States /\ Len(s.executed) \in Nat
    BY DEF Sound, States
  <2> QED
    BY <1>1, <2>1 DEF Continues
<1> HIDE DEF h
<1>4. Remembers(h)
  BY <1>1, <1>2, Zenon DEF Remembers, Known
<1> QED
  BY <1>3, <1>4, Zenon DEF h

LEMMA ExecuteRemembers ==
  ASSUME NEW s, Sound(s), Remembers(s), NEW q \in Requests
  PROVE  /\ Remembers(Execute(s, q)) /\ Continues(s, Execute(s, q))
         /\ Known(Execute(s, q), q, Dispatch(s, q))
<1> DEFINE out == Dispatch(s, q)
           rec == [req |-> q, out |-> out]
           e == Execute(s, q)
           n == Len(s.executed)
<1>1. s.executed \in Seq(Executions) /\ n \in Nat /\ s.outcome \in [Requests -> Results]
  BY DEF Sound, States
<1>2. out \in Results
  BY DEF Dispatch, Answer, Applied, Results, Sound, States
<1>3. rec \in Executions
  BY <1>2, Zenon DEF Executions
<1> HIDE DEF out
<1>4. /\ e.executed = Append(s.executed, rec)
      /\ e.outcome = [s.outcome EXCEPT ![q] = out]
  BY Zenon DEF Execute, out, Sound, States
<1>5. /\ Len(e.executed) = n + 1 /\ e.executed[n + 1] = rec
      /\ \A i \in 1..n : e.executed[i] = s.executed[i]
  BY <1>1, <1>3, <1>4
<1> HIDE DEF e, n
<1>6. Continues(s, e)
  BY <1>1, <1>5 DEF Continues, n
<1>7. Known(e, q, out)
  BY <1>1, <1>5 DEF Known
<1>8. ASSUME NEW p \in Requests, e.outcome[p] # NoOutcome PROVE Known(e, p, e.outcome[p])
  <2>1. CASE p = q
    BY <1>1, <1>4, <1>7, <2>1, Zenon
  <2>2. CASE p # q
    <3>1. e.outcome[p] = s.outcome[p]
      BY <1>1, <1>4, <2>2, Zenon
    <3>2. PICK i \in 1..n : s.executed[i] = [req |-> p, out |-> s.outcome[p]]
      BY <1>8, <3>1, Zenon DEF Remembers, Known, n
    <3>3. i \in 1..(n + 1) /\ e.executed[i] = [req |-> p, out |-> e.outcome[p]]
      BY <1>1, <1>5, <3>1, <3>2
    <3> QED
      BY <1>5, <3>3, Zenon DEF Known
  <2> QED
    BY <2>1, <2>2, Zenon
<1> QED
  BY <1>6, <1>7, <1>8, Zenon DEF Remembers, e, out

\* TabletStateMachine::apply: what was executed stays executed, and a definite
\* answer is the outcome of an execution the new state has.
LEMMA ApplyRemembers ==
  ASSUME NEW s, Sound(s), Remembers(s), NEW env \in Envelopes
  PROVE  /\ Remembers(Apply(s, env).sm) /\ Continues(s, Apply(s, env).sm)
         /\ Definite(Apply(s, env).out) =>
              Known(Apply(s, env).sm, env.req, Apply(s, env).out)
<1> DEFINE next == Horizon(s, env)
<1>1. env.req \in Requests /\ s \in States
  BY Zenon DEF Envelopes, Sound
<1>2. \A k \in {"expired", "regressed"} : ~Definite(Answer(k))
  BY Zenon DEF Answer, Definite
<1>3. CASE env.ack # None /\ env.ack < s.floor[env.req.client]
  BY <1>1, <1>2, <1>3, ContinuesReflexive, Zenon DEF Apply
<1>4. CASE ~(env.ack # None /\ env.ack < s.floor[env.req.client])
  <2>1. Sound(next) /\ Remembers(next) /\ Continues(s, next) /\ next \in States
    BY <1>4, HorizonSound, HorizonRemembers, Zenon DEF Sound
  <2> HIDE DEF next
  <2>2. CASE Expired(next, env.req)
    <3>1. Apply(s, env) = [sm |-> next, out |-> Answer("expired")]
      BY <1>4, <2>2, Zenon DEF Apply, next
    <3> QED
      BY <1>2, <2>1, <3>1
  <2>3. CASE ~Expired(next, env.req) /\ next.outcome[env.req] # NoOutcome
    <3>1. Apply(s, env) = [sm |-> next, out |-> next.outcome[env.req]]
      BY <1>4, <2>3, Zenon DEF Apply, next
    <3> QED
      BY <1>1, <2>1, <2>3, <3>1 DEF Remembers
  <2>4. CASE ~Expired(next, env.req) /\ next.outcome[env.req] = NoOutcome
    <3>1. Apply(s, env) = [sm |-> Execute(next, env.req), out |-> Dispatch(next, env.req)]
      BY <1>4, <2>4, Zenon DEF Apply, next
    <3>2. /\ Remembers(Execute(next, env.req)) /\ Continues(next, Execute(next, env.req))
          /\ Known(Execute(next, env.req), env.req, Dispatch(next, env.req))
      BY <1>1, <2>1, ExecuteRemembers, Zenon
    <3>3. Execute(next, env.req) \in States
      BY <1>1, <2>1, <2>4, ExecuteSound, Zenon DEF Sound
    <3>4. Continues(s, Execute(next, env.req))
      BY <1>1, <2>1, <3>2, <3>3, ContinuesTransitive, Zenon
    <3> QED
      BY <3>1, <3>2, <3>4
  <2> QED
    BY <2>2, <2>3, <2>4, Zenon
<1> QED
  BY <1>3, <1>4, Zenon

LEMMA AfterOK ==
  ASSUME NEW s, Sound(s), Remembers(s), NEW e \in Entries
  PROVE  Sound(After(s, e)) /\ Remembers(After(s, e)) /\ Continues(s, After(s, e))
<1>1. CASE e.env = NoEnvelope
  BY <1>1, ContinuesReflexive, Zenon DEF After, Sound
<1>2. CASE e.env # NoEnvelope
  <2>1. e.env \in Envelopes
    BY <1>2, Zenon DEF Entries
  <2> QED
    BY <1>2, <2>1, ApplySound, ApplyRemembers, Zenon DEF After
<1> QED
  BY <1>1, <1>2, Zenon

\* Logs that agree up to k have the same prefix.
LEMMA SamePrefix ==
  ASSUME NEW S, NEW l \in Seq(S), NEW m \in Seq(S), NEW k \in Nat, k <= Len(l), k <= Len(m),
         \A i \in 1..k : l[i] = m[i]
  PROVE  Prefix(l, k) = Prefix(m, k)
<1>1. k \in 0..Len(l) /\ k \in 0..Len(m)
  OBVIOUS
<1>2. /\ Prefix(l, k) \in Seq(S) /\ Len(Prefix(l, k)) = k
      /\ \A i \in 1..k : Prefix(l, k)[i] = l[i]
  BY <1>1, PrefixOfLog, PrefixElements, Zenon DEF Prefix
<1>3. /\ Prefix(m, k) \in Seq(S) /\ Len(Prefix(m, k)) = k
      /\ \A i \in 1..k : Prefix(m, k)[i] = m[i]
  BY <1>1, PrefixOfLog, PrefixElements, Zenon DEF Prefix
<1>4. \A i \in 1..k : Prefix(l, k)[i] = Prefix(m, k)[i]
  BY <1>2, <1>3, Zenon
<1> HIDE DEF Prefix
<1> QED
  BY <1>2, <1>3, <1>4, SeqEqual, Zenon

LEMMA PrefixOfPrefix ==
  ASSUME NEW S, NEW l \in Seq(S), NEW k \in 0..Len(l), NEW j \in 0..k
  PROVE  Prefix(Prefix(l, k), j) = Prefix(l, j)
<1>1. /\ Prefix(l, k) \in Seq(S) /\ Len(Prefix(l, k)) = k
      /\ \A i \in 1..k : Prefix(l, k)[i] = l[i]
  BY PrefixOfLog, PrefixElements, Zenon DEF Prefix
<1>2. Len(l) \in Nat /\ j \in Nat /\ j <= k /\ j <= Len(l)
  OBVIOUS
<1> QED
  BY <1>1, <1>2, SamePrefix

\* One more entry of a log is one more step of what it computes.
LEMMA HistoryStep ==
  ASSUME NEW P, NEW F, History(P, F), NEW l \in P, NEW k \in 1..Len(l)
  PROVE  F[Prefix(l, k)] = After(F[Prefix(l, k - 1)], l[k])
<1> DEFINE m == Prefix(l, k)
<1>1. l \in Seq(Entries) /\ Len(l) \in Nat /\ k \in 0..Len(l) /\ k - 1 \in 0..k
  BY DEF History
<1>2. m \in P /\ m \in Seq(Entries) /\ Len(m) = k /\ m[k] = l[k]
  BY <1>1, PrefixOfLog, PrefixElements DEF Prefix, History
<1>3. Prefix(m, k - 1) = Prefix(l, k - 1)
  BY <1>1, PrefixOfPrefix, Zenon
<1> HIDE DEF m
<1>4. m # << >>
  BY <1>2, EmptySeq
<1> QED
  BY <1>2, <1>3, <1>4, Zenon DEF History, m

\* A log in use may grow by any entry.
LEMMA ExtendHistory ==
  ASSUME NEW P, NEW F, History(P, F), NEW l \in P, NEW e \in Entries
  PROVE  \E Q, G : /\ History(Q, G) /\ Append(l, e) \in Q
                   /\ \A m \in P : m \in Q /\ G[m] = F[m]
<1> DEFINE x == Append(l, e)
           Q == P \cup {x}
           G == [m \in Q |-> IF m \in P THEN F[m] ELSE After(F[l], e)]
<1>1. CASE x \in P
  BY <1>1, Zenon
<1>2. CASE x \notin P
  <2>1. l \in Seq(Entries) /\ Len(l) \in Nat
    BY DEF History
  <2>2. /\ x \in Seq(Entries) /\ Len(x) = Len(l) + 1 /\ x[Len(l) + 1] = e
        /\ \A i \in 1..Len(l) : x[i] = l[i]
    BY <2>1
  <2> HIDE DEF x
  <2>3. \A k \in 0..Len(l) : Prefix(x, k) = Prefix(l, k)
    BY <2>1, <2>2, SamePrefix
  <2>4. Prefix(x, Len(x)) = x /\ Prefix(l, Len(l)) = l
    BY <2>1, <2>2, SubSeqFull, Zenon DEF Prefix
  <2>5. \A m \in P : m \in Q /\ G[m] = F[m]
    OBVIOUS
  <2>6. x \in Q /\ G[x] = After(F[l], e)
    BY <1>2, Zenon
  <2>7. Sound(G[x]) /\ Remembers(G[x]) /\ Continues(F[l], G[x])
    BY <2>6, AfterOK, Zenon DEF History
  <2> HIDE DEF G
  <2>8. Q \subseteq Seq(Entries) /\ << >> \in Q /\ G[<< >>] = EmptyState
    BY <2>2, <2>5, Zenon DEF History
  <2>9. \A m \in Q : Sound(G[m]) /\ Remembers(G[m])
    BY <2>5, <2>7, Zenon DEF History
  <2>10. ASSUME NEW m \in Q, NEW k \in 0..Len(m)
         PROVE  Prefix(m, k) \in Q /\ Continues(G[Prefix(m, k)], G[m])
    <3>1. CASE m \in P
      BY <2>5, <3>1, Zenon DEF History
    <3>2. CASE m = x /\ k = Len(x)
      <4>1. G[x] \in States
        BY <2>7, Zenon DEF Sound
      <4> QED
        BY <2>4, <2>6, <3>2, <4>1, ContinuesReflexive, Zenon
    <3>3. CASE m = x /\ k # Len(x)
      <4>1. k \in 0..Len(l)
        BY <2>1, <2>2, <3>3
      <4>2. Prefix(m, k) = Prefix(l, k) /\ Prefix(l, k) \in P
            /\ Continues(F[Prefix(l, k)], F[l])
        BY <2>3, <3>3, <4>1, Zenon DEF History
      <4>3. F[Prefix(l, k)] \in States /\ F[l] \in States /\ G[x] \in States
        BY <2>7, <4>2, Zenon DEF History, Sound
      <4>4. Continues(F[Prefix(l, k)], G[x])
        BY <2>7, <4>2, <4>3, ContinuesTransitive, Zenon
      <4> QED
        BY <2>5, <3>3, <4>2, <4>4, Zenon
    <3> QED
      BY <3>1, <3>2, <3>3, Zenon
  <2>11. ASSUME NEW m \in Q, m # << >>
         PROVE  G[m] = After(G[Prefix(m, Len(m) - 1)], m[Len(m)])
    <3>1. CASE m \in P
      <4>1. m \in Seq(Entries) /\ Len(m) \in Nat \ {0}
        BY <2>11, <3>1, EmptySeq, Zenon DEF History
      <4>2. Prefix(m, Len(m) - 1) \in P
        BY <3>1, <4>1 DEF History
      <4> QED
        BY <2>5, <2>11, <3>1, <4>2, Zenon DEF History
    <3>2. CASE m = x
      <4>1. Len(m) - 1 = Len(l) /\ m[Len(m)] = e
        BY <2>1, <2>2, <3>2
      <4>2. Prefix(m, Len(m) - 1) = l
        BY <2>1, <2>3, <2>4, <3>2, <4>1
      <4> QED
        BY <2>5, <2>6, <3>2, <4>1, <4>2, Zenon
    <3> QED
      BY <3>1, <3>2, Zenon
  <2>12. History(Q, G)
    BY <2>8, <2>9, <2>10, <2>11, Zenon DEF History
  <2> HIDE DEF Q
  <2> QED
    BY <2>5, <2>6, <2>12, Zenon DEF x
<1> QED
  BY <1>1, <1>2, Zenon

(***************************************************************************)
(* The states of the replicas are the history of the committed log         *)
(***************************************************************************)
\* how much of the committed log is in the state: a replica that stopped on a
\* waiter has executed the entry it did not count
Upto(r) == IF failed[r] THEN applied[r] + 1 ELSE applied[r]

\* what was answered with these pairs has been executed in state s
Told(s, S) == \A a \in S : Definite(a[2]) => Known(s, a[1], a[2])

Outgoing(r) == {<<c.req, c.out>> : c \in completed[r]}

\* the state after the first k entries of log l
StateOf(F, l, k) == F[Prefix(l, k)]

Computed(P, F) ==
    /\ History(P, F) /\ committed \in P
    /\ \A r \in Replicas : log[r] \in P /\ sm[r] = StateOf(F, committed, Upto(r))
    /\ \A r \in Replicas : Told(F[committed], Outgoing(r))
    /\ Told(F[committed], answered)

HistoryInv == \E P, F : Computed(P, F)

LEMMA UptoCommitted ==
  ASSUME IInv, LogInv, NEW r \in Replicas
  PROVE  /\ Upto(r) \in 0..Len(committed) /\ Upto(r) <= commit[r]
         /\ committed \in Seq(Entries) /\ Len(committed) \in Nat
<1>1. applied[r] \in Nat /\ commit[r] \in Nat /\ applied[r] <= commit[r]
      /\ commit[r] <= Len(committed) /\ committed \in Seq(Entries) /\ Len(committed) \in Nat
  BY DEF IInv, FrontiersOK
<1>2. failed[r] => applied[r] < commit[r]
  BY Zenon DEF LogInv, TermsOK
<1> QED
  BY <1>1, <1>2 DEF Upto

\* The state of a replica is continued by the state of the whole committed log.
LEMMA StateContinues ==
  ASSUME IInv, LogInv, NEW P, NEW F, Computed(P, F), NEW r \in Replicas
  PROVE  /\ Continues(sm[r], F[committed]) /\ Remembers(sm[r])
         /\ sm[r] \in States /\ F[committed] \in States
<1>1. Upto(r) \in 0..Len(committed) /\ committed \in P /\ History(P, F)
      /\ sm[r] = F[Prefix(committed, Upto(r))]
  BY UptoCommitted, Zenon DEF Computed, StateOf
<1>2. Prefix(committed, Upto(r)) \in P
  BY <1>1, Zenon DEF History
<1> QED
  BY <1>1, <1>2, Zenon DEF History, Sound

\* A step that keeps the committed log.
LEMMA SameCommitted ==
  ASSUME NEW P, NEW F, Computed(P, F), UNCHANGED committed,
         \A r \in Replicas : log'[r] \in P,
         \A r \in Replicas : sm'[r] = StateOf(F, committed, Upto(r)'),
         \A r \in Replicas : Told(F[committed], Outgoing(r)'),
         Told(F[committed], answered')
  PROVE  Computed(P, F)'
  BY Zenon DEF Computed

LEMMA HistoryInit == Init => HistoryInv
<1> SUFFICES ASSUME Init PROVE HistoryInv
  OBVIOUS
<1> DEFINE b == <<Barrier(1)>>
           P == {<< >>, b}
           F == [l \in P |-> EmptyState]
<1>1. Barrier(1) \in Entries /\ Barrier(1).env = NoEnvelope
  BY Zenon DEF Barrier, Entries
<1>2. << >> \in Seq(Entries) /\ b \in Seq(Entries) /\ Len(<< >>) = 0 /\ Len(b) = 1
      /\ b[1] = Barrier(1) /\ committed = b /\ \A r \in Replicas : log[r] = b
  BY <1>1 DEF Init
<1> HIDE DEF b
<1>3. Sound(EmptyState) /\ Remembers(EmptyState) /\ EmptyState \in States
  BY EmptySound, Zenon DEF Sound, Remembers, EmptyState
<1>4. \A l \in P : F[l] = EmptyState
  OBVIOUS
<1>5. ASSUME NEW l \in P, NEW k \in 0..Len(l) PROVE Prefix(l, k) \in P
  <2>1. CASE k = 0
    BY <1>2, <2>1, SubSeqEmpty DEF Prefix
  <2>2. CASE k # 0
    <3>1. l = b /\ k = Len(l)
      BY <1>2, <2>2
    <3> QED
      BY <1>2, <3>1, SubSeqFull, Zenon DEF Prefix
  <2> QED
    BY <2>1, <2>2, Zenon
<1> HIDE DEF F
<1>7. \A l \in P : l # << >> => F[l] = After(F[Prefix(l, Len(l) - 1)], l[Len(l)])
  <2>1. Prefix(b, 0) \in P
    BY <1>2, <1>5
  <2> QED
    BY <1>1, <1>2, <1>4, <2>1 DEF After
<1>8. History(P, F)
  <2>1. \A l \in P : \A k \in 0..Len(l) :
          Prefix(l, k) \in P /\ Continues(F[Prefix(l, k)], F[l])
    BY <1>3, <1>4, <1>5, ContinuesReflexive, Zenon
  <2>2. P \subseteq Seq(Entries) /\ << >> \in P /\ F[<< >>] = EmptyState
    BY <1>2, <1>4, Zenon
  <2>3. \A l \in P : Sound(F[l]) /\ Remembers(F[l])
    BY <1>3, <1>4, Zenon
  <2> HIDE DEF P
  <2> QED
    BY <1>7, <2>1, <2>2, <2>3, Zenon DEF History
<1>9. \A r \in Replicas : Prefix(committed, Upto(r)) \in P
  <2>1. \A r \in Replicas : Upto(r) = 1
    BY Zenon DEF Init, Upto
  <2> QED
    BY <1>2, <1>5, <2>1
<1>10. /\ committed \in P
       /\ \A r \in Replicas : log[r] \in P /\ sm[r] = StateOf(F, committed, Upto(r))
  BY <1>2, <1>4, <1>9, Zenon DEF Init, StateOf
<1>11. Told(F[committed], answered) /\ \A r \in Replicas : Told(F[committed], Outgoing(r))
  BY Zenon DEF Init, Told, Outgoing
<1> HIDE DEF P
<1> QED
  BY <1>8, <1>10, <1>11, Zenon DEF Computed, HistoryInv

\* What a turn forwards was waiting to be forwarded.
LEMMA TurnAnswers ==
  ASSUME NEW r \in Replicas, NEW reg, NEW gws, EndTurn(r, reg, gws), WaitersOK
  PROVE  /\ answered' \subseteq answered \cup Outgoing(r)
         /\ \A s \in Replicas : Outgoing(s)' \subseteq Outgoing(s)
         /\ UNCHANGED <<committed, sm, applied, failed>>
<1>1. /\ completed' = [completed EXCEPT ![r] = {}]
      /\ Answered({<<c.req, c.out>> : c \in Outcomes(r)})
      /\ UNCHANGED <<committed, sm, applied, failed>>
  BY Zenon DEF EndTurn, applyVars
<1>2. Outcomes(r) \subseteq completed[r]
  BY Zenon DEF Outcomes
<1>3. answered' = answered \cup {<<c.req, c.out>> : c \in Outcomes(r)}
  BY <1>1, Zenon DEF Answered
<1>4. {<<c.req, c.out>> : c \in Outcomes(r)} \subseteq Outgoing(r)
  BY <1>2, Zenon DEF Outgoing
<1>5. \A s \in Replicas : completed'[s] \subseteq completed[s]
  BY <1>1, Zenon DEF WaitersOK
<1>6. \A s \in Replicas : Outgoing(s)' \subseteq Outgoing(s)
  BY <1>5, Zenon DEF Outgoing
<1> QED
  BY <1>1, <1>3, <1>4, <1>6, Zenon

\* The next entry of a replica that drains is the next one of the committed log,
\* and its state is the history up to it.
LEMMA NextEntry ==
  ASSUME IInv, LogInv, NEW P, NEW F, Computed(P, F), NEW r \in Replicas, Draining(r),
         NEW k, k = applied[r] + 1, NEW e, e = log[r][k]
  PROVE  /\ k \in 1..Len(committed) /\ Upto(r) = applied[r] /\ e \in Entries
         /\ StateOf(F, committed, k) = After(sm[r], e)
         /\ Prefix(committed, k) \in P
<1>1. /\ commit[r] \in Nat /\ applied[r] \in Nat /\ commit[r] <= Len(committed)
      /\ committed \in Seq(Entries) /\ Len(committed) \in Nat
  BY DEF IInv, FrontiersOK
<1>2. ~failed[r] /\ applied[r] < commit[r]
  BY Zenon DEF Draining
<1>3. k \in 1..commit[r] /\ k \in 1..Len(committed) /\ k \in 0..Len(committed)
      /\ k - 1 = applied[r]
  BY <1>1, <1>2
<1>4. Upto(r) = applied[r]
  BY <1>2, Zenon DEF Upto
<1>5. Holds(log[r], committed, commit[r])
  BY Zenon DEF LogInv, LogOK
<1>6. e = committed[k]
  BY <1>3, <1>5, Zenon DEF Holds
<1>7. e \in Entries
  BY <1>1, <1>3, <1>6, ElementOfSeq, Zenon
<1>8. History(P, F) /\ committed \in P /\ sm[r] = StateOf(F, committed, k - 1)
  BY <1>3, <1>4, Zenon DEF Computed
<1>9. StateOf(F, committed, k) = After(sm[r], e)
  BY <1>3, <1>6, <1>8, HistoryStep DEF StateOf
<1>10. Prefix(committed, k) \in P
  BY <1>3, <1>8, Zenon DEF History
<1> QED
  BY <1>3, <1>4, <1>7, <1>9, <1>10, Zenon

\* A step of one replica, after which its state is again what its log computes.
LEMMA OneReplica ==
  ASSUME NEW P, NEW F, Computed(P, F), NEW r \in Replicas,
         UNCHANGED <<committed, answered>>, \A s \in Replicas : log'[s] \in P,
         \A s \in Replicas \ {r} : /\ applied'[s] = applied[s] /\ failed'[s] = failed[s]
                                   /\ sm'[s] = sm[s] /\ completed'[s] = completed[s],
         sm'[r] = StateOf(F, committed, Upto(r)'), Told(F[committed], Outgoing(r)')
  PROVE  HistoryInv'
<1>1. ASSUME NEW s \in Replicas
      PROVE  sm'[s] = StateOf(F, committed, Upto(s)') /\ Told(F[committed], Outgoing(s)')
  <2>1. CASE s = r
    BY <2>1, Zenon
  <2>2. CASE s # r
    <3>1. Upto(s)' = Upto(s)
      BY <2>2, Zenon DEF Upto
    <3>2. Outgoing(s)' = Outgoing(s)
      BY <2>2, Zenon DEF Outgoing
    <3>3. sm[s] = StateOf(F, committed, Upto(s)) /\ Told(F[committed], Outgoing(s))
      BY Zenon DEF Computed
    <3>4. sm'[s] = sm[s]
      BY <2>2, Zenon
    <3> QED
      BY <3>1, <3>2, <3>3, <3>4, Zenon
  <2> QED
    BY <2>1, <2>2, Zenon
<1>2. Told(F[committed], answered')
  BY Zenon DEF Computed
<1>3. Computed(P, F)'
  BY <1>1, <1>2, SameCommitted, Zenon
<1> QED
  BY <1>3, Zenon DEF HistoryInv

\* The log of a replica changes, and nothing that is computed.
LEMMA LogsOnly ==
  ASSUME NEW P, NEW F, Computed(P, F), \A s \in Replicas : log'[s] \in P,
         UNCHANGED <<committed, applied, failed, sm, completed, answered>>
  PROVE  HistoryInv'
<1>1. ASSUME NEW s \in Replicas
      PROVE  sm'[s] = StateOf(F, committed, Upto(s)') /\ Told(F[committed], Outgoing(s)')
  <2>1. Upto(s)' = Upto(s) /\ Outgoing(s)' = Outgoing(s) /\ sm'[s] = sm[s]
    BY Zenon DEF Upto, Outgoing
  <2>2. sm[s] = StateOf(F, committed, Upto(s)) /\ Told(F[committed], Outgoing(s))
    BY Zenon DEF Computed
  <2> QED
    BY <2>1, <2>2, Zenon
<1>2. Told(F[committed], answered')
  BY Zenon DEF Computed
<1>3. Computed(P, F)'
  BY <1>1, <1>2, SameCommitted, Zenon
<1> QED
  BY <1>3, Zenon DEF HistoryInv

\* The committed log grows to a longer prefix of the log of the leader.
LEMMA CommitHistory ==
  ASSUME IInv, LogInv, NEW P, NEW F, Computed(P, F), NEW r \in Replicas, AdvanceCommit(r)
  PROVE  HistoryInv'
<1>0. /\ History(P, F) /\ committed \in P /\ committed \in Seq(Entries) /\ Len(committed) \in Nat
      /\ log[r] \in P /\ log[r] \in Seq(Entries) /\ Len(log[r]) \in Nat
  BY DEF Computed, IInv, FrontiersOK
<1>1. \A l \in P : \A k \in 0..Len(l) : Prefix(l, k) \in P
  BY <1>0, Zenon DEF History
<1>2. PICK i \in (Len(committed) + 1)..Len(log[r]) : committed' = SubSeq(log[r], 1, i)
  BY Zenon DEF AdvanceCommit
<1>3. i \in 0..Len(log[r]) /\ Len(committed) \in 0..i /\ Len(committed) \in 0..Len(log[r])
  BY <1>0
<1>4. committed' = Prefix(log[r], i)
  BY <1>2, Zenon DEF Prefix
<1>5. committed' \in P
  BY <1>0, <1>1, <1>3, <1>4, Zenon
<1>6. UNCHANGED <<log, applied, failed, sm, completed, answered>>
  BY Zenon DEF AdvanceCommit, applyVars, runtimeVars, clientVars
<1>7. Holds(log[r], committed, Len(committed))
  BY Zenon DEF AdvanceCommit, Newest, LogInv, LogOK
<1>8. ASSUME NEW k \in 0..Len(committed) PROVE Prefix(committed', k) = Prefix(committed, k)
  <2>1. k \in Nat /\ k <= Len(log[r]) /\ k <= Len(committed) /\ k \in 0..i
    BY <1>0, <1>3
  <2>2. \A j \in 1..k : log[r][j] = committed[j]
    BY <1>0, <1>7, <2>1 DEF Holds
  <2>3. Prefix(log[r], k) = Prefix(committed, k)
    BY <1>0, <2>1, <2>2, SamePrefix, Zenon
  <2>4. Prefix(Prefix(log[r], i), k) = Prefix(log[r], k)
    BY <1>0, <1>3, <2>1, PrefixOfPrefix, Zenon
  <2> QED
    BY <1>4, <2>3, <2>4, Zenon
<1>9. Len(committed') = i
  BY <1>0, <1>2, <1>3, PrefixOfLog, Zenon
<1>10. Prefix(committed', Len(committed)) = committed
  BY <1>0, <1>8, SubSeqFull DEF Prefix
<1>11. Continues(F[committed], F[committed'])
  <2>1. Len(committed) \in 0..Len(committed')
    BY <1>3, <1>9, Zenon
  <2>2. Continues(F[Prefix(committed', Len(committed))], F[committed'])
    BY <1>0, <1>5, <2>1, Zenon DEF History
  <2> QED
    BY <1>10, <2>2, Zenon
<1>12. F[committed] \in States /\ F[committed'] \in States
  BY <1>0, <1>5, Zenon DEF History, Sound
<1>13. ASSUME NEW S, Told(F[committed], S) PROVE Told(F[committed'], S)
  BY <1>11, <1>12, <1>13, KnownContinues, Zenon DEF Told
<1>14. ASSUME NEW s \in Replicas
       PROVE  /\ log'[s] \in P /\ sm'[s] = StateOf(F, committed', Upto(s)')
              /\ Told(F[committed'], Outgoing(s)')
  <2>1. Upto(s)' = Upto(s) /\ Outgoing(s)' = Outgoing(s) /\ sm'[s] = sm[s] /\ log'[s] = log[s]
    BY <1>6, Zenon DEF Upto, Outgoing
  <2>2. /\ log[s] \in P /\ sm[s] = StateOf(F, committed, Upto(s))
        /\ Told(F[committed], Outgoing(s))
    BY Zenon DEF Computed
  <2>3. Prefix(committed', Upto(s)) = Prefix(committed, Upto(s))
    BY <1>8, UptoCommitted, Zenon
  <2>4. StateOf(F, committed', Upto(s)) = StateOf(F, committed, Upto(s))
    BY <2>3, Zenon DEF StateOf
  <2> QED
    BY <1>13, <2>1, <2>2, <2>4, Zenon
<1>15. Told(F[committed'], answered')
  <2>1. Told(F[committed], answered) /\ answered' = answered
    BY <1>6, Zenon DEF Computed
  <2> QED
    BY <1>13, <2>1, Zenon
<1>16. Computed(P, F)'
  BY <1>0, <1>5, <1>14, <1>15, Zenon DEF Computed
<1> QED
  BY <1>16, Zenon DEF HistoryInv

\* The end of a turn, with a history that covers the logs after it.
LEMMA TurnHistory ==
  ASSUME WaitersOK, NEW P, NEW F, Computed(P, F), NEW r \in Replicas, NEW reg, NEW gws,
         EndTurn(r, reg, gws), \A s \in Replicas : log'[s] \in P
  PROVE  HistoryInv'
<1>1. /\ answered' \subseteq answered \cup Outgoing(r)
      /\ \A s \in Replicas : Outgoing(s)' \subseteq Outgoing(s)
      /\ UNCHANGED <<committed, sm, applied, failed>>
  BY TurnAnswers, Zenon
<1>2. ASSUME NEW s \in Replicas
      PROVE  Told(F[committed], Outgoing(s)) /\ sm[s] = StateOf(F, committed, Upto(s))
  BY Zenon DEF Computed
<1>3. Told(F[committed], answered')
  <2>1. Told(F[committed], answered)
    BY Zenon DEF Computed
  <2> QED
    BY <1>1, <1>2, <2>1, Zenon DEF Told
<1>4. ASSUME NEW s \in Replicas
      PROVE  Told(F[committed], Outgoing(s)') /\ sm'[s] = StateOf(F, committed, Upto(s)')
  <2>1. Told(F[committed], Outgoing(s)')
    BY <1>1, <1>2, Zenon DEF Told
  <2>2. Upto(s)' = Upto(s) /\ sm'[s] = sm[s]
    BY <1>1, Zenon DEF Upto
  <2> QED
    BY <1>2, <2>1, <2>2, Zenon
<1>5. Computed(P, F)'
  BY <1>1, <1>3, <1>4, SameCommitted, Zenon
<1> QED
  BY <1>5, Zenon DEF HistoryInv

\* A turn that appends an entry.
LEMMA ProposalHistory ==
  ASSUME IInv, LogInv, NEW P, NEW F, Computed(P, F), NEW r \in Replicas, NEW e \in Entries,
         NEW reg, NEW gws, EndTurn(r, reg, gws), log' = [log EXCEPT ![r] = Append(@, e)]
  PROVE  HistoryInv'
<1>1. History(P, F) /\ \A s \in Replicas : log[s] \in P
  BY Zenon DEF Computed
<1>2. PICK Q, G : /\ History(Q, G) /\ Append(log[r], e) \in Q
                  /\ \A m \in P : m \in Q /\ G[m] = F[m]
  BY <1>1, ExtendHistory
<1>3. ASSUME NEW s \in Replicas
      PROVE  log[s] \in Q /\ sm[s] = StateOf(G, committed, Upto(s))
             /\ Told(G[committed], Outgoing(s))
  <2>1. /\ log[s] \in P /\ sm[s] = StateOf(F, committed, Upto(s))
        /\ Told(F[committed], Outgoing(s)) /\ committed \in P
    BY Zenon DEF Computed
  <2>2. Prefix(committed, Upto(s)) \in P
    BY <1>1, <2>1, UptoCommitted, Zenon DEF History
  <2>3. StateOf(G, committed, Upto(s)) = StateOf(F, committed, Upto(s))
    BY <1>2, <2>2, Zenon DEF StateOf
  <2> QED
    BY <1>2, <2>1, <2>3, Zenon
<1>4. committed \in Q /\ Told(G[committed], answered)
  <2>1. committed \in P /\ Told(F[committed], answered)
    BY Zenon DEF Computed
  <2> QED
    BY <1>2, <2>1, Zenon
<1>5. Computed(Q, G)
  BY <1>2, <1>3, <1>4, Zenon DEF Computed
<1>6. ASSUME NEW s \in Replicas PROVE log'[s] \in Q
  <2>1. log'[s] = IF s = r THEN Append(log[r], e) ELSE log[s]
    BY Zenon DEF IInv, FrontiersOK
  <2> QED
    BY <1>2, <1>3, <2>1, Zenon
<1>7. WaitersOK
  BY Zenon DEF IInv
<1> QED
  BY <1>5, <1>6, <1>7, TurnHistory, Zenon

\* A committed command changes the state as the history says, and what its
\* waiter is told is known to the state of the whole committed log.
LEMMA CommandHistory ==
  ASSUME IInv, LogInv, NEW P, NEW F, Computed(P, F), NEW r \in Replicas, ApplyCommand(r)
  PROVE  HistoryInv'
<1>1. PICK k : k = applied[r] + 1
  BY Zenon
<1>2. PICK e : e = log[r][k]
  BY Zenon
<1>3. PICK d : d = Apply(sm[r], e.env)
  BY Zenon
<1>4. Draining(r) /\ e.env # NoEnvelope
  BY <1>1, <1>2, Zenon DEF ApplyCommand
<1>5. /\ applied' = [applied EXCEPT ![r] = @ + 1] /\ sm' = [sm EXCEPT ![r] = d.sm]
      /\ UNCHANGED <<committed, log, failed, answered>>
  BY <1>1, <1>2, <1>3, Zenon DEF ApplyCommand, Drained, raftVars, clientVars
<1>6. PICK entry : entry = registry[r][e.env.req]
  BY Zenon
<1>7. PICK new : new = [gateway |-> entry.gateway, req |-> e.env.req, out |-> d.out]
  BY Zenon
<1>8. completed' = [completed EXCEPT ![r] = IF entry.live THEN @ \cup {new} ELSE @]
  BY <1>1, <1>2, <1>3, <1>6, <1>7, Zenon DEF ApplyCommand
<1>9. /\ k \in 1..Len(committed) /\ Upto(r) = applied[r] /\ e \in Entries
      /\ StateOf(F, committed, k) = After(sm[r], e) /\ Prefix(committed, k) \in P
  BY <1>1, <1>2, <1>4, NextEntry
<1>10. e.env \in Envelopes
  BY <1>4, <1>9, Zenon DEF Entries
<1>11. StateOf(F, committed, k) = d.sm
  BY <1>3, <1>4, <1>9, Zenon DEF After
<1>12. Sound(sm[r]) /\ Remembers(sm[r]) /\ F[committed] \in States
  BY StateContinues, Zenon DEF IInv, StatesOK
<1>13. Definite(d.out) => Known(d.sm, e.env.req, d.out)
  BY <1>3, <1>10, <1>12, ApplyRemembers, Zenon
<1>14. History(P, F) /\ committed \in P /\ Len(committed) \in Nat
  BY DEF Computed, IInv, FrontiersOK
<1>15. k \in 0..Len(committed)
  BY <1>9, <1>14
<1>16. Continues(d.sm, F[committed]) /\ d.sm \in States
  BY <1>9, <1>11, <1>14, <1>15, Zenon DEF History, Sound, StateOf
<1>17. Definite(d.out) => Known(F[committed], e.env.req, d.out)
  BY <1>12, <1>13, <1>16, KnownContinues, Zenon
<1>18. new.req = e.env.req /\ new.out = d.out
  BY <1>7, Zenon
<1>19. Told(F[committed], Outgoing(r)')
  <2>1. completed'[r] \subseteq completed[r] \cup {new}
    BY <1>8, Zenon DEF IInv, WaitersOK
  <2>2. Outgoing(r)' \subseteq Outgoing(r) \cup {<<new.req, new.out>>}
    BY <2>1, Zenon DEF Outgoing
  <2>3. Told(F[committed], Outgoing(r))
    BY Zenon DEF Computed
  <2>4. Told(F[committed], {<<new.req, new.out>>})
    BY <1>17, <1>18 DEF Told
  <2> QED
    BY <2>2, <2>3, <2>4, Zenon DEF Told
<1>20. failed'[r] = failed[r] /\ ~failed[r] /\ applied'[r] = k /\ sm'[r] = d.sm
  BY <1>1, <1>4, <1>5, Zenon DEF Draining, IInv, FrontiersOK, StatesOK
<1>21. sm'[r] = StateOf(F, committed, Upto(r)')
  BY <1>11, <1>20, Zenon DEF Upto
<1>22. \A s \in Replicas \ {r} : /\ applied'[s] = applied[s] /\ failed'[s] = failed[s]
                                 /\ sm'[s] = sm[s] /\ completed'[s] = completed[s]
  BY <1>5, <1>8, Zenon DEF IInv, FrontiersOK, StatesOK, WaitersOK
<1>23. \A s \in Replicas : log'[s] \in P
  BY <1>5, Zenon DEF Computed
<1> QED
  BY <1>5, <1>19, <1>21, <1>22, <1>23, OneReplica, Zenon

\* The state machine has changed when the waiter turns out not to match.
LEMMA MismatchHistory ==
  ASSUME IInv, LogInv, NEW P, NEW F, Computed(P, F), NEW r \in Replicas, ApplyMismatch(r)
  PROVE  HistoryInv'
<1>1. PICK k : k = applied[r] + 1
  BY Zenon
<1>2. PICK e : e = log[r][k]
  BY Zenon
<1>3. Draining(r) /\ e.env # NoEnvelope
  BY <1>1, <1>2, Zenon DEF ApplyMismatch
<1>4. /\ failed' = [failed EXCEPT ![r] = TRUE] /\ sm' = [sm EXCEPT ![r] = Apply(sm[r], e.env).sm]
      /\ UNCHANGED <<committed, log, applied, completed, answered>>
  BY <1>1, <1>2, Zenon DEF ApplyMismatch, raftVars, runtimeVars, clientVars
<1>5. StateOf(F, committed, k) = After(sm[r], e)
  BY <1>1, <1>2, <1>3, NextEntry
<1>6. failed'[r] /\ applied'[r] + 1 = k /\ sm'[r] = Apply(sm[r], e.env).sm
  BY <1>1, <1>4, Zenon DEF IInv, StatesOK, LogInv, LogTypes
<1>7. sm'[r] = StateOf(F, committed, Upto(r)')
  BY <1>3, <1>5, <1>6, Zenon DEF After, Upto
<1>8. \A s \in Replicas \ {r} : /\ applied'[s] = applied[s] /\ failed'[s] = failed[s]
                                /\ sm'[s] = sm[s] /\ completed'[s] = completed[s]
  BY <1>4, Zenon DEF IInv, StatesOK, LogInv, LogTypes
<1>9. Told(F[committed], Outgoing(r)')
  <2>1. Outgoing(r)' = Outgoing(r)
    BY <1>4, Zenon DEF Outgoing
  <2> QED
    BY <2>1, Zenon DEF Computed
<1>10. \A s \in Replicas : log'[s] \in P
  BY <1>4, Zenon DEF Computed
<1> QED
  BY <1>4, <1>7, <1>8, <1>9, <1>10, OneReplica, Zenon

\* A barrier changes no state.
LEMMA BarrierHistory ==
  ASSUME IInv, LogInv, NEW P, NEW F, Computed(P, F), NEW r \in Replicas, ApplyBarrier(r)
  PROVE  HistoryInv'
<1>1. PICK k : k = applied[r] + 1
  BY Zenon
<1>2. PICK e : e = log[r][k]
  BY Zenon
<1>3. Draining(r) /\ e.env = NoEnvelope
  BY <1>1, <1>2, Zenon DEF ApplyBarrier
<1>4. /\ applied' = [applied EXCEPT ![r] = @ + 1]
      /\ UNCHANGED <<committed, log, sm, completed, failed, answered>>
  BY Zenon DEF ApplyBarrier, Drained, raftVars, clientVars
<1>5. StateOf(F, committed, k) = After(sm[r], e)
  BY <1>1, <1>2, <1>3, NextEntry
<1>6. ~failed'[r] /\ applied'[r] = k /\ sm'[r] = sm[r]
  BY <1>1, <1>3, <1>4, Zenon DEF Draining, IInv, FrontiersOK
<1>7. sm'[r] = StateOf(F, committed, Upto(r)')
  BY <1>3, <1>5, <1>6, Zenon DEF After, Upto
<1>8. \A s \in Replicas \ {r} : /\ applied'[s] = applied[s] /\ failed'[s] = failed[s]
                                /\ sm'[s] = sm[s] /\ completed'[s] = completed[s]
  BY <1>4, Zenon DEF IInv, FrontiersOK
<1>9. Told(F[committed], Outgoing(r)')
  <2>1. Outgoing(r)' = Outgoing(r)
    BY <1>4, Zenon DEF Outgoing
  <2> QED
    BY <2>1, Zenon DEF Computed
<1>10. \A s \in Replicas : log'[s] \in P
  BY <1>4, Zenon DEF Computed
<1> QED
  BY <1>4, <1>7, <1>8, <1>9, <1>10, OneReplica, Zenon

\* A snapshot carries the state of the leader with its log.
LEMMA SnapshotHistory ==
  ASSUME IInv, LogInv, NEW P, NEW F, Computed(P, F), NEW r \in Replicas, NEW l \in Replicas,
         InstallSnapshot(r, l)
  PROVE  HistoryInv'
<1>1. /\ log' = [log EXCEPT ![r] = SubSeq(log[l], 1, applied[l])]
      /\ applied' = [applied EXCEPT ![r] = applied[l]]
      /\ sm' = [sm EXCEPT ![r] = Restored(sm[l])]
      /\ UNCHANGED <<committed, completed, failed, answered>> /\ ~failed[r] /\ ~failed[l]
  BY Zenon DEF InstallSnapshot, Ready, clientVars
<1>2. \A s \in Replicas : log[s] \in P
  BY Zenon DEF Computed
<1>3. Prefix(log[l], applied[l]) \in P
  <2>1. applied[l] \in 0..Len(log[l])
    BY DEF IInv, FrontiersOK
  <2> QED
    BY <1>2, <2>1, Zenon DEF Computed, History
<1>4. ASSUME NEW s \in Replicas PROVE log'[s] \in P
  <2>1. log'[s] = IF s = r THEN SubSeq(log[l], 1, applied[l]) ELSE log[s]
    BY <1>1, Zenon DEF IInv, FrontiersOK
  <2> QED
    BY <1>2, <1>3, <2>1, Zenon DEF Prefix
<1>5. Restored(sm[l]) = sm[l]
  <2>1. sm[l] \in States
    BY Zenon DEF IInv, StatesOK, Sound
  <2> QED
    BY <2>1, Zenon DEF States, Restored
<1>6. applied'[r] = applied[l] /\ ~failed'[r] /\ sm'[r] = sm[l]
  BY <1>1, <1>5, Zenon DEF IInv, FrontiersOK, StatesOK
<1>7. sm[l] = StateOf(F, committed, Upto(l))
  BY Zenon DEF Computed
<1>8. Upto(r)' = Upto(l)
  BY <1>1, <1>6, Zenon DEF Upto
<1>9. sm'[r] = StateOf(F, committed, Upto(r)')
  BY <1>6, <1>7, <1>8, Zenon
<1>10. \A s \in Replicas \ {r} : /\ applied'[s] = applied[s] /\ failed'[s] = failed[s]
                                 /\ sm'[s] = sm[s] /\ completed'[s] = completed[s]
  BY <1>1, Zenon DEF IInv, FrontiersOK, StatesOK
<1>11. Told(F[committed], Outgoing(r)')
  <2>1. Outgoing(r)' = Outgoing(r)
    BY <1>1, Zenon DEF Outgoing
  <2> QED
    BY <2>1, Zenon DEF Computed
<1> QED
  BY <1>1, <1>4, <1>9, <1>10, <1>11, OneReplica, Zenon

\* A restarted replica begins with the empty state and the empty log.
LEMMA RestartHistory ==
  ASSUME IInv, LogInv, NEW P, NEW F, Computed(P, F), NEW r \in Replicas, Restart(r)
  PROVE  HistoryInv'
<1>1. /\ applied' = [applied EXCEPT ![r] = 0] /\ sm' = [sm EXCEPT ![r] = EmptyState]
      /\ completed' = [completed EXCEPT ![r] = {}] /\ failed' = [failed EXCEPT ![r] = FALSE]
      /\ UNCHANGED <<committed, log, answered>>
  BY Zenon DEF Restart
<1>2. StateOf(F, committed, 0) = EmptyState
  <2>1. committed \in Seq(Entries)
    BY Zenon DEF IInv, FrontiersOK
  <2>2. Prefix(committed, 0) = << >>
    BY <2>1, SubSeqEmpty DEF Prefix
  <2> QED
    BY <2>2, Zenon DEF Computed, History, StateOf
<1>3. applied'[r] = 0 /\ ~failed'[r] /\ sm'[r] = EmptyState /\ completed'[r] = {}
  BY <1>1, Zenon DEF IInv, FrontiersOK, StatesOK, WaitersOK, LogInv, LogTypes
<1>4. sm'[r] = StateOf(F, committed, Upto(r)')
  BY <1>2, <1>3, Zenon DEF Upto
<1>5. \A s \in Replicas \ {r} : /\ applied'[s] = applied[s] /\ failed'[s] = failed[s]
                                /\ sm'[s] = sm[s] /\ completed'[s] = completed[s]
  BY <1>1, Zenon DEF IInv, FrontiersOK, StatesOK, WaitersOK, LogInv, LogTypes
<1>6. Told(F[committed], Outgoing(r)')
  BY <1>3, Zenon DEF Told, Outgoing
<1>7. \A s \in Replicas : log'[s] \in P
  BY <1>1, Zenon DEF Computed
<1> QED
  BY <1>1, <1>4, <1>5, <1>6, <1>7, OneReplica, Zenon

\* An outcome query answers with a cached outcome.
LEMMA QueryHistory ==
  ASSUME IInv, LogInv, NEW P, NEW F, Computed(P, F), NEW g \in Gateways, NEW r \in Replicas,
         QueryOutcome(g, r)
  PROVE  HistoryInv'
<1>1. PICK q : q = gw[g].req
  BY Zenon
<1>2. PICK out : out = sm[r].outcome[q]
  BY Zenon
<1>3. gw[g] # Idle /\ UNCHANGED <<committed, log, applied, failed, sm, completed>>
  BY Zenon DEF QueryOutcome, raftVars, applyVars, runtimeVars
<1>4. answered' = answered \cup (IF out = NoOutcome THEN {} ELSE {<<q, out>>})
  BY <1>1, <1>2, Zenon DEF QueryOutcome, Answered
<1>5. q \in Requests
  <2>1. gw[g] \in Sent
    BY <1>3, Zenon DEF IInv, WaitersOK
  <2> QED
    BY <1>1, <2>1, Zenon DEF Sent
<1>6. /\ Continues(sm[r], F[committed]) /\ Remembers(sm[r])
      /\ sm[r] \in States /\ F[committed] \in States
  BY StateContinues, Zenon
<1>7. out # NoOutcome => Known(sm[r], q, out)
  BY <1>2, <1>5, <1>6, Zenon DEF Remembers
<1>8. out # NoOutcome => Known(F[committed], q, out)
  BY <1>6, <1>7, KnownContinues, Zenon
<1>9. Told(F[committed], answered')
  <2>1. Told(F[committed], answered)
    BY Zenon DEF Computed
  <2> QED
    BY <1>4, <1>8, <2>1 DEF Told
<1>10. ASSUME NEW s \in Replicas
       PROVE  /\ log'[s] \in P /\ sm'[s] = StateOf(F, committed, Upto(s)')
              /\ Told(F[committed], Outgoing(s)')
  <2>1. Upto(s)' = Upto(s) /\ Outgoing(s)' = Outgoing(s) /\ sm'[s] = sm[s] /\ log'[s] = log[s]
    BY <1>3, Zenon DEF Upto, Outgoing
  <2>2. /\ log[s] \in P /\ sm[s] = StateOf(F, committed, Upto(s))
        /\ Told(F[committed], Outgoing(s))
    BY Zenon DEF Computed
  <2> QED
    BY <2>1, <2>2, Zenon
<1>11. Computed(P, F)'
  BY <1>3, <1>9, <1>10, SameCommitted, Zenon
<1> QED
  BY <1>11, Zenon DEF HistoryInv

LEMMA ComputedStep ==
  ASSUME IInv, LogInv, [Next]_vars, NEW P, NEW F, Computed(P, F)
  PROVE  HistoryInv'
<1>1. \A s \in Replicas : log[s] \in P
  BY Zenon DEF Computed
<1>2. \A l \in P : \A k \in 0..Len(l) : Prefix(l, k) \in P
  BY Zenon DEF Computed, History
<1>3. ASSUME NEW r \in Replicas, Elect(r) PROVE HistoryInv'
  <2>1. PICK l \in Seq(Entries) :
           /\ log' = [log EXCEPT ![r] = l]
           /\ \/ l = committed
              \/ \E s \in Replicas : \E k \in 0..Len(log[s]) : l = SubSeq(log[s], 1, k)
    BY <1>3, ElectedLog, Zenon
  <2>2. l \in P
    BY <1>1, <1>2, <2>1, Zenon DEF Prefix, Computed
  <2>3. ASSUME NEW s \in Replicas PROVE log'[s] = IF s = r THEN l ELSE log[s]
    BY <2>1, Zenon DEF IInv, FrontiersOK
  <2>4. UNCHANGED <<committed, applied, failed, sm, completed, answered>>
    BY <1>3, Zenon DEF Elect, applyVars, runtimeVars, clientVars
  <2> QED
    BY <1>1, <2>2, <2>3, <2>4, LogsOnly, Zenon
<1>4. ASSUME NEW r \in Replicas, StepDown(r) PROVE HistoryInv'
  <2>1. UNCHANGED <<log, committed, applied, failed, sm, completed, answered>>
    BY <1>4, Zenon DEF StepDown, applyVars, runtimeVars, clientVars
  <2> QED
    BY <1>1, <2>1, LogsOnly, Zenon
<1>5. ASSUME NEW r \in Replicas, AppendEntries(r) PROVE HistoryInv'
  <2>1. PICK i \in (commit[r] + 1)..Len(committed) :
          log' = [log EXCEPT ![r] = SubSeq(committed, 1, i)]
    BY <1>5, Zenon DEF AppendEntries
  <2>2. i \in 0..Len(committed)
    BY <2>1 DEF IInv, FrontiersOK
  <2>3. SubSeq(committed, 1, i) \in P
    BY <1>2, <2>2, Zenon DEF Prefix, Computed
  <2>4. ASSUME NEW s \in Replicas
        PROVE  log'[s] = IF s = r THEN SubSeq(committed, 1, i) ELSE log[s]
    BY <2>1, Zenon DEF IInv, FrontiersOK
  <2>5. UNCHANGED <<committed, applied, failed, sm, completed, answered>>
    BY <1>5, Zenon DEF AppendEntries, applyVars, runtimeVars, clientVars
  <2> QED
    BY <1>1, <2>3, <2>4, <2>5, LogsOnly, Zenon
<1>6. ASSUME NEW r \in Replicas, FinishTurn(r) PROVE HistoryInv'
  <2>1. UNCHANGED log /\ EndTurn(r, registry[r], gw) /\ WaitersOK
    BY <1>6, Zenon DEF FinishTurn, IInv
  <2> QED
    BY <1>1, <2>1, TurnHistory, Zenon
<1>7. ASSUME NEW r \in Replicas, StartTerm(r) PROVE HistoryInv'
  <2>1. Barrier(term[r]) \in Entries
    BY Zenon DEF Barrier, Entries, IInv, FrontiersOK
  <2> QED
    BY <1>7, <2>1, ProposalHistory, Zenon DEF StartTerm
<1>8. ASSUME NEW r \in Replicas, NEW g \in Gateways, Admit(r, g) PROVE HistoryInv'
  <2>1. gw[g] \in Sent
    BY <1>8 DEF Admit, Admissible, IInv, WaitersOK, Idle
  <2>2. Proposed(r, g) \in Entries
    <3>1. term[r] \in Nat /\ gw[g].req \in Requests /\ gw[g].ack \in Acks
      BY <2>1, Zenon DEF Sent, IInv, FrontiersOK
    <3> QED
      BY <3>1, Zenon DEF Proposed, Entries, Envelopes
  <2> QED
    BY <1>8, <2>2, ProposalHistory, Zenon DEF Admit
<1>9. ASSUME NEW g \in Gateways, NEW c \in Clients, Submit(g, c) PROVE HistoryInv'
  <2>1. UNCHANGED <<log, committed, applied, failed, sm, completed, answered>>
    BY <1>9, Zenon DEF Submit, raftVars, applyVars, runtimeVars
  <2> QED
    BY <1>1, <2>1, LogsOnly, Zenon
<1>10. ASSUME NEW g \in Gateways, OutcomeUnknown(g) PROVE HistoryInv'
  <2>1. UNCHANGED <<log, committed, applied, failed, sm, completed, answered>>
    BY <1>10, Zenon DEF OutcomeUnknown, raftVars, applyVars, runtimeVars
  <2> QED
    BY <1>1, <2>1, LogsOnly, Zenon
<1>11. CASE UNCHANGED vars
  <2>1. UNCHANGED <<log, committed, applied, failed, sm, completed, answered>>
    BY <1>11, Zenon DEF vars, raftVars, applyVars, runtimeVars, clientVars
  <2> QED
    BY <1>1, <2>1, LogsOnly, Zenon
<1> QED
  BY <1>3, <1>4, <1>5, <1>6, <1>7, <1>8, <1>9, <1>10, <1>11, CommitHistory, BarrierHistory,
     CommandHistory, MismatchHistory, SnapshotHistory, RestartHistory, QueryHistory, Zenon
     DEF Next

LEMMA HistoryPreserved == IInv /\ LogInv /\ HistoryInv /\ [Next]_vars => HistoryInv'
  BY ComputedStep, Zenon DEF HistoryInv

\* The three parts of the inductive invariant together.
LEMMA AgreementInvariant == Spec => [](IInv /\ LogInv /\ HistoryInv)
<1>1. Init => IInv /\ LogInv /\ HistoryInv
  BY InitInv, LogInit, HistoryInit, Zenon
<1>2. IInv /\ LogInv /\ HistoryInv /\ [Next]_vars => (IInv /\ LogInv /\ HistoryInv)'
  BY Inductive, LogStep, HistoryPreserved, Zenon
<1> QED
  BY <1>1, <1>2, PTL DEF Spec

(***************************************************************************)
(* Results                                                                 *)
(***************************************************************************)

\* Replicas that have applied the same number of entries hold the same state,
\* whether they applied them, got them as a snapshot or replayed them after a
\* restart (`apply_committed_entry`, `restore_from_snapshot`).
THEOREM EqualFrontiersEqualStates == Spec => []ReplicasAgree
<1>1. ASSUME NEW P, NEW F, Computed(P, F) PROVE ReplicasAgree
  BY <1>1, Zenon DEF Computed, ReplicasAgree, Ready, Upto
<1>2. HistoryInv => ReplicasAgree
  BY <1>1, Zenon DEF HistoryInv
<1> QED
  BY <1>2, AgreementInvariant, PTL

\* What a gateway answered for a command is the outcome of its only execution,
\* on every replica that has executed it, whichever leader answered and whether
\* the answer came from a waiter or from an outcome query
\* (`publish_committed_command`, `query_original_outcome`).
THEOREM AnswersAreOriginal == Spec => []AnswerIsOriginal
<1>1. ASSUME IInv, LogInv, NEW P, NEW F, Computed(P, F),
             NEW a \in answered, a[2].kind \in {"applied", "rejected"},
             NEW r \in Replicas, NEW i \in 1..Len(sm[r].executed), sm[r].executed[i].req = a[1]
      PROVE  sm[r].executed[i].out = a[2]
  <2> DEFINE S == F[committed]
  <2>1. Continues(sm[r], S) /\ sm[r] \in States /\ S \in States /\ ExecutedOnce(S)
    BY <1>1, StateContinues, Zenon DEF Computed, History, Sound
  <2>2. Known(S, a[1], a[2])
    BY <1>1, Zenon DEF Computed, Told, Definite
  <2> HIDE DEF S
  <2>3. PICK j \in 1..Len(S.executed) : S.executed[j] = [req |-> a[1], out |-> a[2]]
    BY <2>2, Zenon DEF Known
  <2>4. Len(sm[r].executed) \in Nat /\ Len(S.executed) \in Nat
    BY <2>1 DEF States
  <2>5. i \in 1..Len(S.executed) /\ S.executed[i] = sm[r].executed[i]
    BY <1>1, <2>1, <2>4 DEF Continues
  <2>6. S.executed[i].req = S.executed[j].req /\ S.executed[j].out = a[2]
    <3>1. S.executed[i].req = a[1]
      BY <1>1, <2>5, Zenon
    <3>2. S.executed[j].req = a[1] /\ S.executed[j].out = a[2]
      BY <2>3
    <3> QED
      BY <3>1, <3>2, Zenon
  <2>7. i = j
    BY <2>1, <2>3, <2>5, <2>6, Zenon DEF ExecutedOnce
  <2> QED
    BY <2>5, <2>6, <2>7, Zenon
<1>2. IInv /\ LogInv /\ HistoryInv => AnswerIsOriginal
  BY <1>1, Zenon DEF HistoryInv, AnswerIsOriginal
<1> QED
  BY <1>2, AgreementInvariant, PTL

\* A serving leader of the newest term has applied every command that was ever
\* answered: its barrier lies beyond all that earlier terms committed
\* (`refresh_leader_activation`, `serving_leader`).
THEOREM LeadersKnowAnswers == Spec => []ServingLeaderKnowsAnswers
<1>1. ASSUME IInv, LogInv, NEW P, NEW F, Computed(P, F), NEW r \in Replicas, NEW a \in answered,
             Serving(r), Ready(r), term[r] = epoch, a[2].kind \in {"applied", "rejected"}
      PROVE  \E i \in 1..Len(sm[r].executed) : sm[r].executed[i].req = a[1]
  <2>1. /\ committed \in Seq(Entries) /\ Len(committed) \in Nat
        /\ applied[r] \in Nat /\ commit[r] \in Nat /\ commit[r] <= Len(committed)
        /\ activation[r].index \in Nat
    BY <1>1 DEF IInv, FrontiersOK, LogInv, LogTypes
  <2>2. commit[r] = Len(committed)
    BY <1>1, <2>1 DEF LogInv, LeaderOK, Newest, Serving, Ready
  <2>3. Upto(r) = Len(committed)
    BY <1>1, <2>2, Zenon DEF Ready, Upto
  <2>4. sm[r] = F[committed]
    BY <1>1, <2>1, <2>3, SubSeqFull, Zenon DEF Computed, StateOf, Prefix
  <2>5. Known(sm[r], a[1], a[2])
    BY <1>1, <2>4, Zenon DEF Computed, Told, Definite
  <2> QED
    BY <2>5 DEF Known
<1>2. IInv /\ LogInv /\ HistoryInv => ServingLeaderKnowsAnswers
  BY <1>1, Zenon DEF HistoryInv, ServingLeaderKnowsAnswers
<1> QED
  BY <1>2, AgreementInvariant, PTL

(***************************************************************************)
(* A session acknowledges what it was answered, and goes on only when it   *)
(* was.  So no envelope anywhere acknowledges its own request or is ahead  *)
(* of its session, and no floor has reached the request a session waits    *)
(* for.  These are relations with the requests cu the sessions wait for,   *)
(* of the committed log c, the logs l, the states s, the completions d and *)
(* the gateways w.                                                         *)
(***************************************************************************)
Refusals == {"expired", "regressed"}

Timely(env, cu) ==
    /\ env.req.sequence <= cu[env.req.client]
    /\ env.ack = None \/ env.ack = env.req.sequence - 1

TimelyLog(l, cu) == \A i \in 1..Len(l) : l[i].env # NoEnvelope => Timely(l[i].env, cu)

TimelyState(s, cu) ==
    /\ \A c \in Clients : s.floor[c] < cu[c]
    /\ \A q \in Requests : s.outcome[q].kind \notin Refusals

TimelyAnswer(q, out, cu) == out.kind \in Refusals => q.sequence < cu[q.client]

Live(cu, c, l, s, d, w) ==
    /\ TimelyLog(c, cu)
    /\ \A r \in Replicas : /\ TimelyLog(l[r], cu) /\ TimelyState(s[r], cu)
                           /\ \A x \in d[r] : TimelyAnswer(x.req, x.out, cu)
    /\ \A g \in Gateways : w[g] # Idle => Timely(w[g], cu)

LiveInv == Live(cur, committed, log, sm, completed, gw)

Waited == [Clients -> 1..(MaxSequence + 1)]

\* A state machine that starts has no floor.
LEMMA EmptyTimely ==
  ASSUME NEW cu \in Waited
  PROVE  TimelyState(EmptyState, cu)
<1>1. \A c \in Clients : EmptyState.floor[c] = -1 /\ cu[c] \in 1..(MaxSequence + 1)
  BY Zenon DEF EmptyState, None, Waited
<1>2. ASSUME NEW c \in Clients PROVE EmptyState.floor[c] < cu[c]
  BY <1>1, DedupAssumption
<1>3. \A q \in Requests : EmptyState.outcome[q].kind = "none"
  BY Zenon DEF EmptyState, NoOutcome, Answer
<1> QED
  BY <1>2, <1>3 DEF TimelyState, Refusals

LEMMA LiveInit == Init => LiveInv
<1> SUFFICES ASSUME Init PROVE LiveInv
  OBVIOUS
<1>1. TimelyLog(<<Barrier(1)>>, cur)
  <2>1. PICK b : b = Barrier(1)
    BY Zenon
  <2>2. \A i \in 1..Len(<<b>>) : <<b>>[i] = b
    OBVIOUS
  <2>3. b.env = NoEnvelope
    BY <2>1, Zenon DEF Barrier
  <2> QED
    BY <2>1, <2>2, <2>3, Zenon DEF TimelyLog
<1>2. cur \in Waited
  BY DedupAssumption DEF Init, Waited
<1>3. TimelyState(EmptyState, cur)
  BY <1>2, EmptyTimely, Zenon
<1> QED
  BY <1>1, <1>3, Zenon DEF Init, LiveInv, Live

\* Applying a timely envelope refuses nothing its session waits for.
LEMMA HorizonTimely ==
  ASSUME NEW s \in States, NEW env \in Envelopes, NEW cu \in Waited, TimelyState(s, cu),
         Timely(env, cu)
  PROVE  TimelyState(Horizon(s, env), cu) /\ Horizon(s, env) \in States
<1> DEFINE q == env.req
           c == q.client
<1>1. q \in Requests /\ c \in Clients /\ env.ack \in Acks
  BY Zenon DEF Envelopes, Requests
<1>2. q.sequence \in Nat /\ \A d \in Clients : cu[d] \in Nat /\ s.floor[d] \in Int
  BY <1>1, DedupAssumption DEF Requests, States, Waited
<1>3. CASE Horizon(s, env) = s
  BY <1>3, Zenon
<1>4. CASE env.ack # None /\ Horizon(s, env) = RaiseFloor(s, c, env.ack)
  <2>1. env.ack < cu[c] /\ env.ack \in Int
    BY <1>1, <1>2, <1>4 DEF Timely, Acks, None
  <2> DEFINE o == [p \in Requests |-> IF p.client = c /\ p.sequence <= env.ack
                                      THEN NoOutcome ELSE s.outcome[p]]
             h == RaiseFloor(s, c, env.ack)
  <2>2. h = [s EXCEPT !.floor[c] = env.ack, !.outcome = o]
    BY Zenon DEF RaiseFloor
  <2>3. /\ s = [outcome |-> s.outcome, floor |-> s.floor, executed |-> s.executed]
        /\ s.outcome \in [Requests -> Results] /\ s.floor \in [Clients -> Int]
        /\ s.executed \in Seq(Executions)
    BY DEF States
  <2>4. o \in [Requests -> Results]
    BY <2>3, Zenon DEF NoOutcome, Answer, Results
  <2>5. \A p \in Requests : o[p].kind \notin Refusals
    <3>1. NoOutcome.kind \notin Refusals
      BY DEF NoOutcome, Answer, Refusals
    <3> QED
      BY <3>1, Zenon DEF TimelyState
  <2> HIDE DEF o, h
  <2>6. h.floor = [s.floor EXCEPT ![c] = env.ack] /\ h.outcome = o /\ h.executed = s.executed
    BY <2>2, <2>3
  <2>7. h = [outcome |-> h.outcome, floor |-> h.floor, executed |-> h.executed]
    BY <2>2, <2>3
  <2>8. h \in States
    BY <2>1, <2>3, <2>4, <2>6, <2>7, Zenon DEF States
  <2>9. \A d \in Clients : h.floor[d] < cu[d]
    BY <1>2, <2>1, <2>3, <2>6 DEF TimelyState
  <2> QED
    BY <1>4, <2>5, <2>6, <2>8, <2>9, Zenon DEF TimelyState, h
<1> QED
  BY <1>3, <1>4, Zenon DEF Horizon

\* A refusal is for a request its session has left behind.
LEMMA ApplyTimely ==
  ASSUME NEW s \in States, NEW env \in Envelopes, NEW cu \in Waited, TimelyState(s, cu),
         Timely(env, cu)
  PROVE  /\ TimelyState(Apply(s, env).sm, cu)
         /\ TimelyAnswer(env.req, Apply(s, env).out, cu)
<1> DEFINE q == env.req
           next == Horizon(s, env)
<1>1. q \in Requests /\ q.client \in Clients /\ env.ack \in Acks
  BY Zenon DEF Envelopes, Requests
<1>2. q.sequence \in Nat /\ \A d \in Clients : cu[d] \in Nat /\ s.floor[d] \in Int
  BY <1>1, DedupAssumption DEF Requests, States, Waited
<1>3. TimelyState(next, cu) /\ next \in States
  BY HorizonTimely, Zenon
<1> HIDE DEF next
<1>4. CASE env.ack # None /\ env.ack < s.floor[q.client]
  <2>1. Apply(s, env).sm = s /\ Apply(s, env).out = Answer("regressed")
    BY <1>4, Zenon DEF Apply
  <2>2. q.sequence < cu[q.client]
    BY <1>1, <1>2, <1>4 DEF Timely, TimelyState
  <2> QED
    BY <2>1, <2>2, Zenon DEF TimelyAnswer
<1>5. CASE ~(env.ack # None /\ env.ack < s.floor[q.client])
  <2>1. CASE Expired(next, q)
    <3>1. Apply(s, env).sm = next
      BY <1>5, <2>1, Zenon DEF Apply, next
    <3>2. q.sequence < cu[q.client]
      <4>1. next.floor[q.client] < cu[q.client] /\ next.floor[q.client] \in Int
        BY <1>1, <1>3 DEF TimelyState, States
      <4> QED
        BY <1>1, <1>2, <2>1, <4>1 DEF Expired
    <3> QED
      BY <1>3, <3>1, <3>2, Zenon DEF TimelyAnswer
  <2>2. CASE ~Expired(next, q) /\ next.outcome[q] # NoOutcome
    <3>1. Apply(s, env).sm = next /\ Apply(s, env).out = next.outcome[q]
      BY <1>5, <2>2, Zenon DEF Apply, next
    <3> QED
      BY <1>1, <1>3, <3>1, Zenon DEF TimelyAnswer, TimelyState
  <2>3. CASE ~Expired(next, q) /\ next.outcome[q] = NoOutcome
    <3> DEFINE out == Dispatch(next, q)
    <3>1. Apply(s, env).sm = Execute(next, q) /\ Apply(s, env).out = out
      BY <1>5, <2>3, Zenon DEF Apply, next
    <3>2. out.kind \notin Refusals
      BY DEF Dispatch, Answer, Applied, Refusals
    <3>3. Execute(next, q) = [next EXCEPT !.outcome[q] = out,
                                          !.executed = Append(@, [req |-> q, out |-> out])]
      BY Zenon DEF Execute
    <3> HIDE DEF out
    <3>4. /\ next = [outcome |-> next.outcome, floor |-> next.floor, executed |-> next.executed]
          /\ next.outcome = [p \in Requests |-> next.outcome[p]]
      BY <1>3 DEF States
    <3>5. /\ Execute(next, q).floor = next.floor
          /\ Execute(next, q).outcome = [next.outcome EXCEPT ![q] = out]
      BY <3>3, <3>4
    <3>6. \A p \in Requests : Execute(next, q).outcome[p].kind \notin Refusals
      BY <1>1, <1>3, <3>2, <3>4, <3>5, Zenon DEF TimelyState
    <3> QED
      BY <1>3, <3>1, <3>2, <3>5, <3>6, Zenon DEF TimelyState, TimelyAnswer
  <2> QED
    BY <2>1, <2>2, <2>3, Zenon
<1> QED
  BY <1>4, <1>5, Zenon

\* What is timely stays so while the sessions go on.
LEMMA LiveGrows ==
  ASSUME NEW cu \in Waited, NEW cv \in Waited, \A c \in Clients : cu[c] <= cv[c],
         NEW c \in Seq(Entries), NEW l \in [Replicas -> Seq(Entries)],
         NEW s \in [Replicas -> States], NEW d \in [Replicas -> SUBSET Completion],
         NEW w \in [Gateways -> {Idle} \cup Sent], Live(cu, c, l, s, d, w)
  PROVE  Live(cv, c, l, s, d, w)
<1>0. \A x \in Clients : cu[x] \in Nat /\ cv[x] \in Nat /\ cu[x] <= cv[x]
  BY DedupAssumption DEF Waited
<1>1. \A q \in Requests : q.client \in Clients /\ q.sequence \in Nat
  BY DedupAssumption DEF Requests
<1>2. ASSUME NEW env, env.req \in Requests, Timely(env, cu) PROVE Timely(env, cv)
  <2>1. env.req.sequence <= cv[env.req.client]
    BY <1>0, <1>1, <1>2 DEF Timely
  <2> QED
    BY <1>2, <2>1, Zenon DEF Timely
<1>3. ASSUME NEW m \in Seq(Entries), TimelyLog(m, cu) PROVE TimelyLog(m, cv)
  <2> SUFFICES ASSUME NEW i \in 1..Len(m), m[i].env # NoEnvelope PROVE Timely(m[i].env, cv)
    BY Zenon DEF TimelyLog
  <2>1. m[i] \in Entries
    BY ElementOfSeq
  <2>2. m[i].env.req \in Requests
    BY <2>1, Zenon DEF Entries, Envelopes
  <2> QED
    BY <1>2, <1>3, <2>2, Zenon DEF TimelyLog
<1>4. ASSUME NEW x \in States, TimelyState(x, cu) PROVE TimelyState(x, cv)
  <2>1. \A y \in Clients : x.floor[y] \in Int /\ x.floor[y] < cu[y]
    BY <1>4 DEF TimelyState, States
  <2>2. ASSUME NEW y \in Clients PROVE x.floor[y] < cv[y]
    <3>1. cu[y] \in Nat /\ cv[y] \in Nat /\ cu[y] <= cv[y]
      BY <1>0, Zenon
    <3>2. x.floor[y] \in Int /\ x.floor[y] < cu[y]
      BY <2>1, Zenon
    <3> QED
      BY <3>1, <3>2
  <2> QED
    BY <1>4, <2>2, Zenon DEF TimelyState
<1>5. ASSUME NEW x \in Completion, TimelyAnswer(x.req, x.out, cu) PROVE TimelyAnswer(x.req, x.out, cv)
  <2>1. x.req \in Requests
    BY Zenon DEF Completion
  <2>2. x.req.sequence < cu[x.req.client] => x.req.sequence < cv[x.req.client]
    BY <1>0, <1>1, <2>1
  <2> QED
    BY <1>5, <2>2, Zenon DEF TimelyAnswer
<1>6. ASSUME NEW g \in Gateways, w[g] # Idle PROVE w[g].req \in Requests
  BY <1>6, Zenon DEF Sent
<1> QED
  BY <1>2, <1>3, <1>4, <1>5, <1>6, Zenon DEF Live

\* A session keeps its request or takes the next one.
LEMMA SessionsGoOn ==
  ASSUME NEW S, cur \in Waited, Answered(S)
  PROVE  \A c \in Clients : cur[c] <= cur'[c]
<1> SUFFICES ASSUME NEW c \in Clients PROVE cur[c] <= cur'[c]
  OBVIOUS
<1>1. cur[c] \in Nat
  BY DedupAssumption DEF Waited
<1>2. cur'[c] = cur[c] + 1 \/ cur'[c] = cur[c]
  BY Zenon DEF Answered
<1> QED
  BY <1>1, <1>2

\* No step takes a session back.
LEMMA CurGrows == IInv /\ [Next]_vars => \A c \in Clients : cur[c] <= cur'[c]
<1> SUFFICES ASSUME IInv, [Next]_vars PROVE \A c \in Clients : cur[c] <= cur'[c]
  OBVIOUS
<1>1. cur \in Waited
  BY Zenon DEF IInv, WaitersOK, Waited
<1>2. CASE UNCHANGED cur
  <2>1. \A c \in Clients : cur[c] \in Nat
    BY <1>1, DedupAssumption DEF Waited
  <2> QED
    BY <1>2, <2>1
<1>3. CASE \E S : Answered(S)
  BY <1>1, <1>3, SessionsGoOn, Zenon
<1>4. ASSUME NEW r \in Replicas,
             StartTerm(r) \/ FinishTurn(r) \/ \E g \in Gateways : Admit(r, g)
      PROVE  \E S : Answered(S)
  BY <1>4, Zenon DEF StartTerm, FinishTurn, Admit, EndTurn
<1>5. ASSUME NEW r \in Replicas, NEW g \in Gateways, QueryOutcome(g, r) PROVE \E S : Answered(S)
  BY <1>5, Zenon DEF QueryOutcome
<1>6. ASSUME NEW r \in Replicas,
             \/ Elect(r) \/ AdvanceCommit(r) \/ ApplyBarrier(r) \/ ApplyCommand(r)
             \/ ApplyMismatch(r) \/ StepDown(r) \/ AppendEntries(r) \/ Restart(r)
             \/ \E l \in Replicas : InstallSnapshot(r, l)
      PROVE  UNCHANGED cur
  BY <1>6, Zenon DEF Elect, AdvanceCommit, ApplyBarrier, ApplyCommand, ApplyMismatch, StepDown,
     AppendEntries, Restart, InstallSnapshot, Drained, clientVars
<1>7. ASSUME NEW g \in Gateways, OutcomeUnknown(g) \/ \E c \in Clients : Submit(g, c)
      PROVE  UNCHANGED cur
  BY <1>7, Zenon DEF OutcomeUnknown, Submit
<1>8. CASE UNCHANGED vars
  BY <1>2, <1>8, Zenon DEF vars, clientVars
<1> QED
  BY <1>2, <1>3, <1>4, <1>5, <1>6, <1>7, <1>8, Zenon DEF Next

\* Prefixes and extensions of a timely log.
LEMMA TimelyPrefix ==
  ASSUME NEW l \in Seq(Entries), NEW cu, TimelyLog(l, cu), NEW k \in 0..Len(l)
  PROVE  TimelyLog(SubSeq(l, 1, k), cu)
<1>1. Len(SubSeq(l, 1, k)) = k /\ \A i \in 1..k : i \in 1..Len(l) /\ SubSeq(l, 1, k)[i] = l[i]
  BY PrefixOfLog, PrefixElements
<1> QED
  BY <1>1, Zenon DEF TimelyLog

LEMMA TimelyAppend ==
  ASSUME NEW l \in Seq(Entries), NEW cu, TimelyLog(l, cu), NEW e \in Entries,
         e.env # NoEnvelope => Timely(e.env, cu)
  PROVE  TimelyLog(Append(l, e), cu)
<1>1. /\ Len(Append(l, e)) = Len(l) + 1 /\ Len(l) \in Nat
      /\ \A i \in 1..Len(l) : Append(l, e)[i] = l[i]
      /\ Append(l, e)[Len(l) + 1] = e
  OBVIOUS
<1>2. ASSUME NEW i \in 1..(Len(l) + 1) PROVE i \in 1..Len(l) \/ i = Len(l) + 1
  BY <1>1
<1> QED
  BY <1>1, <1>2, Zenon DEF TimelyLog

\* Logs are cut, copied and extended by barriers and by what gateways have sent.
LEMMA LogsStayTimely ==
  ASSUME IInv, LiveInv, [Next]_vars
  PROVE  TimelyLog(committed', cur) /\ \A r \in Replicas : TimelyLog(log'[r], cur)
<1> DEFINE Goal == TimelyLog(committed', cur) /\ \A r \in Replicas : TimelyLog(log'[r], cur)
<1>1. /\ committed \in Seq(Entries) /\ Len(committed) \in Nat /\ TimelyLog(committed, cur)
      /\ log \in [Replicas -> Seq(Entries)]
      /\ \A r \in Replicas : log[r] \in Seq(Entries) /\ Len(log[r]) \in Nat /\ TimelyLog(log[r], cur)
  BY DEF IInv, FrontiersOK, LiveInv, Live
<1>2. ASSUME NEW r \in Replicas, NEW l, log' = [log EXCEPT ![r] = l], TimelyLog(l, cur),
             UNCHANGED committed
      PROVE  Goal
  BY <1>1, <1>2, Zenon
<1>3. ASSUME UNCHANGED <<committed, log>> PROVE Goal
  BY <1>1, <1>3, Zenon
<1>4. ASSUME NEW r \in Replicas, Elect(r) PROVE Goal
  <2>1. PICK l \in Seq(Entries) :
          /\ log' = [log EXCEPT ![r] = l]
          /\ \/ l = committed
             \/ \E s \in Replicas : \E k \in 0..Len(log[s]) : l = SubSeq(log[s], 1, k)
    BY <1>4, ElectedLog, Zenon
  <2>2. TimelyLog(l, cur)
    BY <1>1, <2>1, TimelyPrefix, Zenon
  <2>3. UNCHANGED committed
    BY <1>4, Zenon DEF Elect
  <2> QED
    BY <1>2, <2>1, <2>2, <2>3, Zenon
<1>5. ASSUME NEW r \in Replicas, AdvanceCommit(r) PROVE Goal
  <2>1. PICK i \in (Len(committed) + 1)..Len(log[r]) : committed' = SubSeq(log[r], 1, i)
    BY <1>5, Zenon DEF AdvanceCommit
  <2>2. i \in 0..Len(log[r])
    BY <1>1, <2>1
  <2>3. TimelyLog(committed', cur)
    BY <1>1, <2>1, <2>2, TimelyPrefix, Zenon
  <2>4. UNCHANGED log
    BY <1>5, Zenon DEF AdvanceCommit
  <2> QED
    BY <1>1, <2>3, <2>4, Zenon
<1>6. ASSUME NEW r \in Replicas, AppendEntries(r) PROVE Goal
  <2>1. PICK i \in (commit[r] + 1)..Len(committed) :
          log' = [log EXCEPT ![r] = SubSeq(committed, 1, i)]
    BY <1>6, Zenon DEF AppendEntries
  <2>2. i \in 0..Len(committed)
    BY <1>1, <2>1 DEF IInv, FrontiersOK
  <2>3. TimelyLog(SubSeq(committed, 1, i), cur) /\ UNCHANGED committed
    BY <1>1, <1>6, <2>2, TimelyPrefix, Zenon DEF AppendEntries
  <2> QED
    BY <1>2, <2>1, <2>3, Zenon
<1>7. ASSUME NEW r \in Replicas, NEW l \in Replicas, InstallSnapshot(r, l) PROVE Goal
  <2>1. applied[l] \in 0..Len(log[l])
    BY <1>1 DEF IInv, FrontiersOK
  <2>2. TimelyLog(SubSeq(log[l], 1, applied[l]), cur)
    BY <1>1, <2>1, TimelyPrefix, Zenon
  <2> QED
    BY <1>2, <1>7, <2>2, Zenon DEF InstallSnapshot
<1>8. ASSUME NEW r \in Replicas, StartTerm(r) PROVE Goal
  <2>1. Barrier(term[r]) \in Entries /\ Barrier(term[r]).env = NoEnvelope
    BY Zenon DEF IInv, FrontiersOK, Barrier, Entries
  <2>2. TimelyLog(Append(log[r], Barrier(term[r])), cur)
    BY <1>1, <2>1, TimelyAppend, Zenon
  <2> QED
    BY <1>1, <1>2, <1>8, <2>2, Zenon DEF StartTerm, EndTurn
<1>9. ASSUME NEW r \in Replicas, NEW g \in Gateways, Admit(r, g) PROVE Goal
  <2>1. gw[g].state = "sent"
    BY <1>9, Zenon DEF Admit, Admissible
  <2>2. Proposed(r, g) \in Entries /\ gw[g] \in Sent
    BY <2>1, ProposedIsEntry, Zenon
  <2>3. Timely(gw[g], cur)
    BY <2>1 DEF LiveInv, Live, Idle
  <2>4. Timely(Proposed(r, g).env, cur)
    BY <2>3, Zenon DEF Timely, Proposed
  <2>5. TimelyLog(Append(log[r], Proposed(r, g)), cur)
    BY <1>1, <2>2, <2>4, TimelyAppend, Zenon
  <2> QED
    BY <1>1, <1>2, <1>9, <2>5, Zenon DEF Admit, EndTurn
<1>10. ASSUME NEW r \in Replicas,
              \/ ApplyBarrier(r) \/ ApplyCommand(r) \/ ApplyMismatch(r) \/ StepDown(r)
              \/ FinishTurn(r) \/ Restart(r)
       PROVE  Goal
  BY <1>3, <1>10, Zenon DEF ApplyBarrier, ApplyCommand, ApplyMismatch, StepDown, FinishTurn, EndTurn,
     Restart, Drained, raftVars
<1>11. ASSUME NEW g \in Gateways,
              \/ OutcomeUnknown(g) \/ \E c \in Clients : Submit(g, c)
              \/ \E r \in Replicas : QueryOutcome(g, r)
       PROVE  Goal
  BY <1>3, <1>11, Zenon DEF OutcomeUnknown, Submit, QueryOutcome, raftVars
<1>12. ASSUME UNCHANGED vars PROVE Goal
  BY <1>3, <1>12, Zenon DEF vars, raftVars
<1> HIDE DEF Goal
<1>13. ASSUME NEW r \in Replicas,
              \/ Elect(r) \/ AdvanceCommit(r) \/ AppendEntries(r) \/ StartTerm(r)
              \/ \E l \in Replicas : InstallSnapshot(r, l)
              \/ \E g \in Gateways : Admit(r, g)
       PROVE  Goal
  BY <1>4, <1>5, <1>6, <1>7, <1>8, <1>9, <1>13, Zenon
<1>14. Goal
  BY <1>10, <1>11, <1>12, <1>13, Zenon DEF Next
<1> QED
  BY <1>14, Zenon DEF Goal

\* What the drain of the next command leaves and answers.
LEMMA DrainTimely ==
  ASSUME IInv, LiveInv, NEW r \in Replicas, Draining(r), NEW env,
         env = log[r][applied[r] + 1].env, env # NoEnvelope
  PROVE  /\ TimelyState(Apply(sm[r], env).sm, cur)
         /\ TimelyAnswer(env.req, Apply(sm[r], env).out, cur)
<1>1. env \in Envelopes
  BY DrainedEntry, Zenon DEF Entries
<1>2. applied[r] + 1 \in 1..Len(log[r])
  BY DEF IInv, FrontiersOK, Draining
<1>3. Timely(env, cur) /\ TimelyState(sm[r], cur)
  BY <1>2, Zenon DEF LiveInv, Live, TimelyLog
<1>4. sm[r] \in States /\ cur \in Waited
  BY Zenon DEF IInv, StatesOK, WaitersOK, Waited
<1> QED
  BY <1>1, <1>3, <1>4, ApplyTimely, Zenon

\* Floors stay below the requests that sessions wait for.
LEMMA StatesStayTimely ==
  ASSUME IInv, LiveInv, [Next]_vars
  PROVE  \A r \in Replicas : TimelyState(sm'[r], cur)
<1> DEFINE Goal == \A r \in Replicas : TimelyState(sm'[r], cur)
<1>1. sm \in [Replicas -> States] /\ \A r \in Replicas : TimelyState(sm[r], cur)
  BY Zenon DEF IInv, StatesOK, LiveInv, Live
<1>2. ASSUME NEW r \in Replicas, NEW s, TimelyState(s, cur), sm' = [sm EXCEPT ![r] = s]
      PROVE  Goal
  BY <1>1, <1>2, Zenon
<1>3. ASSUME UNCHANGED sm PROVE Goal
  BY <1>1, <1>3, Zenon
<1>4. ASSUME NEW r \in Replicas, ApplyCommand(r) \/ ApplyMismatch(r) PROVE Goal
  <2>1. PICK env : env = log[r][applied[r] + 1].env
    BY Zenon
  <2>2. Draining(r) /\ env # NoEnvelope /\ sm' = [sm EXCEPT ![r] = Apply(sm[r], env).sm]
    BY <1>4, <2>1, Zenon DEF ApplyCommand, ApplyMismatch
  <2>3. TimelyState(Apply(sm[r], env).sm, cur)
    BY <2>1, <2>2, DrainTimely, Zenon
  <2> QED
    BY <1>2, <2>2, <2>3, Zenon
<1>5. ASSUME NEW r \in Replicas, NEW l \in Replicas, InstallSnapshot(r, l) PROVE Goal
  <2>1. sm[l] \in States
    BY <1>1, Zenon
  <2>2. Restored(sm[l]) = sm[l]
    BY <2>1, Zenon DEF Restored, States
  <2> QED
    BY <1>1, <1>2, <1>5, <2>2, Zenon DEF InstallSnapshot
<1>6. ASSUME NEW r \in Replicas, Restart(r) PROVE Goal
  <2>1. cur \in Waited
    BY Zenon DEF IInv, WaitersOK, Waited
  <2>2. TimelyState(EmptyState, cur)
    BY <2>1, EmptyTimely, Zenon
  <2> QED
    BY <1>2, <1>6, <2>2, Zenon DEF Restart
<1>7. ASSUME NEW r \in Replicas,
             \/ Elect(r) \/ AdvanceCommit(r) \/ StepDown(r) \/ AppendEntries(r)
             \/ ApplyBarrier(r) \/ StartTerm(r) \/ FinishTurn(r)
             \/ \E g \in Gateways : Admit(r, g)
      PROVE  Goal
  BY <1>3, <1>7, Zenon DEF Elect, AdvanceCommit, StepDown, AppendEntries, ApplyBarrier,
     StartTerm, FinishTurn, Admit, EndTurn, applyVars
<1>8. ASSUME NEW g \in Gateways,
             \/ \E c \in Clients : Submit(g, c)
             \/ OutcomeUnknown(g)
             \/ \E r \in Replicas : QueryOutcome(g, r)
      PROVE  Goal
  BY <1>3, <1>8, Zenon DEF Submit, OutcomeUnknown, QueryOutcome, applyVars
<1>9. ASSUME UNCHANGED vars PROVE Goal
  BY <1>3, <1>9, Zenon DEF vars, applyVars
<1> HIDE DEF Goal
<1>10. Goal
  BY <1>4, <1>5, <1>6, <1>7, <1>8, <1>9, Zenon DEF Next
<1> QED
  BY <1>10, Zenon DEF Goal

\* A completion that refuses a request was overtaken by its session.
LEMMA CompletionsStayTimely ==
  ASSUME IInv, LiveInv, [Next]_vars
  PROVE  \A r \in Replicas : \A x \in completed'[r] : TimelyAnswer(x.req, x.out, cur)
<1> DEFINE Goal == \A r \in Replicas : \A x \in completed'[r] : TimelyAnswer(x.req, x.out, cur)
<1>1. /\ completed \in [Replicas -> SUBSET Completion]
      /\ \A r \in Replicas : \A x \in completed[r] : TimelyAnswer(x.req, x.out, cur)
  BY Zenon DEF IInv, WaitersOK, LiveInv, Live
<1>2. ASSUME NEW r \in Replicas, NEW D, \A x \in D : TimelyAnswer(x.req, x.out, cur),
             completed' = [completed EXCEPT ![r] = D]
      PROVE  Goal
  BY <1>1, <1>2, Zenon
<1>3. ASSUME UNCHANGED completed PROVE Goal
  BY <1>1, <1>3, Zenon
<1>4. ASSUME NEW r \in Replicas, ApplyCommand(r) PROVE Goal
  <2>1. PICK env : env = log[r][applied[r] + 1].env
    BY Zenon
  <2>2. PICK out : out = Apply(sm[r], env).out
    BY Zenon
  <2>3. PICK x : x = [gateway |-> registry[r][env.req].gateway, req |-> env.req, out |-> out]
    BY Zenon
  <2>4. /\ Draining(r) /\ env # NoEnvelope
        /\ completed' = [completed EXCEPT ![r] = completed[r] \cup {x}] \/ UNCHANGED completed
    <3>1. Draining(r) /\ env # NoEnvelope
      BY <1>4, <2>1, Zenon DEF ApplyCommand
    <3>2. completed' = [completed EXCEPT ![r] = IF registry[r][env.req].live
                          THEN completed[r] \cup {x} ELSE completed[r]]
      BY <1>4, <2>1, <2>2, <2>3, Zenon DEF ApplyCommand
    <3>3. [completed EXCEPT ![r] = completed[r]] = completed
      BY <1>1, Zenon
    <3> QED
      BY <3>1, <3>2, <3>3, Zenon
  <2>5. TimelyAnswer(env.req, out, cur)
    BY <2>1, <2>2, <2>4, DrainTimely, Zenon
  <2>6. x.req = env.req /\ x.out = out
    BY <2>3, Zenon
  <2>7. \A y \in completed[r] \cup {x} : TimelyAnswer(y.req, y.out, cur)
    BY <1>1, <2>5, <2>6, Zenon
  <2> QED
    BY <1>2, <1>3, <2>4, <2>7, Zenon
<1>5. ASSUME NEW r \in Replicas,
             \/ Restart(r) \/ StartTerm(r) \/ FinishTurn(r) \/ \E g \in Gateways : Admit(r, g)
      PROVE  Goal
  <2>1. completed' = [completed EXCEPT ![r] = {}]
    BY <1>5, Zenon DEF Restart, StartTerm, FinishTurn, Admit, EndTurn
  <2> QED
    BY <1>2, <2>1, Zenon
<1>6. ASSUME NEW r \in Replicas,
             \/ Elect(r) \/ AdvanceCommit(r) \/ StepDown(r) \/ AppendEntries(r)
             \/ ApplyBarrier(r) \/ ApplyMismatch(r) \/ \E l \in Replicas : InstallSnapshot(r, l)
      PROVE  Goal
  BY <1>3, <1>6, Zenon DEF Elect, AdvanceCommit, StepDown, AppendEntries, ApplyBarrier,
     ApplyMismatch, InstallSnapshot, runtimeVars
<1>7. ASSUME NEW g \in Gateways,
             \/ \E c \in Clients : Submit(g, c)
             \/ OutcomeUnknown(g)
             \/ \E r \in Replicas : QueryOutcome(g, r)
      PROVE  Goal
  BY <1>3, <1>7, Zenon DEF Submit, OutcomeUnknown, QueryOutcome, runtimeVars
<1>8. ASSUME UNCHANGED vars PROVE Goal
  BY <1>3, <1>8, Zenon DEF vars, runtimeVars
<1> HIDE DEF Goal
<1>9. Goal
  BY <1>4, <1>5, <1>6, <1>7, <1>8, Zenon DEF Next
<1> QED
  BY <1>9, Zenon DEF Goal

\* A gateway keeps the request and the acknowledgement it sent.
LEMMA TurnGateways ==
  ASSUME IInv, LiveInv, NEW r \in Replicas, NEW reg, NEW gws, EndTurn(r, reg, gws),
         \A g \in Gateways : gws[g] # Idle => Timely(gws[g], cur)
  PROVE  \A g \in Gateways : gw'[g] # Idle => Timely(gw'[g], cur)
<1>0. PICK late : gw' = [g \in Gateways |-> IF gws[g] = gw[g]
                                      THEN Forwarded(r, g, Leaving(r, late)) ELSE gws[g]]
  BY Zenon DEF EndTurn
<1>1. PICK Q : Q = Leaving(r, late)
  BY Zenon
<1>2. \A g \in Gateways : gw'[g] = Forwarded(r, g, Q) \/ gw'[g] = gws[g]
  BY <1>0, <1>1, Zenon
<1> SUFFICES ASSUME NEW g \in Gateways, Forwarded(r, g, Q) # Idle
             PROVE  Timely(Forwarded(r, g, Q), cur)
  BY <1>2, Zenon
<1>3. gw[g] \in {Idle} \cup Sent /\ (gw[g] # Idle => Timely(gw[g], cur))
  BY Zenon DEF IInv, WaitersOK, LiveInv, Live
<1>4. ASSUME gw[g].state = "waiting" PROVE Timely([gw[g] EXCEPT !.state = "sent"], cur)
  <2>1. gw[g] \in Sent /\ gw[g] # Idle
    BY <1>3, <1>4 DEF Idle
  <2>2. PICK m : m = [gw[g] EXCEPT !.state = "sent"]
    BY Zenon
  <2>3. m.req = gw[g].req /\ m.ack = gw[g].ack
    BY <2>1, <2>2 DEF Sent
  <2> QED
    BY <1>3, <2>1, <2>2, <2>3, Zenon DEF Timely
<1> QED
  BY <1>3, <1>4, Zenon DEF Forwarded, Waits

\* What gateways hold is the request a session waits for, or an older one.
LEMMA GatewaysStayTimely ==
  ASSUME IInv, LiveInv, [Next]_vars
  PROVE  \A g \in Gateways : gw'[g] # Idle => Timely(gw'[g], cur)
<1> DEFINE Goal == \A g \in Gateways : gw'[g] # Idle => Timely(gw'[g], cur)
<1>1. /\ gw \in [Gateways -> {Idle} \cup Sent] /\ cur \in Waited
      /\ \A g \in Gateways : gw[g] # Idle => Timely(gw[g], cur)
  BY Zenon DEF IInv, WaitersOK, Waited, LiveInv, Live
<1>2. ASSUME UNCHANGED gw PROVE Goal
  BY <1>1, <1>2, Zenon
<1>3. ASSUME NEW r \in Replicas, StartTerm(r) \/ FinishTurn(r) PROVE Goal
  <2>1. EndTurn(r, registry[r], gw)
    BY <1>3, Zenon DEF StartTerm, FinishTurn
  <2> QED
    BY <1>1, <2>1, TurnGateways, Zenon
<1>4. ASSUME NEW r \in Replicas, NEW g \in Gateways, Admit(r, g) PROVE Goal
  <2>1. PICK gws, reg : /\ gws = [gw EXCEPT ![g].state = "waiting", ![g].at = r]
                        /\ EndTurn(r, reg, gws)
    BY <1>4, Zenon DEF Admit
  <2>2. gw[g].state = "sent"
    BY <1>4, Zenon DEF Admit, Admissible
  <2>3. gw[g] \in Sent /\ gw[g] # Idle
    BY <1>1, <2>2 DEF Idle
  <2>4. gws[g].req = gw[g].req /\ gws[g].ack = gw[g].ack
    BY <1>1, <2>1, <2>3 DEF Sent
  <2>5. \A h \in Gateways : h # g => gws[h] = gw[h]
    BY <1>1, <2>1, Zenon
  <2>6. \A h \in Gateways : gws[h] # Idle => Timely(gws[h], cur)
    BY <1>1, <2>3, <2>4, <2>5, Zenon DEF Timely
  <2> QED
    BY <2>1, <2>6, TurnGateways, Zenon
<1>5. ASSUME NEW g \in Gateways, NEW c \in Clients, Submit(g, c) PROVE Goal
  <2>1. PICK ack : ack = IF c \in Acknowledging /\ cur[c] > 1 THEN cur[c] - 1 ELSE None
    BY Zenon
  <2>2. PICK q : q = [client |-> c, sequence |-> cur[c]]
    BY Zenon
  <2>3. PICK m : m = [state |-> "sent", at |-> None, req |-> q, ack |-> ack]
    BY Zenon
  <2>4. gw' = [gw EXCEPT ![g] = m]
    BY <1>5, <2>1, <2>2, <2>3, Zenon DEF Submit
  <2>5. q.client = c /\ q.sequence = cur[c] /\ m.req = q /\ m.ack = ack
    BY <2>2, <2>3, Zenon
  <2>6. cur[c] <= cur[c]
    BY <1>1, DedupAssumption DEF Waited
  <2>7. Timely(m, cur)
    BY <2>1, <2>5, <2>6, Zenon DEF Timely
  <2> QED
    BY <1>1, <2>4, <2>7, Zenon
<1>6. ASSUME NEW g \in Gateways, OutcomeUnknown(g) \/ \E r \in Replicas : QueryOutcome(g, r)
      PROVE  Goal
  <2>1. gw' = [gw EXCEPT ![g] = Idle]
    BY <1>6, Zenon DEF OutcomeUnknown, QueryOutcome
  <2> QED
    BY <1>1, <2>1, Zenon
<1>7. ASSUME NEW r \in Replicas, Restart(r) PROVE Goal
  BY <1>1, <1>7, Zenon DEF Restart
<1>8. ASSUME NEW r \in Replicas,
             \/ Elect(r) \/ AdvanceCommit(r) \/ StepDown(r) \/ AppendEntries(r)
             \/ ApplyBarrier(r) \/ ApplyCommand(r) \/ ApplyMismatch(r)
             \/ \E l \in Replicas : InstallSnapshot(r, l)
      PROVE  Goal
  BY <1>2, <1>8, Zenon DEF Elect, AdvanceCommit, StepDown, AppendEntries, ApplyBarrier,
     ApplyCommand, ApplyMismatch, InstallSnapshot, Drained, clientVars
<1>9. ASSUME UNCHANGED vars PROVE Goal
  BY <1>2, <1>9, Zenon DEF vars, clientVars
<1> HIDE DEF Goal
<1>10. Goal
  BY <1>3, <1>4, <1>5, <1>6, <1>7, <1>8, <1>9, Zenon DEF Next
<1> QED
  BY <1>10, Zenon DEF Goal

\* The relations survive every step.
LEMMA LiveStep == IInv /\ LiveInv /\ [Next]_vars => LiveInv'
<1> SUFFICES ASSUME IInv, LiveInv, [Next]_vars PROVE LiveInv'
  OBVIOUS
<1>1. Live(cur, committed', log', sm', completed', gw')
  BY LogsStayTimely, StatesStayTimely, CompletionsStayTimely, GatewaysStayTimely, Zenon DEF Live
<1>2. IInv'
  BY Inductive, Zenon
<1>3. /\ committed' \in Seq(Entries) /\ log' \in [Replicas -> Seq(Entries)]
      /\ sm' \in [Replicas -> States] /\ completed' \in [Replicas -> SUBSET Completion]
      /\ gw' \in [Gateways -> {Idle} \cup Sent] /\ cur' \in Waited
  BY <1>2, Zenon DEF IInv, FrontiersOK, StatesOK, WaitersOK, Waited
<1>4. cur \in Waited
  BY Zenon DEF IInv, WaitersOK, Waited
<1>5. \A c \in Clients : cur[c] <= cur'[c]
  BY CurGrows, Zenon
<1>6. Live(cur', committed', log', sm', completed', gw')
  BY <1>1, <1>3, <1>4, <1>5, LiveGrows, Zenon
<1> QED
  BY <1>6, Zenon DEF LiveInv

\* What a step answers was timely before it.
LEMMA AnswersTimely ==
  ASSUME IInv, LiveInv, [Next]_vars, NEW a \in answered' \ answered
  PROVE  TimelyAnswer(a[1], a[2], cur)
<1>1. ASSUME NEW r \in Replicas,
             StartTerm(r) \/ FinishTurn(r) \/ \E g \in Gateways : Admit(r, g)
      PROVE  TimelyAnswer(a[1], a[2], cur)
  <2>1. Answered({<<c.req, c.out>> : c \in Outcomes(r)})
    BY <1>1, Zenon DEF StartTerm, FinishTurn, Admit, EndTurn
  <2>2. PICK x \in Outcomes(r) : a = <<x.req, x.out>>
    BY <2>1, Zenon DEF Answered
  <2>3. x \in completed[r]
    BY <2>2, Zenon DEF Outcomes
  <2>4. a[1] = x.req /\ a[2] = x.out
    BY <2>2
  <2> QED
    BY <2>3, <2>4, Zenon DEF LiveInv, Live
<1>2. ASSUME NEW g \in Gateways, NEW r \in Replicas, QueryOutcome(g, r)
      PROVE  TimelyAnswer(a[1], a[2], cur)
  <2>1. PICK q, out : q = gw[g].req /\ out = sm[r].outcome[q]
    BY Zenon
  <2>2. a = <<q, out>>
    BY <1>2, <2>1, Zenon DEF QueryOutcome, Answered
  <2>3. q \in Requests
    BY <1>2, <2>1, Zenon DEF QueryOutcome, IInv, WaitersOK, Sent
  <2>4. out.kind \notin Refusals
    BY <2>1, <2>3, Zenon DEF LiveInv, Live, TimelyState
  <2>5. a[1] = q /\ a[2] = out
    BY <2>2
  <2> QED
    BY <2>4, <2>5, Zenon DEF TimelyAnswer
<1>3. ASSUME NEW r \in Replicas,
             \/ Elect(r) \/ AdvanceCommit(r) \/ StepDown(r) \/ AppendEntries(r)
             \/ ApplyBarrier(r) \/ ApplyCommand(r) \/ ApplyMismatch(r) \/ Restart(r)
             \/ \E l \in Replicas : InstallSnapshot(r, l)
      PROVE  FALSE
  <2>1. UNCHANGED answered
    BY <1>3, Zenon DEF Elect, AdvanceCommit, StepDown, AppendEntries, ApplyBarrier,
       ApplyCommand, ApplyMismatch, Restart, InstallSnapshot, Drained, clientVars
  <2> QED
    BY <2>1, Zenon
<1>4. ASSUME NEW g \in Gateways, OutcomeUnknown(g) \/ \E c \in Clients : Submit(g, c)
      PROVE  FALSE
  BY <1>4, Zenon DEF OutcomeUnknown, Submit
<1>5. CASE UNCHANGED vars
  BY <1>5, Zenon DEF vars, clientVars
<1> QED
  BY <1>1, <1>2, <1>3, <1>4, <1>5, Zenon DEF Next

\* No client is told REQUEST_ID_EXPIRED, or that its acknowledgement went backwards,
\* for the request it is waiting for (`apply_retry_horizon`, `query_original_outcome`).
THEOREM LiveRequestsNeverExpire == Spec => NoLiveRequestExpires
<1>1. ASSUME IInv, LiveInv, [Next]_vars
      PROVE  [\A a \in answered' \ answered :
                a[2].kind \in {"expired", "regressed"} => a[1].sequence < cur[a[1].client]]_vars
  BY <1>1, AnswersTimely, Zenon DEF TimelyAnswer, Refusals
<1> QED
  BY <1>1, Invariance, LiveInit, LiveStep, PTL DEF Spec, NoLiveRequestExpires
=============================================================================
