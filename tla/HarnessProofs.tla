--------------------------- MODULE HarnessProofs ---------------------------
(***************************************************************************)
(* Proofs about Harness: what check_run accepts, for every number of       *)
(* requests and failovers and every window.  A replay that is built and    *)
(* ingested in one step brings the server level with the client, so the    *)
(* histories agree throughout, one replay is enough, and a run that drains *)
(* is accepted.                                                            *)
(***************************************************************************)
EXTENDS Harness, RecoveryProofs

\* The types.
BaseInv ==
    /\ TypeOK
    /\ HashedInv
    /\ IsCheckpoint(last_ckpt)
    /\ handling \subseteq Request
    /\ guard \in Nat
    /\ failovers_done \in 0 .. failovers

\* Both sides agree, and so do the checkpoint and the request in hand.
AgreeInv ==
    /\ HistoryInv
    /\ OrderInv
    /\ GoodCheckpoint(last_ckpt)
    /\ \A req \in handling : Frozen(req)

\* A server runs once what it has committed; nothing acknowledges more than the
\* client has received.
RunsInv ==
    /\ OnceInv
    /\ ReceiptsInv
    /\ \A req \in handling : AcksReceived(req)

\* A replay brings the server level with the client, and until it has, on_request
\* never runs for the request in hand; so no recovery signal is ever sent.
RoundInv ==
    /\ guard > 0 => committed_upto = next_seq - 1 /\ handling # {}
    /\ draining => handling = {}
    /\ received \subseteq 1 .. (next_seq - 1)
    /\ outstanding = (1 .. (next_seq - 1)) \ received
    /\ \A resp \in AllResponses : resp.recover = FALSE /\ resp.seq < next_seq

\* The answers that may be lost are those of ids that a checkpoint left out.
LossInv ==
    /\ AnswerableInv(forgotten)
    /\ CheckpointAnswerable(last_ckpt, forgotten \cup left_out)

\* A request that was generated since the last failover is answered by a server that
\* has committed everything.
FreshInv ==
    fresh /\ (next_seq - 1 \in received \/ \E resp \in AllResponses : resp.seq = next_seq - 1)
        => committed_upto = next_seq - 1

\* Before the first failover nothing is recovered, and every commit is run here.
FirstInv ==
    failovers_done = 0 => /\ AckInv
                          /\ awaiting = {}
                          /\ handling = {}
                          /\ DOMAIN app_calls = 1 .. committed_upto

HarnessInv ==
    /\ BaseInv
    /\ AgreeInv
    /\ RunsInv
    /\ RoundInv
    /\ LossInv
    /\ FreshInv
    /\ FirstInv

-----------------------------------------------------------------------------
(* The steps.                                                              *)

\* on_request runs for a request that needs no replay.
Answers(req) ==
    /\ ~draining
    /\ ~needs_recover(req)
    /\ on_request(req)
    /\ c2s' \subseteq c2s
    /\ handling' = {}
    /\ guard' = 0
    /\ UNCHANGED << clientVars, last_ckpt, failovers_done, historyVars >>

\* Neither endpoint moves; a request may be taken in hand.
Rests ==
    /\ QuietLinks
    /\ \/ handling' = handling
       \/ \E req \in c2s : needs_recover(req) /\ ~draining /\ handling' = {req}
    /\ handling = {} \/ handling' = handling
    /\ UNCHANGED << guard, last_ckpt, failovers_done, historyVars >>

\* What a request acknowledges is committed by a server that has committed whatever
\* the client has received.
LEMMA LevelAnswers ==
    ASSUME TypeOK, NEW req \in Request, AcksReceived(req),
           received \subseteq 1 .. committed_upto
    PROVE  ~needs_recover(req)
  <1>1. /\ committed_upto \in Nat /\ req.ack_base \in Nat \ {0}
    BY DEF TypeOK, ServerTypeOK, Request, SeqNo
  <1>2. 1 .. (req.ack_base - 1) \subseteq 1 .. committed_upto
    BY DEF AcksReceived
  <1>3. ~(req.ack_base > committed_upto + 1)
    <2> SUFFICES ASSUME req.ack_base > committed_upto + 1 PROVE FALSE
      OBVIOUS
    <2>1. req.ack_base - 1 \in 1 .. (req.ack_base - 1)
      BY <1>1
    <2>2. req.ack_base - 1 \in 1 .. committed_upto
      BY <1>2, <2>1
    <2> QED BY <1>1, <2>2
  <1>4. \A i \in Ids(req.ack_new) : ~(i > committed_upto)
    <2>1. \A i \in Ids(req.ack_new) : i \in 1 .. committed_upto
      BY DEF AcksReceived
    <2>2. \A i \in 1 .. committed_upto : ~(i > committed_upto)
      BY <1>1
    <2> QED BY <2>1, <2>2
  <1> QED BY <1>3, <1>4 DEF needs_recover

\* Once a replay has been ingested, the request in hand needs no other one.
LEMMA OneRound ==
    ASSUME HarnessInv, guard > 0, NEW req \in handling
    PROVE  ~needs_recover(req)
  <1>1. TypeOK /\ req \in Request /\ AcksReceived(req)
    BY DEF HarnessInv, BaseInv, RunsInv
  <1>2. received \subseteq 1 .. committed_upto
    BY DEF HarnessInv, RoundInv
  <1> QED BY <1>1, <1>2, LevelAnswers

\* Every step of the harness is one of these.
LEMMA HarnessSteps ==
    ASSUME HarnessInv, HarnessNext \/ UNCHANGED rvars
    PROVE  \/ GenerateOne
           \/ \E req \in c2s \cup handling : Answers(req)
           \/ \E req \in handling : Recover(req)
           \/ CommitOne
           \/ \E resp \in s2c : ReceiveDue(resp)
           \/ Rests
           \/ TakeCheckpoint
           \/ InjectFailover
  <1>1. guard \in Nat /\ (guard > 0 => handling # {})
    BY DEF HarnessInv, BaseInv, RoundInv
  <1>2. ASSUME NEW n \in outstanding, ResendOne(n)
        PROVE  Rests
    BY <1>2 DEF ResendOne, Resend, Retransmit, SendRequest, Rests, QuietLinks,
                harnessVars, outstanding
  <1>3. ASSUME NEW req \in c2s, HandleDue(req)
        PROVE  Answers(req) \/ Rests
    <2>1. /\ ~draining /\ handling = {} /\ c2s' \subseteq c2s
          /\ UNCHANGED << clientVars, guard, last_ckpt, failovers_done, historyVars >>
      BY <1>3 DEF HandleDue, Idle, DueRequest
    <2>2. CASE ~needs_recover(req) /\ on_request(req) /\ UNCHANGED handling
      <3>1. guard' = 0
        BY <1>1, <2>1
      <3> QED BY <2>1, <2>2, <3>1 DEF Answers
    <2>3. CASE needs_recover(req) /\ handling' = {req} /\ UNCHANGED << s2c, serverVars >>
      BY <2>1, <2>3 DEF Rests, QuietLinks
    <2> QED BY <1>3, <2>2, <2>3 DEF HandleDue
  <1>4. ASSUME NEW req \in handling, EndRecover(req)
        PROVE  Answers(req)
    <2>1. ~needs_recover(req)
      <3>1. guard = MaxGuard => guard > 0
        BY DEF MaxGuard
      <3> QED BY <1>4, <3>1, OneRound DEF EndRecover
    <2> QED BY <1>4, <2>1 DEF EndRecover, Answers
  <1>5. CASE StopGenerating \/ UNCHANGED rvars
    BY <1>5 DEF StopGenerating, rvars, harnessVars, vars, netVars, Rests, QuietLinks
  <1>6. CASE HarnessNext
    BY <1>2, <1>3, <1>4, <1>5, <1>6 DEF HarnessNext
  <1> QED BY <1>5, <1>6

-----------------------------------------------------------------------------
(* One lemma per step.                                                     *)

\* Step 1 of a tick.
LEMMA GenerateKeeps ==
    ASSUME HarnessInv, GenerateOne
    PROVE  HarnessInv'
  <1> SUFFICES ASSUME NEW N, N = next_seq, NEW cp, cp = last_ckpt, NEW F, F = forgotten,
                      NEW G, G = left_out
               PROVE  HarnessInv'
    OBVIOUS
  <1>1. /\ TypeOK /\ HashedInv /\ IsCheckpoint(cp) /\ HistoryInv /\ OrderInv
        /\ GoodCheckpoint(cp) /\ OnceInv /\ ReceiptsInv /\ ClientHistoryInv
    BY DEF HarnessInv, BaseInv, AgreeInv, RunsInv, HistoryInv
  <1>2. /\ Generate /\ handling = {} /\ ~draining
        /\ UNCHANGED << handling, guard, last_ckpt, failovers_done, left_out, forgotten >>
    BY DEF GenerateOne, Idle
  <1>3. /\ next_seq' = N + 1 /\ N \in Nat \ {0}
        /\ DOMAIN inflight' = DOMAIN inflight \cup {N}
        /\ UNCHANGED << received, received_payload, s2c, committed_upto, s_req_hash,
                        resp_buffer, awaiting, app_calls, draining, out >>
    BY <1>1, <1>2 DEF Generate, generate_request, Put, serverVars, TypeOK, ClientTypeOK, SeqNo
  <1>4. AllResponses' = AllResponses
    BY <1>3 DEF AllResponses
  <1>5. TypeOK' /\ HashedInv' /\ OnceInv' /\ ReceiptsInv' /\ HistoryInv' /\ OrderInv'
    BY <1>1, <1>2, <1>3, GenerateType, GenerateReceipts, GenerateHistory, GenerateOrder
       DEF HashedInv, OnceInv
  <1>6. GoodCheckpoint(cp)'
    BY <1>1, <1>2, RecordsKept
  <1>7. BaseInv' /\ AgreeInv' /\ RunsInv'
    <2>1. BaseInv'
      BY <1>2, <1>5 DEF HarnessInv, BaseInv
    <2>2. GoodCheckpoint(last_ckpt)'
      BY <1>2, <1>6 DEF GoodCheckpoint
    <2> QED BY <1>2, <1>5, <2>1, <2>2 DEF AgreeInv, RunsInv
  <1>8. RoundInv'
    <2>1. /\ guard \in Nat /\ (guard > 0 => handling # {})
          /\ received \subseteq 1 .. (N - 1)
          /\ outstanding = (1 .. (N - 1)) \ received
          /\ \A resp \in AllResponses : resp.recover = FALSE /\ resp.seq < N
      BY DEF HarnessInv, BaseInv, RoundInv
    <2>2. ~(guard' > 0)
      BY <1>2, <2>1
    <2>3. next_seq' - 1 = N /\ 1 .. N = (1 .. (N - 1)) \cup {N} /\ N \notin 1 .. (N - 1)
      BY <1>3
    <2>4. received' \subseteq 1 .. N
      BY <1>3, <2>1, <2>3
    <2>5. outstanding' = (1 .. N) \ received'
      BY <1>3, <2>1, <2>3 DEF outstanding
    <2>6. \A resp \in AllResponses' : resp.recover = FALSE /\ resp.seq < next_seq'
      <3>1. \A resp \in AllResponses : resp.seq \in Nat
        BY <1>1, AllMessagesType DEF Response, SeqNo
      <3> QED BY <1>3, <1>4, <2>1, <3>1
    <2> QED BY <1>2, <1>3, <2>2, <2>3, <2>4, <2>5, <2>6 DEF RoundInv
  <1>9. LossInv'
    BY <1>2, <1>3, <1>4 DEF HarnessInv, LossInv, AnswerableInv, CheckpointAnswerable
  <1>10. FreshInv'
    <2>1. next_seq' - 1 = N
      BY <1>3
    <2>2. N \notin received'
      <3>1. N \notin 1 .. (N - 1)
        BY <1>3
      <3> QED BY <1>3, <3>1 DEF HarnessInv, RoundInv
    <2>3. \A resp \in AllResponses' : resp.seq # N
      <3>1. \A resp \in AllResponses : resp.seq < N /\ resp.seq \in Nat
        BY <1>1, AllMessagesType DEF Response, SeqNo, HarnessInv, RoundInv
      <3>2. \A resp \in AllResponses : resp.seq # N
        BY <1>3, <3>1
      <3> QED BY <1>4, <3>2
    <2> QED BY <2>1, <2>2, <2>3 DEF FreshInv
  <1>11. FirstInv'
    BY <1>1, <1>2, <1>3, GenerateAcks DEF HarnessInv, FirstInv
  <1> QED BY <1>7, <1>8, <1>9, <1>10, <1>11 DEF HarnessInv

\* What on_request answers without asking for a replay, it answers for a committed
\* request.
LEMMA AnswersCommitted ==
    ASSUME TypeOK, NEW req \in Request, on_request(req), ~needs_recover(req)
    PROVE  /\ committed_upto' = committed_upto
           /\ \A resp \in AllResponses' :
                  \/ resp \in AllResponses
                  \/ /\ resp.recover = FALSE /\ resp.seq = req.seq
                     /\ req.seq <= committed_upto
           /\ awaiting = {} => awaiting' = {} /\ app_calls' = app_calls
  <1>1. CASE ResendBuffered(req)
    <2> DEFINE new == make_response(req.seq, resp_buffer[req.seq], FALSE, s_req_hash)
    <2>1. new.recover = FALSE /\ new.seq = req.seq
      BY DEF make_response
    <2>2. /\ out' = out /\ s2c' = s2c \cup {new} /\ req.seq <= committed_upto
          /\ UNCHANGED << committed_upto, awaiting, app_calls >>
      BY <1>1 DEF ResendBuffered, SendResponses
    <2> HIDE DEF new
    <2> QED BY <2>1, <2>2 DEF AllResponses
  <1>2. CASE ReprocessAwaiting(req)
    <2> DEFINE new == make_response(req.seq, AppResult(req.seq), FALSE, s_req_hash)
    <2>1. new.recover = FALSE /\ new.seq = req.seq
      BY DEF make_response
    <2>2. /\ out' = out /\ s2c' = s2c \cup {new} /\ req.seq <= committed_upto
          /\ UNCHANGED committed_upto /\ req.seq \in awaiting
      BY <1>2 DEF ReprocessAwaiting, SendResponses, LeftAwaiting
    <2> HIDE DEF new
    <2> QED BY <2>1, <2>2 DEF AllResponses
  <1>3. CASE AcknowledgeOnly(req)
    <2> DEFINE new == make_response(req.seq, NoPayload, TRUE, s_req_hash)
    <2>1. new.recover = FALSE /\ new.seq = req.seq
      BY DEF make_response
    <2>2. /\ out' = out /\ s2c' = s2c \cup {new} /\ req.seq <= committed_upto
          /\ UNCHANGED << committed_upto, awaiting, app_calls >>
      BY <1>3 DEF AcknowledgeOnly, SendResponses
    <2> HIDE DEF new
    <2> QED BY <2>1, <2>2 DEF AllResponses
  <1>4. CASE Stage(req)
    BY <1>4 DEF Stage, AllResponses
  <1> QED BY <1>1, <1>2, <1>3, <1>4 DEF on_request, AskForReplay

\* Step 3 of a tick, for a request that needs no replay.
LEMMA AnswersKeeps ==
    ASSUME HarnessInv, NEW req \in c2s \cup handling, Answers(req)
    PROVE  HarnessInv'
  <1> SUFFICES ASSUME NEW F, F = forgotten
               PROVE  HarnessInv'
    OBVIOUS
  <1>1. /\ TypeOK /\ HashedInv /\ HistoryInv /\ OrderInv /\ OnceInv /\ ReceiptsInv
        /\ AnswerableInv(F)
    BY DEF HarnessInv, BaseInv, AgreeInv, RunsInv, LossInv
  <1>2. req \in Request /\ Frozen(req) /\ AcksReceived(req)
    <2>1. CASE req \in c2s
      BY <1>1, <2>1 DEF TypeOK, NetTypeOK, HistoryInv, ReceiptsInv, AllRequests
    <2>2. CASE req \in handling
      BY <2>2 DEF HarnessInv, BaseInv, AgreeInv, RunsInv
    <2> QED BY <2>1, <2>2
  <1>3. /\ on_request(req) /\ ~needs_recover(req) /\ c2s' \subseteq c2s
        /\ handling' = {} /\ guard' = 0
        /\ UNCHANGED << clientVars, last_ckpt, failovers_done, fresh, left_out, forgotten >>
    BY DEF Answers, historyVars
  <1>4. UNCHANGED << next_seq, received, received_payload, c_req_hash, c_history, inflight >>
    BY <1>3 DEF clientVars
  <1>5. TypeOK' /\ HashedInv' /\ OnceInv' /\ ReceiptsInv' /\ HistoryInv' /\ OrderInv'
    BY <1>1, <1>2, <1>3, <1>4, OnRequestType, OnRequestOnce, OnRequestReceipts,
       OnRequestHistory, OrderKept
  <1>6. BaseInv' /\ AgreeInv' /\ RunsInv'
    <2>1. GoodCheckpoint(last_ckpt)'
      BY <1>3, <1>4 DEF HarnessInv, AgreeInv, GoodCheckpoint, HistoryAt
    <2>2. BaseInv'
      BY <1>3, <1>5 DEF HarnessInv, BaseInv
    <2> QED BY <1>3, <1>5, <2>1, <2>2 DEF AgreeInv, RunsInv
  <1>7. /\ committed_upto' = committed_upto
        /\ \A resp \in AllResponses' :
               \/ resp \in AllResponses
               \/ /\ resp.recover = FALSE /\ resp.seq = req.seq
                  /\ req.seq <= committed_upto
        /\ awaiting = {} => awaiting' = {} /\ app_calls' = app_calls
    BY <1>1, <1>2, <1>3, AnswersCommitted
  <1>8. /\ committed_upto \in Nat /\ next_seq \in Nat \ {0} /\ req.seq \in Nat
        /\ req.seq < next_seq /\ committed_upto < next_seq
    BY <1>1, <1>2 DEF TypeOK, ServerTypeOK, ClientTypeOK, SeqNo, Request, Frozen, HistoryInv
  <1>9. RoundInv'
    <2>1. outstanding' = outstanding
      BY <1>4 DEF outstanding
    <2>2. \A resp \in AllResponses' : resp.recover = FALSE /\ resp.seq < next_seq
      BY <1>7, <1>8 DEF HarnessInv, RoundInv
    <2>3. ~(guard' > 0)
      BY <1>3
    <2> QED BY <1>3, <1>4, <2>1, <2>2, <2>3 DEF HarnessInv, RoundInv
  <1>10. LossInv'
    <2>1. AnswerableInv(F)'
      BY <1>1, <1>2, <1>3, OnRequestAnswerable
    <2>2. AnswerableInv(forgotten)'
      BY <1>3, <2>1 DEF AnswerableInv
    <2> QED BY <1>3, <1>4, <2>2 DEF HarnessInv, LossInv, CheckpointAnswerable
  <1>11. FreshInv'
    <2>1. \A resp \in AllResponses' :
              resp \in AllResponses
              \/ (resp.seq = next_seq - 1 => committed_upto = next_seq - 1)
      BY <1>7, <1>8
    <2> QED BY <1>3, <1>4, <1>7, <2>1 DEF HarnessInv, FreshInv
  <1>12. FirstInv'
    <2> SUFFICES ASSUME failovers_done = 0 PROVE FirstInv'
      BY <1>3 DEF FirstInv
    <2>1. AckInv /\ awaiting = {} /\ handling = {} /\ DOMAIN app_calls = 1 .. committed_upto
      BY DEF HarnessInv, FirstInv
    <2>2. req \in c2s
      BY <2>1
    <2>3. AckInv'
      <3>1. AllRequests' \subseteq AllRequests
        BY <1>3, <1>4, <2>2, OnRequestRequests
      <3>2. /\ received' \subseteq 1 .. committed_upto' /\ committed_upto' \in Nat
            /\ committed_upto <= committed_upto' /\ received \subseteq received'
        BY <1>4, <1>7, <1>8, <2>1 DEF AckInv
      <3>3. /\ 1 .. (base' - 1) \subseteq received' /\ Ids(pending_new') \subseteq received'
        BY <1>3, <2>1 DEF AckInv, clientVars
      <3>4. \A resp \in AllResponses' :
                resp \in AllResponses \/ (resp.seq \in 1 .. committed_upto' /\ ~resp.recover)
        <4>1. req.seq <= committed_upto => req.seq \in 1 .. committed_upto
          BY <1>2, <1>8 DEF Request, SeqNo
        <4> QED BY <1>7, <4>1
      <3> QED BY <1>8, <2>1, <3>1, <3>2, <3>3, <3>4, AckStep
    <2> QED BY <1>3, <1>7, <2>1, <2>3 DEF FirstInv
  <1> QED BY <1>6, <1>9, <1>10, <1>11, <1>12 DEF HarnessInv

\* A replay of all that the server lacks, ingested at once, commits all there is.
LEMMA ReplayCatchesUp ==
    ASSUME TypeOK, HistoryInv, OrderInv, ingest_replay(build_replay(Len(s_history)))
    PROVE  committed_upto' = next_seq - 1
  <1> DEFINE c == committed_upto
             m == next_seq - 1
             T == SubSeq(c_history, Len(s_history) + 1, Len(c_history))
             rp == build_replay(Len(s_history))
  <1>1. /\ c \in Nat /\ m \in Nat /\ c <= m /\ c \in 0 .. m /\ m \in 0 .. m
        /\ s_history = HistoryAt(c) /\ c_history = HistoryAt(m)
        /\ s_history \in Seq(Event) /\ c_history \in Seq(Event) /\ ClientHistoryInv
        /\ Len(s_history) \in Nat /\ Len(c_history) \in Nat
    BY DEF TypeOK, ServerTypeOK, ClientTypeOK, SeqNo, HistoryInv, ClientHistoryInv
  <1>2. rp.events = T /\ rp.from = Len(s_history)
    BY DEF build_replay
  <1>3. T \in Seq(Event)
    BY <1>1, BuiltReplay, <1>2 DEF Replay
  <1>4. SubSeq(T, 1, Len(T)) = T
    <2> HIDE DEF T
    <2> QED BY <1>3
  <1>5. Unseen(rp) = T
    <2> HIDE DEF T, rp
    <2>1. ~(Len(s_history) > Len(s_history)) /\ 0 + 1 = 1
      BY <1>1
    <2> QED BY <1>2, <1>4, <2>1 DEF Unseen
  <1>6. RequestsIn(T) = (c + 1) .. m
    <2>1. CASE c < m
      <3>1. T = SubSeq(HistoryAt(m), Len(HistoryAt(c)) + 1, Len(HistoryAt(m)))
        BY <1>1
      <3> HIDE DEF T
      <3>2. IsTail(T, c, m)
        BY <1>1, <2>1, <3>1, HistoryTail
      <3> QED BY <3>2 DEF IsTail
    <2>2. CASE c = m
      <3>1. Len(s_history) = Len(c_history)
        BY <1>1, <2>2
      <3>2. T = << >>
        BY <1>1, <3>1
      <3>3. RequestsIn(<< >>) = {}
        BY DEF RequestsIn
      <3>4. (c + 1) .. m = {}
        BY <1>1, <2>2
      <3> QED BY <3>2, <3>3, <3>4
    <2> QED BY <1>1, <2>1, <2>2
  <1>7. committed_upto' = Frontier(T)
    <2> HIDE DEF T
    <2> QED BY <1>5 DEF ingest_replay
  <1>8. Frontier(T) = m
    <2> HIDE DEF T
    <2> QED BY <1>1, <1>6, FrontierReached
  <1> QED BY <1>7, <1>8

\* The recovery loop of step 3.
LEMMA RecoverKeeps ==
    ASSUME HarnessInv, NEW req \in handling, Recover(req)
    PROVE  HarnessInv'
  <1> SUFFICES ASSUME NEW F, F = forgotten, NEW rp, rp = build_replay(Len(s_history))
               PROVE  HarnessInv'
    OBVIOUS
  <1>1. /\ TypeOK /\ HashedInv /\ HistoryInv /\ OrderInv /\ OnceInv /\ ReceiptsInv
        /\ AnswerableInv(F) /\ ClientHistoryInv
    BY DEF HarnessInv, BaseInv, AgreeInv, RunsInv, LossInv, HistoryInv
  <1>2. /\ ~draining /\ ingest_replay(rp) /\ guard' = guard + 1 /\ handling' = handling
        /\ UNCHANGED << netVars, clientVars, last_ckpt, failovers_done, fresh, left_out,
                        forgotten >>
    BY DEF Recover, RecoverSignal, historyVars
  <1>3. /\ UNCHANGED << next_seq, received, received_payload, c_req_hash, c_history,
                        inflight, s2c, out, draining >>
    BY <1>2 DEF clientVars, netVars, ingest_replay
  <1>4. Len(s_history) \in Nat /\ next_seq \in Nat \ {0}
    BY <1>1 DEF TypeOK, ServerTypeOK, ClientTypeOK, SeqNo
  <1>5. /\ rp \in Replay /\ GoodReplay(rp) /\ rp.from = Len(s_history)
        /\ RequestsIn(rp.events) \subseteq RequestsIn(c_history)
    BY <1>1, <1>4, BuiltReplay
  <1>6. LeavesNoGap(rp)
    BY <1>4, <1>5 DEF LeavesNoGap
  <1>7. RequestsIn(rp.events) \subseteq 0 .. (next_seq - 1)
    <2>1. \A k \in DOMAIN c_history :
              ~c_history[k].is_response => c_history[k].seq \in 1 .. (next_seq - 1)
      BY <1>1 DEF OrderInv, ReqEvent
    <2>2. \A k \in 1 .. (next_seq - 1) : k \in 0 .. (next_seq - 1)
      BY <1>4
    <2> QED BY <1>5, <2>1, <2>2 DEF RequestsIn
  <1>8. next_seq - 1 \in Nat
    BY <1>4
  <1>9. TypeOK' /\ HistoryInv' /\ OnceInv' /\ ReceiptsInv' /\ HashedInv' /\ OrderInv'
    <2>1. TypeOK'
      BY <1>1, <1>2, <1>5, <1>7, <1>8, IngestType
    <2> QED BY <1>1, <1>2, <1>3, <1>5, <1>6, <2>1, IngestHistory, IngestOnce,
               IngestReceipts, IngestHashed, OrderKept
  <1>10. BaseInv' /\ AgreeInv' /\ RunsInv'
    <2>1. GoodCheckpoint(last_ckpt)'
      BY <1>2, <1>3 DEF HarnessInv, AgreeInv, GoodCheckpoint, HistoryAt
    <2>2. guard' \in Nat
      BY <1>2 DEF HarnessInv, BaseInv
    <2>3. BaseInv'
      BY <1>2, <1>9, <2>2 DEF HarnessInv, BaseInv
    <2>4. \A r \in handling' : Frozen(r)' /\ AcksReceived(r)'
      BY <1>2, <1>3 DEF HarnessInv, AgreeInv, RunsInv, Frozen, HistoryAt, AcksReceived
    <2> QED BY <1>9, <2>1, <2>3, <2>4 DEF AgreeInv, RunsInv
  <1>11. committed_upto' = next_seq - 1
    BY <1>1, <1>2, ReplayCatchesUp
  <1>12. RoundInv'
    <2>1. outstanding' = outstanding /\ AllResponses' = AllResponses
      BY <1>3 DEF outstanding, AllResponses
    <2> QED BY <1>2, <1>3, <1>11, <2>1 DEF HarnessInv, RoundInv
  <1>13. LossInv'
    <2>1. AnswerableInv(F)'
      BY <1>1, <1>2, <1>5, <1>6, IngestAnswerable
    <2>2. AnswerableInv(forgotten)'
      BY <1>2, <2>1 DEF AnswerableInv
    <2> QED BY <1>2, <1>3, <2>2 DEF HarnessInv, LossInv, CheckpointAnswerable
  <1>14. FreshInv'
    BY <1>3, <1>11 DEF FreshInv
  <1>15. FirstInv'
    BY <1>2 DEF HarnessInv, FirstInv
  <1> QED BY <1>10, <1>12, <1>13, <1>14, <1>15 DEF HarnessInv

\* What the commit loop answers, it has just committed, and run for the first time.
LEMMA CommitOneCommits ==
    ASSUME TypeOK, Commit
    PROVE  /\ committed_upto <= committed_upto' /\ committed_upto' \in Nat
           /\ \A resp \in AllResponses' :
                  \/ resp \in AllResponses
                  \/ resp.recover = FALSE /\ resp.seq = committed_upto'
           /\ awaiting' = awaiting
           /\ DOMAIN app_calls = 1 .. committed_upto =>
                  DOMAIN app_calls' = 1 .. committed_upto'
  <1>1. committed_upto \in Nat
    BY DEF TypeOK, ServerTypeOK
  <1>2. CASE CommitDone
    <2>1. AllResponses' \subseteq AllResponses
      BY <1>2 DEF CommitDone, SendResponses, AllResponses
    <2> QED BY <1>1, <1>2, <2>1 DEF CommitDone
  <1>3. CASE CommitNext
    <2> DEFINE n == committed_upto + 1
               new == make_response(n, AppResult(n), FALSE, s_req_hash')
    <2>1. new.recover = FALSE /\ new.seq = n
      BY DEF make_response
    <2>2. /\ committed_upto' = n /\ out' = out \cup {new} /\ s2c' = s2c
          /\ awaiting' = awaiting /\ DOMAIN app_calls' = DOMAIN app_calls \cup {n}
      BY <1>3 DEF CommitNext, NextInOrder, Bump, Put
    <2>3. n \in Nat /\ committed_upto <= n /\ 1 .. n = (1 .. committed_upto) \cup {n}
      BY <1>1
    <2> HIDE DEF new, n
    <2>4. \A resp \in AllResponses' :
              resp \in AllResponses \/ (resp.recover = FALSE /\ resp.seq = n)
      BY <2>1, <2>2 DEF AllResponses
    <2> QED BY <2>2, <2>3, <2>4
  <1> QED BY <1>2, <1>3 DEF Commit

\* The commit loop.
LEMMA CommitKeeps ==
    ASSUME HarnessInv, CommitOne
    PROVE  HarnessInv'
  <1> SUFFICES ASSUME NEW F, F = forgotten
               PROVE  HarnessInv'
    OBVIOUS
  <1>1. /\ TypeOK /\ HashedInv /\ HistoryInv /\ OrderInv /\ OnceInv /\ ReceiptsInv
        /\ AnswerableInv(F)
    BY DEF HarnessInv, BaseInv, AgreeInv, RunsInv, LossInv
  <1>2. /\ Commit /\ draining
        /\ UNCHANGED << handling, guard, clientVars, last_ckpt, failovers_done, fresh,
                        left_out, forgotten >>
    BY DEF CommitOne, Commit, CommitNext, CommitDone, harnessVars, historyVars
  <1>3. UNCHANGED << next_seq, received, received_payload, c_req_hash, c_history, inflight >>
    BY <1>2 DEF clientVars
  <1>4. handling = {} /\ guard \in Nat /\ ~(guard > 0)
    BY <1>2 DEF HarnessInv, RoundInv, BaseInv
  <1>5. TypeOK' /\ HashedInv' /\ OnceInv' /\ ReceiptsInv' /\ HistoryInv' /\ OrderInv'
    BY <1>1, <1>2, <1>3, CommitType, CommitOnce, CommitReceipts, CommitHistory, OrderKept
  <1>6. BaseInv' /\ AgreeInv' /\ RunsInv'
    <2>1. GoodCheckpoint(last_ckpt)'
      BY <1>2, <1>3 DEF HarnessInv, AgreeInv, GoodCheckpoint, HistoryAt
    <2>2. BaseInv'
      BY <1>2, <1>5 DEF HarnessInv, BaseInv
    <2> QED BY <1>2, <1>4, <1>5, <2>1, <2>2 DEF AgreeInv, RunsInv
  <1>7. /\ committed_upto <= committed_upto' /\ committed_upto' \in Nat
        /\ \A resp \in AllResponses' :
               \/ resp \in AllResponses
               \/ resp.recover = FALSE /\ resp.seq = committed_upto'
        /\ awaiting' = awaiting
        /\ DOMAIN app_calls = 1 .. committed_upto =>
               DOMAIN app_calls' = 1 .. committed_upto'
    BY <1>1, <1>2, CommitOneCommits
  <1>8. committed_upto' < next_seq /\ next_seq \in Nat /\ committed_upto \in Nat
    BY <1>1, <1>3, <1>5 DEF HistoryInv, TypeOK, ClientTypeOK, ServerTypeOK, SeqNo
  <1>9. RoundInv'
    <2>1. outstanding' = outstanding
      BY <1>3 DEF outstanding
    <2>2. \A resp \in AllResponses' : resp.recover = FALSE /\ resp.seq < next_seq
      BY <1>7, <1>8 DEF HarnessInv, RoundInv
    <2> QED BY <1>2, <1>3, <1>4, <2>1, <2>2 DEF HarnessInv, RoundInv
  <1>10. LossInv'
    <2>1. AnswerableInv(F)'
      BY <1>1, <1>2, CommitAnswerable
    <2>2. AnswerableInv(forgotten)'
      BY <1>2, <2>1 DEF AnswerableInv
    <2> QED BY <1>2, <1>3, <2>2 DEF HarnessInv, LossInv, CheckpointAnswerable
  <1>11. FreshInv'
    <2>1. committed_upto = next_seq - 1 => committed_upto' = next_seq - 1
      BY <1>7, <1>8
    <2> QED BY <1>2, <1>3, <1>7, <2>1 DEF HarnessInv, FreshInv
  <1>12. FirstInv'
    BY <1>1, <1>2, <1>7, CommitAcks DEF HarnessInv, FirstInv
  <1> QED BY <1>6, <1>9, <1>10, <1>11, <1>12 DEF HarnessInv

\* Step 4 of a tick.
LEMMA ReceiveKeeps ==
    ASSUME HarnessInv, NEW resp \in s2c, ReceiveDue(resp)
    PROVE  HarnessInv'
  <1> SUFFICES ASSUME NEW F, F = forgotten
               PROVE  HarnessInv'
    OBVIOUS
  <1>1. /\ TypeOK /\ HashedInv /\ HistoryInv /\ OrderInv /\ OnceInv /\ ReceiptsInv
        /\ AnswerableInv(F)
    BY DEF HarnessInv, BaseInv, AgreeInv, RunsInv, LossInv
  <1>2. /\ DeliverResponse(resp) /\ handling = {} /\ ~draining
        /\ on_response(resp) \/ on_duplicate_response(resp)
        /\ UNCHANGED << c2s, serverVars, handling, guard, last_ckpt, failovers_done, fresh,
                        left_out, forgotten >>
    <2>1. ~resp.recover
      BY DEF HarnessInv, RoundInv, AllResponses
    <2> QED BY <2>1 DEF ReceiveDue, Idle, DeliverResponse, harnessVars, historyVars
  <1>3. /\ UNCHANGED << next_seq, c_req_hash, c_history >>
        /\ s2c' \subseteq s2c
        /\ UNCHANGED << committed_upto, awaiting, app_calls, pending_reqs, draining, out,
                        resp_buffer, s_req_hash >>
    BY <1>2 DEF on_response, on_duplicate_response, clientVars, serverVars, DeliverResponse,
                DueResponse
  <1>4. /\ resp \in Response /\ resp.seq \in Nat \ {0} /\ resp.seq < next_seq
        /\ next_seq \in Nat \ {0}
    BY <1>1 DEF HarnessInv, RoundInv, AllResponses, TypeOK, NetTypeOK, ClientTypeOK, Response,
                SeqNo
  <1>5. TypeOK' /\ HashedInv' /\ OnceInv' /\ ReceiptsInv' /\ HistoryInv' /\ OrderInv'
    <2>1. HashedInv' /\ OnceInv'
      BY <1>1, <1>3 DEF HashedInv, OnceInv
    <2> QED BY <1>1, <1>2, <1>3, <1>4, <2>1, DeliverResponseType, DeliverResponseHistory,
               OnResponseReceipts, OrderKept
  <1>6. BaseInv' /\ AgreeInv' /\ RunsInv'
    <2>1. GoodCheckpoint(last_ckpt)'
      BY <1>2, <1>3 DEF HarnessInv, AgreeInv, GoodCheckpoint, HistoryAt
    <2>2. BaseInv'
      BY <1>2, <1>5 DEF HarnessInv, BaseInv
    <2> QED BY <1>2, <1>5, <2>1, <2>2 DEF AgreeInv, RunsInv
  <1>7. AllResponses' \subseteq AllResponses /\ resp \in AllResponses
    BY <1>3 DEF AllResponses
  <1>8. \/ received' = received \cup {resp.seq} /\ outstanding' = outstanding \ {resp.seq}
        \/ received' = received /\ outstanding' = outstanding
    BY <1>2 DEF on_response, on_duplicate_response, outstanding, Erase, clientVars
  <1>9. RoundInv'
    <2>1. resp.seq \in 1 .. (next_seq - 1)
      BY <1>4
    <2>2. /\ received' \subseteq 1 .. (next_seq - 1)
          /\ outstanding' = (1 .. (next_seq - 1)) \ received'
      BY <1>8, <2>1 DEF HarnessInv, RoundInv
    <2> QED BY <1>2, <1>3, <1>7, <2>2 DEF HarnessInv, RoundInv
  <1>10. received \subseteq received'
    BY <1>8
  <1>11. LossInv'
    <2>1. AnswerableInv(F)'
      BY <1>1, <1>2, <1>3, OnResponseAnswerable
    <2>2. AnswerableInv(forgotten)'
      BY <1>2, <2>1 DEF AnswerableInv
    <2> QED BY <1>2, <1>10, <2>2 DEF HarnessInv, LossInv, CheckpointAnswerable
  <1>12. FreshInv'
    BY <1>2, <1>3, <1>7, <1>8 DEF HarnessInv, FreshInv
  <1>13. FirstInv'
    BY <1>1, <1>2, <1>3, DeliverResponseAcks DEF HarnessInv, FirstInv
  <1> QED BY <1>6, <1>9, <1>11, <1>12, <1>13 DEF HarnessInv

\* Step 2 of a tick, a request taken in hand, and the end of the generation phase.
LEMMA RestsKeeps ==
    ASSUME HarnessInv, Rests
    PROVE  HarnessInv'
  <1> SUFFICES ASSUME NEW F, F = forgotten
               PROVE  HarnessInv'
    OBVIOUS
  <1>1. /\ TypeOK /\ HashedInv /\ HistoryInv /\ OrderInv /\ OnceInv /\ ReceiptsInv
        /\ AnswerableInv(F)
    BY DEF HarnessInv, BaseInv, AgreeInv, RunsInv, LossInv
  <1>2. /\ QuietLinks
        /\ handling = {} \/ handling' = handling
        /\ UNCHANGED << guard, last_ckpt, failovers_done, fresh, left_out, forgotten >>
        /\ \/ handling' = handling
           \/ \E req \in c2s : needs_recover(req) /\ ~draining /\ handling' = {req}
    BY DEF Rests, historyVars
  <1>3. /\ UNCHANGED << next_seq, received, received_payload, c_req_hash, c_history,
                        inflight, committed_upto, awaiting, app_calls, draining, out >>
        /\ s2c' \subseteq s2c
    BY <1>2 DEF QuietLinks, clientVars, serverVars
  <1>4. /\ TypeOK' /\ HashedInv' /\ OnceInv' /\ ReceiptsInv' /\ HistoryInv' /\ OrderInv'
        /\ AnswerableInv(F)'
    BY <1>1, <1>2, QuietKeeps
  <1>5. \A req \in handling' :
            /\ req \in Request /\ Frozen(req) /\ AcksReceived(req)
            /\ req \in handling \/ (req \in c2s /\ needs_recover(req) /\ ~draining)
    <2>1. \A req \in c2s : req \in Request /\ Frozen(req) /\ AcksReceived(req)
      BY <1>1 DEF TypeOK, NetTypeOK, HistoryInv, ReceiptsInv, AllRequests
    <2>2. \A req \in handling : req \in Request /\ Frozen(req) /\ AcksReceived(req)
      BY DEF HarnessInv, BaseInv, AgreeInv, RunsInv
    <2> QED BY <1>2, <2>1, <2>2
  <1>6. BaseInv' /\ AgreeInv' /\ RunsInv'
    <2>1. GoodCheckpoint(last_ckpt)'
      BY <1>2, <1>3 DEF HarnessInv, AgreeInv, GoodCheckpoint, HistoryAt
    <2>2. handling' \subseteq Request
      BY <1>5
    <2>3. BaseInv'
      BY <1>2, <1>4, <2>2 DEF HarnessInv, BaseInv
    <2>4. \A req \in handling' : Frozen(req)' /\ AcksReceived(req)'
      BY <1>3, <1>5 DEF Frozen, HistoryAt, AcksReceived
    <2> QED BY <1>4, <2>1, <2>3, <2>4 DEF AgreeInv, RunsInv
  <1>7. outstanding' = outstanding /\ AllResponses' \subseteq AllResponses
    BY <1>3 DEF outstanding, AllResponses
  <1>8. RoundInv'
    <2>1. guard' > 0 => committed_upto' = next_seq' - 1 /\ handling' # {}
      BY <1>2, <1>3 DEF HarnessInv, RoundInv
    <2>2. draining' => handling' = {}
      BY <1>3, <1>5 DEF HarnessInv, RoundInv
    <2> QED BY <1>3, <1>7, <2>1, <2>2 DEF HarnessInv, RoundInv
  <1>9. LossInv'
    <2>1. AnswerableInv(forgotten)'
      BY <1>2, <1>4 DEF AnswerableInv
    <2> QED BY <1>2, <1>3, <2>1 DEF HarnessInv, LossInv, CheckpointAnswerable
  <1>10. FreshInv'
    BY <1>2, <1>3, <1>7 DEF HarnessInv, FreshInv
  <1>11. FirstInv'
    <2> SUFFICES ASSUME failovers_done = 0 PROVE FirstInv'
      BY <1>2 DEF FirstInv
    <2>1. AckInv /\ awaiting = {} /\ handling = {} /\ DOMAIN app_calls = 1 .. committed_upto
      BY DEF HarnessInv, FirstInv
    <2>2. \A req \in c2s : ~needs_recover(req)
      <3>1. c2s \subseteq AllRequests
        BY DEF AllRequests
      <3> QED BY <1>1, <2>1, <3>1, AcksCommitted
    <2>3. handling' = {}
      BY <1>5, <2>1, <2>2
    <2>4. AckInv'
      BY <1>1, <1>2, <2>1, QuietKeeps
    <2> QED BY <1>3, <2>1, <2>3, <2>4 DEF FirstInv
  <1> QED BY <1>6, <1>8, <1>9, <1>10, <1>11 DEF HarnessInv

\* A checkpoint between two ticks.
LEMMA CheckpointKeeps ==
    ASSUME HarnessInv, TakeCheckpoint
    PROVE  HarnessInv'
  <1> SUFFICES ASSUME NEW cp, cp = Snapshot, NEW F, F = forgotten, NEW G, G = awaiting
               PROVE  HarnessInv'
    OBVIOUS
  <1>1. /\ TypeOK /\ HashedInv /\ HistoryInv /\ OrderInv /\ OnceInv /\ ReceiptsInv
        /\ AnswerableInv(F)
    BY DEF HarnessInv, BaseInv, AgreeInv, RunsInv, LossInv
  <1>2. /\ last_ckpt' = cp /\ left_out' = G /\ handling = {}
        /\ UNCHANGED << c2s, s2c, clientVars, serverVars, handling, guard, failovers_done,
                        fresh, forgotten >>
    BY DEF TakeCheckpoint, Idle, vars, netVars
  <1>3. QuietLinks
    BY <1>2 DEF QuietLinks
  <1>4. /\ UNCHANGED << next_seq, received, c_req_hash, inflight, committed_upto, awaiting,
                        app_calls, draining, out, s2c >>
    BY <1>2 DEF clientVars, serverVars
  <1>5. /\ TypeOK' /\ HashedInv' /\ OnceInv' /\ ReceiptsInv' /\ HistoryInv' /\ OrderInv'
        /\ AnswerableInv(F)'
    BY <1>1, <1>3, QuietKeeps
  <1>6. IsCheckpoint(cp) /\ GoodCheckpoint(cp) /\ CheckpointAnswerable(cp, F \cup G)
    BY <1>1, SnapshotGood, SnapshotAnswerable
  <1>7. BaseInv' /\ AgreeInv' /\ RunsInv'
    <2>1. GoodCheckpoint(last_ckpt)'
      BY <1>2, <1>4, <1>6 DEF GoodCheckpoint, HistoryAt
    <2>2. IsCheckpoint(last_ckpt)'
      BY <1>2, <1>6 DEF IsCheckpoint
    <2>3. BaseInv'
      BY <1>2, <1>5, <2>2 DEF HarnessInv, BaseInv
    <2> QED BY <1>2, <1>5, <2>1, <2>3 DEF AgreeInv, RunsInv
  <1>8. outstanding' = outstanding /\ AllResponses' = AllResponses
    BY <1>4 DEF outstanding, AllResponses
  <1>9. RoundInv' /\ FreshInv'
    BY <1>2, <1>4, <1>8 DEF HarnessInv, RoundInv, FreshInv
  <1>10. LossInv'
    <2>1. AnswerableInv(forgotten)'
      BY <1>2, <1>5 DEF AnswerableInv
    <2>2. CheckpointAnswerable(last_ckpt, forgotten \cup left_out)'
      BY <1>2, <1>4, <1>6 DEF CheckpointAnswerable
    <2> QED BY <2>1, <2>2 DEF LossInv
  <1>11. FirstInv'
    BY <1>1, <1>2, <1>3, <1>4, QuietKeeps DEF HarnessInv, FirstInv
  <1> QED BY <1>7, <1>9, <1>10, <1>11 DEF HarnessInv

\* A failover between two ticks.
LEMMA FailoverKeeps ==
    ASSUME HarnessInv, InjectFailover
    PROVE  HarnessInv'
  <1> SUFFICES ASSUME NEW cp, cp = last_ckpt, NEW F, F = forgotten, NEW M,
                      M = forgotten \cup left_out
               PROVE  HarnessInv'
    OBVIOUS
  <1>1. /\ TypeOK /\ HistoryInv /\ OrderInv /\ ReceiptsInv /\ AnswerableInv(F)
        /\ IsCheckpoint(cp) /\ GoodCheckpoint(cp) /\ CheckpointAnswerable(cp, M)
        /\ failovers_done \in Nat
    BY DEF HarnessInv, BaseInv, AgreeInv, RunsInv, LossInv
  <1>2. /\ RestoreFrom(cp) /\ handling = {} /\ failovers_done < failovers
        /\ failovers_done' = failovers_done + 1 /\ fresh' = FALSE /\ forgotten' = M
        /\ UNCHANGED << c2s, s2c, clientVars, s_mismatch, app_runs, handling, guard,
                        last_ckpt, left_out >>
    BY DEF InjectFailover, Idle, netVars
  <1>3. /\ UNCHANGED << next_seq, received, c_req_hash, c_history, inflight >>
        /\ out' = {} /\ draining' = FALSE
    BY <1>2 DEF clientVars, RestoreFrom
  <1>4. TypeOK' /\ HashedInv' /\ HistoryInv' /\ OnceInv' /\ ReceiptsInv' /\ OrderInv'
    BY <1>1, <1>2, <1>3, RestoreType, RestoreHistory, RestoreOnce, OrderKept
  <1>5. BaseInv' /\ AgreeInv' /\ RunsInv'
    <2>1. GoodCheckpoint(last_ckpt)'
      BY <1>1, <1>2, <1>3 DEF GoodCheckpoint, HistoryAt
    <2>2. failovers_done' \in 0 .. failovers
      BY <1>1, <1>2, FailoversAssumption
    <2>3. IsCheckpoint(last_ckpt)'
      BY <1>1, <1>2 DEF IsCheckpoint
    <2>4. BaseInv'
      BY <1>2, <1>4, <2>2, <2>3 DEF HarnessInv, BaseInv
    <2> QED BY <1>2, <1>4, <2>1, <2>4 DEF AgreeInv, RunsInv
  <1>6. outstanding' = outstanding /\ AllResponses' \subseteq AllResponses
    BY <1>2, <1>3 DEF outstanding, AllResponses
  <1>7. RoundInv'
    <2>1. ~(guard' > 0)
      BY <1>2 DEF HarnessInv, RoundInv, BaseInv
    <2> QED BY <1>2, <1>3, <1>6, <2>1 DEF HarnessInv, RoundInv
  <1>8. LossInv'
    <2>1. AnswerableInv(M)'
      BY <1>1, <1>2, RestoreAnswerable
    <2>2. AnswerableInv(forgotten)'
      BY <1>2, <2>1 DEF AnswerableInv
    <2>3. CheckpointAnswerable(last_ckpt, forgotten \cup left_out)'
      BY <1>1, <1>2, <1>3 DEF CheckpointAnswerable
    <2> QED BY <2>2, <2>3 DEF LossInv
  <1>9. FreshInv' /\ FirstInv'
    BY <1>1, <1>2 DEF FreshInv, FirstInv
  <1> QED BY <1>5, <1>7, <1>8, <1>9 DEF HarnessInv

-----------------------------------------------------------------------------
(* The theorems.                                                           *)

\* The state the harness starts in.
LEMMA HarnessStart ==
    ASSUME HarnessInit
    PROVE  HarnessInv
  <1>1. DOMAIN EmptyMap = {}
    BY DEF EmptyMap
  <1>2. /\ next_seq = 1 /\ base = 1 /\ c_history = << >> /\ received = {}
        /\ pending_new = << >> /\ committed_upto = 0 /\ awaiting = {} /\ draining = FALSE
        /\ DOMAIN received_payload = {} /\ DOMAIN inflight = {} /\ DOMAIN pending_reqs = {}
        /\ DOMAIN resp_buffer = {} /\ DOMAIN app_calls = {}
        /\ c2s = {} /\ s2c = {} /\ out = {}
    BY <1>1 DEF HarnessInit, Init, NetInit, ClientInit, ServerInit
  <1>3. /\ handling = {} /\ guard = 0 /\ failovers_done = 0 /\ last_ckpt = NoCheckpoint
        /\ forgotten = {} /\ Init
    BY DEF HarnessInit
  <1>4. TypeOK /\ HistoryInv /\ AckInv
    BY <1>3, InitType, InitHistory, InitAcks
  <1>5. AllRequests = {} /\ AllResponses = {} /\ outstanding = {}
    BY <1>2 DEF AllRequests, AllResponses, outstanding
  <1>6. 1 .. (next_seq - 1) = {} /\ 0 .. (next_seq - 1) = {0} /\ 1 .. committed_upto = {}
    BY <1>2
  <1>7. IsCheckpoint(last_ckpt) /\ GoodCheckpoint(last_ckpt)
        /\ CheckpointAnswerable(last_ckpt, forgotten \cup left_out)
    BY <1>2, <1>3, NoCheckpointGood
  <1>8. BaseInv
    <2>1. failovers_done \in 0 .. failovers /\ guard \in Nat
      BY <1>3, FailoversAssumption
    <2> QED BY <1>2, <1>3, <1>4, <1>7, <2>1 DEF BaseInv, HashedInv
  <1>9. AgreeInv
    <2>1. DOMAIN c_history = {}
      BY <1>2
    <2>2. OrderInv
      BY <1>6, <2>1 DEF OrderInv
    <2> QED BY <1>3, <1>4, <1>7, <2>2 DEF AgreeInv
  <1>10. RunsInv
    <2>1. ResponsesIn(c_history) = {} /\ Ids(pending_new) = {}
      BY <1>2 DEF ResponsesIn, Ids
    <2>2. 1 .. (base - 1) = {}
      BY <1>2
    <2>3. ReceiptsInv
      BY <1>2, <1>5, <2>1, <2>2 DEF ReceiptsInv
    <2> QED BY <1>2, <1>3, <1>6, <2>3 DEF RunsInv, OnceInv
  <1>11. RoundInv
    BY <1>2, <1>3, <1>5, <1>6 DEF RoundInv
  <1>12. LossInv
    BY <1>2, <1>5, <1>6, <1>7 DEF LossInv, AnswerableInv
  <1>13. FreshInv
    BY <1>2 DEF FreshInv
  <1>14. FirstInv
    BY <1>2, <1>3, <1>4, <1>6 DEF FirstInv
  <1> QED BY <1>8, <1>9, <1>10, <1>11, <1>12, <1>13, <1>14 DEF HarnessInv

\* HarnessInv is inductive.
LEMMA HarnessInvariant == HarnessSpec => []HarnessInv
  <1>1. HarnessInv /\ [HarnessNext]_rvars => HarnessInv'
    BY HarnessSteps, GenerateKeeps, AnswersKeeps, RecoverKeeps, CommitKeeps, ReceiveKeeps,
       RestsKeeps, CheckpointKeeps, FailoverKeeps
  <1> QED BY <1>1, HarnessStart, PTL DEF HarnessSpec

\* With replays that are built and ingested in one step, the server's history is the
\* client's up to the last commit and no hash ever disagrees, however many failovers
\* are injected, wherever they fall, and whatever the checkpoint they restore.
THEOREM InlineAgreementCorrect == HarnessSpec => []InlineAgreement
  <1>1. HarnessInv => InlineAgreement
    BY HistoryAgrees DEF HarnessInv, BaseInv, AgreeInv, HistoryInv, InlineAgreement
  <1> QED BY <1>1, HarnessInvariant, PTL

\* The recovery loop of run_one never needs a second round, so its guard of 8 never
\* runs out, and no recovery signal is ever handed to on_response.
THEOREM OneReplayCorrect == HarnessSpec => []OneReplaySuffices
  <1>1. HarnessInv => OneReplaySuffices
    <2> SUFFICES ASSUME HarnessInv PROVE OneReplaySuffices
      OBVIOUS
    <2>1. \A resp \in s2c : ~resp.recover
      BY DEF HarnessInv, RoundInv, AllResponses
    <2> QED BY <2>1, OneRound DEF OneReplaySuffices
  <1> QED BY <1>1, HarnessInvariant, PTL

\* A response is lost for good only when checkpoint() was called while the request was
\* awaiting to be run after a replay, and that checkpoint was restored: awaiting_ is
\* the only part of the server that checkpoint() leaves out and a client can miss.
THEOREM LossExplained == HarnessSpec => []LostOnlyIfForgotten
  <1>1. HarnessInv => LostOnlyIfForgotten
    BY DEF HarnessInv, LossInv, AnswerableInv, LostOnlyIfForgotten
  <1> QED BY <1>1, HarnessInvariant, PTL

\* check_run accepts every run that drains after a request generated since the last
\* failover: a run that it rejects is the fault of the code, never of the schedule.
THEOREM CheckerAccepts == HarnessSpec => []DrainedRunPasses
  <1>1. HarnessInv => DrainedRunPasses
    <2> SUFFICES ASSUME HarnessInv, Drained, fresh PROVE check_run
      BY DEF DrainedRunPasses
    <2>1. /\ next_seq \in Nat \ {0} /\ committed_upto \in Nat /\ committed_upto < next_seq
          /\ s_history = HistoryAt(committed_upto) /\ c_history = HistoryAt(next_seq - 1)
          /\ HistoryAgreement /\ NoMismatch
      BY HistoryAgrees DEF HarnessInv, BaseInv, AgreeInv, HistoryInv, ClientHistoryInv, TypeOK,
                           ClientTypeOK, ServerTypeOK, SeqNo
    <2>2. 1 .. (next_seq - 1) \subseteq received
      BY DEF Drained, HarnessInv, RoundInv
    <2>3. committed_upto = next_seq - 1
      <3>1. CASE next_seq = 1
        BY <2>1, <3>1
      <3>2. CASE next_seq # 1
        <4>1. next_seq - 1 \in 1 .. (next_seq - 1)
          BY <2>1, <3>2
        <4> QED BY <2>2, <4>1 DEF HarnessInv, FreshInv
      <3> QED BY <3>1, <3>2
    <2>4. PrefixCheck /\ FinalHashCheck /\ AnsweredCheck
      BY <2>1, <2>2, <2>3 DEF PrefixCheck, FinalHashCheck, AnsweredCheck, HistoryAgreement,
                              issued
    <2>5. OnceCheck
      <3>1. \A n \in DOMAIN app_calls : app_calls[n] = 1
        BY DEF HarnessInv, RunsInv, OnceInv
      <3>2. ASSUME ~had_failover
            PROVE  Cardinality(DOMAIN app_calls) = committed_upto
        <4>1. failovers_done = 0
          BY <3>2, FailoversAssumption DEF HarnessInv, BaseInv, had_failover
        <4>2. DOMAIN app_calls = 1 .. committed_upto
          BY <4>1 DEF HarnessInv, FirstInv
        <4>3. Cardinality(1 .. committed_upto) = committed_upto
          <5>1. 1 \in Int /\ committed_upto \in Int
            BY <2>1
          <5>2. Cardinality(1 .. committed_upto) =
                    IF 1 > committed_upto THEN 0 ELSE committed_upto - 1 + 1
            BY <5>1, FS_Interval
          <5> QED BY <2>1, <5>2
        <4> QED BY <4>2, <4>3
      <3> QED BY <3>1, <3>2 DEF OnceCheck
    <2> QED BY <2>1, <2>4, <2>5 DEF check_run
  <1> QED BY <1>1, HarnessInvariant, PTL

-----------------------------------------------------------------------------
(* The harness drives the recoverable history.                             *)

\* Only results of the application are kept, sent or delivered; the checkpoint is not
\* ahead of the server; and only a second failover can restore one that left out an id.
LedgerInv ==
    /\ ResultsInv
    /\ CheckpointResults(last_ckpt)
    /\ last_ckpt.committed_upto <= committed_upto
    /\ failovers_done = 0 => left_out = {}
    /\ failovers_done <= 1 => forgotten = {}

\* A replay takes the server to the last request that was generated.
LEMMA RecoverAdvances ==
    ASSUME HarnessInv, NEW req \in handling, Recover(req)
    PROVE  committed_upto' = next_seq - 1 /\ committed_upto <= committed_upto'
  <1>1. guard \in Nat /\ guard' = guard + 1 /\ next_seq' = next_seq
    BY DEF Recover, HarnessInv, BaseInv, clientVars
  <1>2. guard' > 0
    BY <1>1
  <1>3. RoundInv'
    BY RecoverKeeps DEF HarnessInv
  <1>4. committed_upto' = next_seq' - 1
    BY <1>2, <1>3 DEF RoundInv
  <1>5. committed_upto \in Nat /\ next_seq \in Nat /\ committed_upto < next_seq
    BY DEF HarnessInv, BaseInv, AgreeInv, HistoryInv, TypeOK, ServerTypeOK, ClientTypeOK, SeqNo
  <1> QED BY <1>1, <1>4, <1>5

\* Every step keeps it so.
LEMMA LedgerStep ==
    ASSUME HarnessInv, LedgerInv, HarnessNext \/ UNCHANGED rvars
    PROVE  LedgerInv'
  <1>1. /\ TypeOK /\ ServerTypeOK /\ committed_upto \in Nat
        /\ last_ckpt.committed_upto \in Nat /\ failovers_done \in Nat
    BY DEF HarnessInv, BaseInv, TypeOK, ServerTypeOK, IsCheckpoint
  <1>2. ResultsInv /\ CheckpointResults(last_ckpt)
    BY DEF LedgerInv
  <1>3. ASSUME ResultsInv', ResultsStand,
               UNCHANGED << last_ckpt, failovers_done, left_out, forgotten >>,
               last_ckpt'.committed_upto <= committed_upto'
        PROVE  LedgerInv'
    <2>1. CheckpointResults(last_ckpt)'
      BY <1>2, <1>3 DEF CheckpointResults, ResultsStand
    <2> QED BY <1>3, <2>1 DEF LedgerInv
  <1>4. ASSUME UNCHANGED << serverVars, received_payload >>, AllResponses' \subseteq AllResponses
        PROVE  ResultsInv' /\ ResultsStand
    BY <1>2, <1>4, ResultsKept DEF serverVars
  <1>5. ASSUME GenerateOne
        PROVE  LedgerInv'
    <2>1. /\ UNCHANGED << serverVars, s2c, received_payload, last_ckpt, failovers_done,
                          left_out, forgotten >>
      BY <1>5 DEF GenerateOne, Generate, generate_request
    <2>2. AllResponses' \subseteq AllResponses /\ committed_upto' = committed_upto
      BY <2>1 DEF AllResponses, serverVars
    <2> QED BY <1>3, <1>4, <2>1, <2>2 DEF LedgerInv
  <1>6. ASSUME NEW req \in c2s \cup handling, Answers(req)
        PROVE  LedgerInv'
    <2>1. /\ on_request(req)
          /\ UNCHANGED << received_payload, last_ckpt, failovers_done, left_out, forgotten >>
      BY <1>6 DEF Answers, clientVars, historyVars
    <2>2. committed_upto' = committed_upto
      BY <2>1 DEF on_request, AskForReplay, ResendBuffered, ReprocessAwaiting,
                  AcknowledgeOnly, Stage, serverVars
    <2>3. ResultsInv' /\ ResultsStand
      BY <1>1, <1>2, <2>1, OnRequestResults
    <2> QED BY <1>3, <2>1, <2>2, <2>3 DEF LedgerInv
  <1>7. ASSUME NEW req \in handling, Recover(req)
        PROVE  LedgerInv'
    <2>1. /\ ingest_replay(build_replay(RecoverSignal(req.seq).recover_from))
          /\ UNCHANGED << s2c, received_payload, last_ckpt, failovers_done, left_out,
                          forgotten, next_seq >>
      BY <1>7 DEF Recover, clientVars, netVars, historyVars
    <2>2. ResultsInv' /\ ResultsStand
      BY <1>2, <2>1, IngestResults
    <2>3. committed_upto <= committed_upto' /\ committed_upto' = next_seq - 1 /\ next_seq \in Nat
      BY <1>1, <1>7, RecoverAdvances DEF TypeOK, ClientTypeOK, SeqNo
    <2>4. last_ckpt'.committed_upto <= committed_upto'
      BY <1>1, <2>1, <2>3 DEF LedgerInv
    <2> QED BY <1>3, <2>1, <2>2, <2>4
  <1>8. ASSUME CommitOne
        PROVE  LedgerInv'
    <2>1. /\ CommitNext \/ CommitDone
          /\ UNCHANGED << received_payload, last_ckpt, failovers_done, left_out, forgotten >>
      BY <1>8 DEF CommitOne, Commit, harnessVars, historyVars, clientVars
    <2>2. ResultsInv' /\ ResultsStand
      BY <1>1, <1>2, <2>1, CommitResults
    <2>3. committed_upto <= committed_upto' /\ committed_upto' \in Nat
      BY <1>1, <1>8, CommitOneCommits DEF CommitOne
    <2>4. last_ckpt'.committed_upto <= committed_upto'
      BY <1>1, <2>1, <2>3 DEF LedgerInv
    <2> QED BY <1>3, <2>1, <2>2, <2>4
  <1>9. ASSUME NEW resp \in s2c, ReceiveDue(resp)
        PROVE  LedgerInv'
    <2>1. /\ on_response(resp) \/ on_duplicate_response(resp)
          /\ s2c' \subseteq s2c
          /\ UNCHANGED << serverVars, committed_upto, last_ckpt, failovers_done, left_out,
                          forgotten >>
      BY <1>9 DEF ReceiveDue, DueResponse, harnessVars, historyVars, serverVars
    <2>2. ~resp.recover
      BY DEF HarnessInv, RoundInv, AllResponses
    <2>3. ResultsInv' /\ ResultsStand
      BY <1>2, <2>1, <2>2, OnResponseResults
    <2> QED BY <1>3, <2>1, <2>3 DEF LedgerInv
  <1>10. ASSUME Rests
         PROVE  LedgerInv'
    <2>1. /\ UNCHANGED << serverVars, received_payload, committed_upto, last_ckpt,
                          failovers_done, left_out, forgotten >>
          /\ AllResponses' \subseteq AllResponses
      BY <1>10 DEF Rests, QuietLinks, clientVars, serverVars, historyVars, AllResponses
    <2> QED BY <1>3, <1>4, <2>1 DEF LedgerInv
  <1>11. ASSUME TakeCheckpoint
         PROVE  LedgerInv'
    <2>1. /\ last_ckpt' = Snapshot /\ left_out' = awaiting
          /\ UNCHANGED << s2c, serverVars, received_payload, committed_upto, failovers_done,
                          forgotten >>
      BY <1>11 DEF TakeCheckpoint, vars, netVars, clientVars, serverVars
    <2>2. AllResponses' \subseteq AllResponses
      BY <2>1 DEF AllResponses, serverVars
    <2>3. ResultsInv' /\ ResultsStand
      BY <1>4, <2>1, <2>2
    <2>4. CheckpointResults(last_ckpt)'
      <3>1. CheckpointResults(last_ckpt')
        BY <1>2, <2>1, SnapshotResults
      <3> QED BY <2>3, <3>1 DEF CheckpointResults, ResultsStand
    <2>5. last_ckpt'.committed_upto <= committed_upto'
      BY <1>1, <2>1 DEF Snapshot
    <2>6. failovers_done = 0 => awaiting = {}
      BY DEF HarnessInv, FirstInv
    <2> QED BY <2>1, <2>3, <2>4, <2>5, <2>6 DEF LedgerInv
  <1>12. ASSUME InjectFailover
         PROVE  LedgerInv'
    <2>1. /\ RestoreFrom(last_ckpt) /\ failovers_done' = failovers_done + 1
          /\ forgotten' = forgotten \cup left_out
          /\ UNCHANGED << s2c, app_runs, received_payload, last_ckpt, left_out >>
      BY <1>12 DEF InjectFailover, netVars, clientVars
    <2>2. ResultsInv' /\ ResultsStand
      BY <1>2, <2>1, RestoreResults
    <2>3. CheckpointResults(last_ckpt)'
      BY <1>2, <2>1, <2>2 DEF CheckpointResults, ResultsStand
    <2>4. last_ckpt'.committed_upto <= committed_upto'
      BY <1>1, <2>1 DEF RestoreFrom
    <2>5. failovers_done' # 0 /\ (failovers_done' <= 1 => failovers_done = 0)
      BY <1>1, <2>1
    <2>6. failovers_done = 0 => forgotten' = {}
      BY <2>1 DEF LedgerInv
    <2> QED BY <2>2, <2>3, <2>4, <2>5, <2>6 DEF LedgerInv
  <1> QED BY <1>5, <1>6, <1>7, <1>8, <1>9, <1>10, <1>11, <1>12, HarnessSteps

LEMMA LedgerInvariant == HarnessSpec => []LedgerInv
  <1>1. HarnessInit => LedgerInv
    <2> SUFFICES ASSUME HarnessInit PROVE LedgerInv
      OBVIOUS
    <2>1. DOMAIN EmptyMap = {}
      BY DEF EmptyMap
    <2>2. ResultsInv
      BY <2>1 DEF HarnessInit, Init, NetInit, ClientInit, ServerInit, ResultsInv, AllResponses
    <2>3. CheckpointResults(last_ckpt) /\ last_ckpt.committed_upto <= committed_upto
      BY <2>1 DEF HarnessInit, Init, ServerInit, NoCheckpoint, CheckpointResults
    <2> QED BY <2>2, <2>3 DEF LedgerInv, HarnessInit
  <1>2. HarnessInv /\ LedgerInv /\ [HarnessNext]_rvars => LedgerInv'
    BY LedgerStep
  <1> QED BY <1>1, <1>2, HarnessInvariant, PTL DEF HarnessSpec

\* Both specifications build events and maps, and read histories, alike.
LEMMA RecoverableData ==
    /\ Recoverable!EmptyMap = EmptyMap
    /\ \A ids, n : Recoverable!Committed(ids, n) = Committed(ids, n)
    /\ \A map, key, value : Recoverable!Put(map, key, value) = Put(map, key, value)
    /\ \A h : Recoverable!RequestsIn(h) = RequestsIn(h)
    /\ \A h, n : Recoverable!EndsWith(h, n) <=> ReachedIn(h, n)
  BY DEF Recoverable!EmptyMap, EmptyMap, Recoverable!Committed, Committed,
     Recoverable!RspEvents, RspEvents, Recoverable!RspEvent, RspEvent,
     Recoverable!ReqEvent, ReqEvent, Recoverable!Put, Put, Recoverable!RequestsIn,
     RequestsIn, Recoverable!EndsWith, ReachedIn

\* A run by this server, for the first time, is Run.
LEMMA RunIsRun ==
    ASSUME NEW n, RunsHere(n)
    PROVE  Recoverable!Run(n)
  <1>1. CountOf(app_runs, n) + 1 = IF n \in DOMAIN app_runs THEN app_runs[n] + 1 ELSE 1
    BY DEF CountOf
  <1> QED BY <1>1, RecoverableData DEF RunsHere, Bump, Recoverable!Run

\* The first receipt of a response is Receive, or, without a payload, GoWithout.
LEMMA ReceiptIsReceipt ==
    ASSUME HarnessInv, LedgerInv, HarnessInv', LedgerInv', NEW resp \in s2c,
           on_response(resp), UNCHANGED << serverVars, harnessVars >>
    PROVE  \E n \in (1 .. (next_seq - 1)) \ received :
               Recoverable!Receive(n) \/ Recoverable!GoWithout(n)
  <1> DEFINE n == resp.seq
  <1>1. /\ resp \in AllResponses /\ n \notin received /\ resp \in Response
        /\ failovers_done \in Nat
    BY DEF AllResponses, on_response, HarnessInv, BaseInv, TypeOK, NetTypeOK
  <1>2. /\ n < next_seq /\ n \notin DOMAIN received_payload
        /\ resp.no_op \/ Ran(n, resp.payload)
    BY <1>1 DEF LedgerInv, ResultsInv, Genuine, HarnessInv, RoundInv, RunsInv, ReceiptsInv
  <1>3. n \in (1 .. (next_seq - 1)) \ received
    <2>1. n \in Nat \ {0} /\ next_seq \in Nat
      BY <1>1 DEF Response, SeqNo, HarnessInv, BaseInv, TypeOK, ClientTypeOK
    <2> QED BY <1>1, <1>2, <2>1
  <1>4. /\ UNCHANGED << c_history, next_seq, s_history, app_calls, app_runs,
                        failovers_done, forgotten >>
        /\ received' = received \cup {n}
    BY DEF on_response, serverVars, harnessVars, historyVars
  <1>5. CASE resp.no_op
    <2>1. UNCHANGED << pending_new, received_payload >>
      BY <1>5 DEF on_response
    <2>2. failovers_done > 1
      <3>1. received' \ DOMAIN received_payload' \subseteq forgotten'
        BY DEF HarnessInv, LossInv, AnswerableInv
      <3>2. forgotten # {}
        BY <1>2, <1>4, <2>1, <3>1
      <3>3. ~(failovers_done <= 1)
        BY <3>2 DEF LedgerInv
      <3> QED BY <1>1, <3>3
    <2>3. Recoverable!GoWithout(n)
      BY <1>4, <2>1, <2>2 DEF Recoverable!GoWithout, Recoverable!serverSide
    <2> QED BY <1>3, <2>3
  <1>6. CASE ~resp.no_op
    <2>1. /\ pending_new' = Append(pending_new, n)
          /\ received_payload' = Put(received_payload, n, resp.payload)
      BY <1>6 DEF on_response
    <2>2. n \in DOMAIN app_runs /\ resp.payload \in 1 .. app_runs[n]
      BY <1>2, <1>6 DEF Ran
    <2>3. Recoverable!Receive(n)
      BY <1>4, <2>1, <2>2, RecoverableData DEF Recoverable!Receive, Recoverable!serverSide
    <2> QED BY <1>3, <2>3
  <1> QED BY <1>5, <1>6

\* A step is one of the recoverable history, or changes nothing of it.
LEMMA RecoverableStep ==
    ASSUME HarnessInv, HarnessInv', LedgerInv, LedgerInv', HarnessNext \/ UNCHANGED rvars
    PROVE  [Recoverable!Next]_(Recoverable!vars)
  <1>1. /\ TypeOK /\ HistoryInv /\ OrderInv /\ OnceInv /\ HistoryInv'
        /\ committed_upto \in Nat /\ committed_upto' \in Nat /\ next_seq \in Nat
    BY DEF HarnessInv, BaseInv, AgreeInv, RunsInv, TypeOK, ServerTypeOK, ClientTypeOK, SeqNo
  <1>2. ASSUME UNCHANGED << clientVars, s_history, app_calls, app_runs, failovers_done >>
        PROVE  UNCHANGED Recoverable!vars
    BY <1>2 DEF clientVars, Recoverable!vars, Recoverable!clientSide, Recoverable!serverSide
  <1>3. ASSUME UNCHANGED clientVars
        PROVE  UNCHANGED Recoverable!clientSide
    BY <1>3 DEF clientVars, Recoverable!clientSide
  <1>4. ASSUME GenerateOne
        PROVE  Recoverable!Next
    <2>1. /\ next_seq' - 1 = (next_seq - 1) + 1
          /\ (next_seq - 1) + 1 = next_seq
          /\ c_history' = c_history \o Committed(pending_new, next_seq)
          /\ pending_new' = << >>
          /\ UNCHANGED << received, received_payload, s_history, app_calls, app_runs,
                          failovers_done >>
      BY <1>1, <1>4 DEF GenerateOne, Generate, generate_request, NextRequest, serverVars
    <2>2. Recoverable!Issue
      BY <2>1, RecoverableData DEF Recoverable!Issue, Recoverable!serverSide
    <2> QED BY <2>2 DEF Recoverable!Next
  <1>5. ASSUME NEW req \in c2s \cup handling, Answers(req)
        PROVE  [Recoverable!Next]_(Recoverable!vars)
    <2>1. /\ req \in Request /\ on_request(req) /\ UNCHANGED << clientVars, failovers_done >>
      BY <1>1, <1>5 DEF Answers, TypeOK, NetTypeOK, HarnessInv, BaseInv
    <2>2. CASE UNCHANGED << app_calls, app_runs >>
      BY <1>1, <1>2, <2>1, <2>2, OnRequestRunsLate
    <2>3. CASE ~UNCHANGED << app_calls, app_runs >>
      <3>1. PICK n \in 1 .. (next_seq - 1) : n \in RequestsIn(s_history) /\ RunsHere(n)
        BY <1>1, <2>1, <2>3, OnRequestRunsLate
      <3>2. s_history' = s_history
        BY <1>1, <2>1, OnRequestRunsLate
      <3>3. Recoverable!ServeLate(n)
        BY <1>3, <2>1, <3>1, <3>2, RunIsRun, RecoverableData DEF Recoverable!ServeLate
      <3> QED BY <3>3 DEF Recoverable!Next
    <2> QED BY <2>2, <2>3
  <1>6. ASSUME NEW req \in handling, Recover(req)
        PROVE  [Recoverable!Next]_(Recoverable!vars)
    <2>1. UNCHANGED << clientVars, app_calls, app_runs, failovers_done >>
      BY <1>6 DEF Recover, ingest_replay
    <2>2. /\ committed_upto \in 0 .. (next_seq - 1)
          /\ committed_upto' \in 0 .. (next_seq - 1)
          /\ ReachedIn(s_history, committed_upto)
          /\ ReachedIn(s_history', committed_upto')
          /\ committed_upto = committed_upto' => s_history = s_history'
      BY <1>1, <2>1, MovesAlong
    <2>3. committed_upto <= committed_upto'
      BY <1>6, RecoverAdvances
    <2>4. CASE committed_upto = committed_upto'
      BY <1>2, <2>1, <2>2, <2>4
    <2>5. CASE committed_upto < committed_upto'
      <3>1. Recoverable!CatchUp(committed_upto, committed_upto')
        BY <1>3, <2>1, <2>2, <2>5, RecoverableData DEF Recoverable!CatchUp
      <3> QED BY <2>2, <3>1 DEF Recoverable!Next
    <2> QED BY <1>1, <2>3, <2>4, <2>5
  <1>7. ASSUME CommitOne
        PROVE  [Recoverable!Next]_(Recoverable!vars)
    <2>1. UNCHANGED << clientVars, failovers_done >> /\ Commit
      BY <1>7 DEF CommitOne, Commit, harnessVars
    <2>2. CASE CommitDone
      BY <1>2, <2>1, <2>2 DEF CommitDone
    <2>3. CASE CommitNext
      <3>1. PICK n \in 1 .. (next_seq - 1) :
                ReachedIn(s_history, n - 1) /\ ReachedIn(s_history', n) /\ RunsHere(n)
        BY <1>1, <2>1, <2>3, CommitTakesNext
      <3>2. Recoverable!Serve(n)
        BY <1>3, <2>1, <3>1, RunIsRun, RecoverableData DEF Recoverable!Serve
      <3> QED BY <3>2 DEF Recoverable!Next
    <2> QED BY <2>1, <2>2, <2>3 DEF Commit
  <1>8. ASSUME NEW resp \in s2c, ReceiveDue(resp)
        PROVE  [Recoverable!Next]_(Recoverable!vars)
    <2>1. CASE on_response(resp)
      BY <1>8, <2>1, ReceiptIsReceipt DEF ReceiveDue, Recoverable!Next
    <2>2. CASE on_duplicate_response(resp)
      BY <1>2, <1>8, <2>2 DEF ReceiveDue, on_duplicate_response, serverVars, harnessVars
    <2> QED BY <1>8, <2>1, <2>2 DEF ReceiveDue
  <1>9. ASSUME Rests \/ TakeCheckpoint
        PROVE  UNCHANGED Recoverable!vars
    BY <1>2, <1>9 DEF Rests, QuietLinks, TakeCheckpoint, vars, serverVars
  <1>10. ASSUME InjectFailover
         PROVE  Recoverable!Next
    <2>1. /\ RestoreFrom(last_ckpt) /\ failovers_done' = failovers_done + 1
          /\ UNCHANGED << clientVars, app_runs >>
      BY <1>10 DEF InjectFailover
    <2>2. committed_upto' = last_ckpt.committed_upto /\ DOMAIN app_calls' = {}
      BY <2>1 DEF RestoreFrom, EmptyMap
    <2>3. /\ committed_upto \in 0 .. (next_seq - 1)
          /\ committed_upto' \in 0 .. (next_seq - 1)
          /\ ReachedIn(s_history, committed_upto)
          /\ ReachedIn(s_history', committed_upto')
      BY <1>1, <2>1, MovesAlong
    <2>4. committed_upto' <= committed_upto
      BY <2>2 DEF LedgerInv
    <2>5. Recoverable!FallBack(committed_upto, committed_upto')
      BY <1>3, <2>1, <2>2, <2>3, <2>4, RecoverableData DEF Recoverable!FallBack
    <2> QED BY <2>3, <2>5 DEF Recoverable!Next
  <1> QED BY <1>4, <1>5, <1>6, <1>7, <1>8, <1>9, <1>10, HarnessSteps

\* The harness drives the recoverable history with a server that never strays, however
\* many failovers it injects: a server falls back only to an earlier request of the
\* client's history, one replay takes it forward again, it runs a request at most once,
\* and what on_response delivers is the result of a run.
THEOREM HarnessRecovers == HarnessSpec => ImplementsRecoverableHistory
  <1>1. HarnessInit => Recoverable!Init
    <2>1. DOMAIN EmptyMap = {}
      BY DEF EmptyMap
    <2> QED BY <2>1, RecoverableData DEF HarnessInit, Init, ClientInit, ServerInit, Recoverable!Init
  <1>2. HarnessInv /\ HarnessInv' /\ LedgerInv /\ LedgerInv' /\ [HarnessNext]_rvars
        => [Recoverable!Next]_(Recoverable!vars)
    BY RecoverableStep
  <1> QED BY <1>1, <1>2, HarnessInvariant, LedgerInvariant, PTL
          DEF HarnessSpec, ImplementsRecoverableHistory, Recoverable!Spec
=============================================================================
