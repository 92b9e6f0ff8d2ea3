----------------------------- MODULE HttpProofs -----------------------------
(***************************************************************************)
(* Proofs about HttpExchange, for every number of calls, threads and       *)
(* commits between two checkpoints.  The HTTP programs implement the       *)
(* conversation, so what DeliveryProofs proves of it holds of them; with   *)
(* that, an attempt is never forgotten, an object is held exactly for the  *)
(* staged requests, and the checkpoint file keeps up.                      *)
(***************************************************************************)
EXTENDS HttpExchange, FiniteSetTheorems, TLAPS

\* Conversation with its theorems, under the refinement mapping of Lossy.
Core == INSTANCE RecoveryProofs WITH KeepCopies <- FALSE, s2c <- responses

\* The assumptions that the theorems of Core rest on.
LEMMA CoreAssumptions ==
    (MaxSeq \in Nat \ {0} /\ Window \in Nat \ {0}) /\ FALSE \in BOOLEAN
  BY HttpBoundsAssumption

-----------------------------------------------------------------------------
(* Refinement of Conversation.                                             *)

\* Every attempt carries a frozen request, and every answer on its way back is one to
\* the request of its thread, and not a recovery signal.
LinkInv ==
    /\ \A n \in sending : \E req \in c2s : req.seq = n
    /\ \A p \in posts : \E req \in c2s : req.seq = p.seq
    /\ \A n \in DOMAIN replies : replies[n].seq = n /\ ~replies[n].recover

\* The request an attempt carries is one of those frozen.
LEMMA RequestFound ==
    ASSUME LinkInv, NEW p \in posts
    PROVE  RequestOf(p.seq) \in c2s /\ RequestOf(p.seq).seq = p.seq
  BY DEF LinkInv, RequestOf

\* No step leaves an attempt without its request.
LEMMA LinkStep ==
    ASSUME LinkInv, [HttpNext]_hvars
    PROVE  LinkInv'
  <1>1. CASE Send
    <2> DEFINE r == NextRequest
    <2>1. /\ r.seq = next_seq /\ c2s' = c2s \cup {r}
          /\ DOMAIN inflight' = DOMAIN inflight \cup {next_seq}
          /\ UNCHANGED << posts, replies >>
      BY <1>1 DEF Send, generate_request, SendRequest, NextRequest, Put, httpVars
    <2> HIDE DEF r
    <2> QED BY <2>1 DEF LinkInv, sending
  <1>2. ASSUME NEW n \in sending, Post(n)
        PROVE  LinkInv'
    BY <1>2 DEF Post, LinkInv, sending, Live, netVars, clientVars
  <1>3. ASSUME NEW n \in posting, GiveUp(n)
        PROVE  LinkInv'
    BY <1>3 DEF GiveUp, LinkInv, sending, Live, Superseded, netVars, clientVars,
                RepliesWithout, Erase
  <1>4. ASSUME NEW n \in DOMAIN replies, Receive(n)
        PROVE  LinkInv'
    <2>1. DOMAIN inflight' \subseteq DOMAIN inflight
      BY <1>4 DEF Receive, on_response, on_duplicate_response, Erase, clientVars
    <2> QED BY <1>4, <2>1 DEF Receive, LinkInv, sending, Erase, netVars
  <1>5. ASSUME NEW p \in posts, OnRequest(p)
        PROVE  LinkInv'
    BY <1>5 DEF OnRequest, LinkInv, sending, clientVars
  <1>6. CASE CoreCommit
    BY <1>6 DEF CoreCommit, LinkInv, sending, clientVars, httpVars
  <1>7. ASSUME NEW resp \in s2c, Complete(resp)
        PROVE  LinkInv'
    BY <1>7 DEF Complete, LinkInv, sending, clientVars, RepliesWith, Put
  <1>8. CASE WriteCheckpoint
    BY <1>8 DEF WriteCheckpoint, LinkInv, sending, clientVars, netVars
  <1>9. CASE UNCHANGED hvars
    BY <1>9 DEF hvars, LinkInv, sending, clientVars, netVars, httpVars
  <1> QED BY <1>1, <1>2, <1>3, <1>4, <1>5, <1>6, <1>7, <1>8, <1>9 DEF HttpNext

\* So an attempt never outlives the request it carries.
LEMMA LinkInvariant == HttpSpec => []LinkInv
  <1>1. HttpInit => LinkInv
    BY DEF HttpInit, NetInit, ClientInit, LinkInv, sending, EmptyMap
  <1> QED BY <1>1, LinkStep, PTL DEF HttpSpec

\* send() generates.
LEMMA SendRefines ==
    ASSUME Send
    PROVE  Core!Generate
  <1>1. responses' = responses
    BY DEF Send, httpVars, responses
  <1>2. UNCHANGED Core!serverVars
    BY DEF Send, serverVars, Core!serverVars
  <1>3. Core!generate_request
    BY DEF Send, generate_request, Core!generate_request, NextRequest, Core!NextRequest,
           SendRequest, Core!SendRequest, Put, Core!Put, Committed, Core!Committed,
           RspEvents, Core!RspEvents, ReqEvent, Core!ReqEvent, RspEvent, Core!RspEvent
  <1>4. Core!Cardinality(sending) = Cardinality(sending)
    BY Zenon DEF Cardinality, Core!Cardinality
  <1> QED BY <1>1, <1>2, <1>3, <1>4 DEF Send, WorkerFree, sending, Core!Generate,
                                       Core!outstanding

\* The client and the server rest and at most one response disappears.
LEMMA RestRefines ==
    ASSUME UNCHANGED << c2s, clientVars, serverVars >>,
           NEW x, responses' \subseteq responses, responses \subseteq responses' \cup {x}
    PROVE  Core!Lose \/ UNCHANGED Core!vars
  <1>1. UNCHANGED << Core!clientVars, Core!serverVars >>
    BY DEF clientVars, serverVars, Core!clientVars, Core!serverVars
  <1>2. CASE responses' = responses
    BY <1>1, <1>2 DEF Core!vars, Core!netVars
  <1>3. CASE responses' # responses
    <2>1. x \in responses /\ responses' = responses \ {x}
      BY <1>3
    <2> QED BY <1>1, <2>1 DEF Core!Lose, Core!LoseResponse
  <1> QED BY <1>2, <1>3

\* An answer is given up, or handed out.
LEMMA RestSteps ==
    ASSUME \/ \E n \in sending : Post(n)
           \/ \E n \in posting : GiveUp(n)
           \/ \E resp \in s2c : Complete(resp)
           \/ WriteCheckpoint
           \/ UNCHANGED hvars
    PROVE  Core!Lose \/ UNCHANGED Core!vars
  <1>1. ASSUME UNCHANGED << c2s, s2c, clientVars, serverVars, replies >>
        PROVE  Core!Lose \/ UNCHANGED Core!vars
    <2>1. responses' = responses
      BY <1>1 DEF responses
    <2> QED BY <1>1, <2>1, RestRefines
  <1>2. ASSUME NEW n \in posting, GiveUp(n)
        PROVE  Core!Lose \/ UNCHANGED Core!vars
    <2>1. /\ UNCHANGED << c2s, s2c, clientVars, serverVars >>
          /\ DOMAIN replies' = DOMAIN replies \ {n}
          /\ \A m \in DOMAIN replies' : replies'[m] = replies[m]
      BY <1>2 DEF GiveUp, RepliesWithout, Erase, netVars
    <2>2. /\ responses' \subseteq responses
          /\ responses \subseteq responses' \cup {replies[n]}
      BY <2>1 DEF responses
    <2> QED BY <2>1, <2>2, RestRefines
  <1>3. ASSUME NEW resp \in s2c, Complete(resp)
        PROVE  Core!Lose \/ UNCHANGED Core!vars
    <2>1. UNCHANGED << c2s, clientVars, serverVars >> /\ s2c' = s2c \ {resp}
      BY <1>3 DEF Complete
    <2>2. CASE replies' = replies
      <3>1. responses' \subseteq responses /\ responses \subseteq responses' \cup {resp}
        BY <2>1, <2>2 DEF responses
      <3> QED BY <2>1, <3>1, RestRefines
    <2>3. CASE replies' = Put(replies, resp.seq, resp)
      <3>1. /\ DOMAIN replies' = DOMAIN replies \cup {resp.seq}
            /\ \A m \in DOMAIN replies' :
                   replies'[m] = IF m = resp.seq THEN resp ELSE replies[m]
        BY <2>3 DEF Put
      <3>2. /\ responses' \subseteq responses
            /\ responses \subseteq responses' \cup {replies[resp.seq]}
        BY <2>1, <3>1 DEF responses
      <3> QED BY <2>1, <3>2, RestRefines
    <2> QED BY <1>3, <2>2, <2>3 DEF Complete, RepliesWith
  <1>4. ASSUME (\E n \in sending : Post(n)) \/ WriteCheckpoint \/ UNCHANGED hvars
        PROVE  UNCHANGED << c2s, s2c, clientVars, serverVars, replies >>
    BY <1>4 DEF Post, WriteCheckpoint, hvars, netVars, httpVars
  <1> QED BY <1>1, <1>2, <1>3, <1>4

\* post() returns with an answer.
LEMMA ReceiveRefines ==
    ASSUME LinkInv, NEW n \in DOMAIN replies, Receive(n)
    PROVE  \E resp \in responses : Core!DeliverResponse(resp)
  <1> DEFINE resp == replies[n]
  <1>1. /\ UNCHANGED << c2s, s2c, serverVars >>
        /\ on_response(resp) \/ on_duplicate_response(resp)
        /\ DOMAIN replies' = DOMAIN replies \ {n}
        /\ \A m \in DOMAIN replies' : replies'[m] = replies[m]
    BY DEF Receive, Erase, netVars
  <1>2. resp \in responses /\ ~resp.recover
    BY DEF LinkInv, responses
  <1>3. responses' = responses \/ responses' = responses \ {resp}
    <2>1. responses' \subseteq responses /\ responses \subseteq responses' \cup {resp}
      BY <1>1 DEF responses
    <2> QED BY <2>1
  <1> HIDE DEF resp
  <1>4. UNCHANGED Core!serverVars
    BY <1>1 DEF serverVars, Core!serverVars
  <1>5. Core!on_response(resp) \/ Core!on_duplicate_response(resp)
    <2>1. CASE on_duplicate_response(resp)
      BY <2>1 DEF on_duplicate_response, Core!on_duplicate_response, clientVars,
                  Core!clientVars
    <2>2. CASE on_response(resp)
      <3>1. HashDisagrees(resp) <=> Core!HashDisagrees(resp)
        BY DEF HashDisagrees, Core!HashDisagrees, NoHash, Core!NoHash
      <3>2. AdvanceBase <=> Core!AdvanceBase
        BY DEF AdvanceBase, Core!AdvanceBase
      <3> QED BY <2>2, <3>1, <3>2 DEF on_response, Core!on_response, Put, Core!Put,
                                     Erase, Core!Erase
    <2> QED BY <1>1, <2>1, <2>2
  <1> QED BY <1>1, <1>2, <1>3, <1>4, <1>5 DEF Core!DeliverResponse, Core!DueResponse

\* OnRequest hands an attempt to the core.
LEMMA OnRequestRefines ==
    ASSUME LinkInv, NEW p \in posts, OnRequest(p)
    PROVE  \E req \in c2s : Core!DeliverRequest(req)
  <1> SUFFICES ASSUME NEW req \in c2s, on_request(req), UNCHANGED << c2s, clientVars, replies >>
               PROVE  Core!on_request(req) /\ UNCHANGED Core!clientVars
    BY RequestFound DEF OnRequest, Core!DeliverRequest, Core!DueRequest
  <1>1. UNCHANGED Core!clientVars
    BY DEF clientVars, Core!clientVars
  <1>2. ASSUME NEW R, s2c' = s2c \cup R
        PROVE  responses' = responses \cup R
    BY <1>2 DEF responses
  <1>3. needs_recover(req) <=> Core!needs_recover(req)
    BY DEF needs_recover, Core!needs_recover, Ids, Core!Ids
  <1>4. release_acked(req) = Core!release_acked(req)
    BY DEF release_acked, Core!release_acked, Ids, Core!Ids, Erase, Core!Erase
  <1>5. \A n, d, b, h : make_response(n, d, b, h) = Core!make_response(n, d, b, h)
    BY Zenon DEF make_response, Core!make_response, NoHash, Core!NoHash
  <1>6. CASE AskForReplay(req)
    <2> DEFINE r == RecoverSignal(req.seq)
    <2>1. r = Core!RecoverSignal(req.seq)
      BY DEF RecoverSignal, Core!RecoverSignal, NoPayload, Core!NoPayload, NoHash, Core!NoHash
    <2>2. s2c' = s2c \cup {r} /\ ~draining /\ needs_recover(req) /\ UNCHANGED serverVars
      BY <1>6 DEF AskForReplay, SendResponses
    <2> HIDE DEF r
    <2>3. Core!AskForReplay(req)
      BY <1>2, <1>3, <2>1, <2>2 DEF Core!AskForReplay, Core!SendResponses, serverVars,
                                    Core!serverVars
    <2> QED BY <1>1, <2>3 DEF Core!on_request
  <1>7. CASE ResendBuffered(req)
    <2> DEFINE r == make_response(req.seq, resp_buffer[req.seq], FALSE, s_req_hash)
    <2>1. r = Core!make_response(req.seq, resp_buffer[req.seq], FALSE, s_req_hash)
      BY <1>5
    <2>2. s2c' = s2c \cup {r}
      BY <1>7 DEF ResendBuffered, SendResponses
    <2> HIDE DEF r
    <2>3. responses' = responses \cup {r}
      BY <1>2, <2>2
    <2>4. Core!ResendBuffered(req)
      BY <1>3, <1>4, <1>7, <2>1, <2>3 DEF ResendBuffered, Core!ResendBuffered,
                                          Core!SendResponses
    <2> QED BY <1>1, <2>4 DEF Core!on_request
  <1>8. CASE ReprocessAwaiting(req)
    <2> DEFINE a == AppResult(req.seq)
               r == make_response(req.seq, a, FALSE, s_req_hash)
    <2>1. r = Core!make_response(req.seq, a, FALSE, s_req_hash)
      BY <1>5
    <2>2. a = Core!AppResult(req.seq)
      BY DEF AppResult, Core!AppResult, CountOf, Core!CountOf
    <2>3. s2c' = s2c \cup {r} /\ resp_buffer' = Put(release_acked(req), req.seq, a)
      BY <1>8 DEF ReprocessAwaiting, SendResponses
    <2>4. \A m, n : Bump(m, n) = Core!Bump(m, n)
      BY DEF Bump, Core!Bump, Put, Core!Put, CountOf, Core!CountOf
    <2>5. \A m, n, v : Put(m, n, v) = Core!Put(m, n, v)
      BY DEF Put, Core!Put
    <2> HIDE DEF r, a
    <2>6. responses' = responses \cup {r}
      BY <1>2, <2>3
    <2>7. Core!ReprocessAwaiting(req)
      BY <1>3, <1>4, <1>8, <2>1, <2>2, <2>3, <2>4, <2>5, <2>6
         DEF ReprocessAwaiting, Core!ReprocessAwaiting, Core!SendResponses, LeftAwaiting,
             Core!LeftAwaiting
    <2> QED BY <1>1, <2>7 DEF Core!on_request
  <1>9. CASE AcknowledgeOnly(req)
    <2> DEFINE r == make_response(req.seq, NoPayload, TRUE, s_req_hash)
    <2>1. r = Core!make_response(req.seq, Core!NoPayload, TRUE, s_req_hash)
      BY <1>5 DEF NoPayload, Core!NoPayload
    <2>2. s2c' = s2c \cup {r}
      BY <1>9 DEF AcknowledgeOnly, SendResponses
    <2> HIDE DEF r
    <2>3. responses' = responses \cup {r}
      BY <1>2, <2>2
    <2>4. Core!AcknowledgeOnly(req)
      BY <1>3, <1>4, <1>9, <2>1, <2>3 DEF AcknowledgeOnly, Core!AcknowledgeOnly,
                                          Core!SendResponses, LeftAwaiting, Core!LeftAwaiting
    <2> QED BY <1>1, <2>4 DEF Core!on_request
  <1>10. CASE Stage(req)
    <2>1. responses' = responses
      BY <1>10 DEF Stage, responses
    <2>2. Core!Stage(req)
      BY <1>3, <1>4, <1>10, <2>1 DEF Stage, Core!Stage, Put, Core!Put
    <2> QED BY <1>1, <2>2 DEF Core!on_request
  <1> QED BY <1>6, <1>7, <1>8, <1>9, <1>10 DEF on_request

\* The commit loop of the core.
LEMMA CoreCommitRefines ==
    ASSUME CoreCommit
    PROVE  Core!Commit
  <1>1. UNCHANGED << c2s, Core!clientVars, replies >>
    BY DEF CoreCommit, clientVars, Core!clientVars, httpVars
  <1>2. CASE CommitDone
    <2>1. responses' = responses \cup out
      BY <1>1, <1>2 DEF CommitDone, SendResponses, responses
    <2>2. Core!CommitDone
      BY <1>2, <2>1 DEF CommitDone, Core!CommitDone, Core!SendResponses, NextInOrder,
                        Core!NextInOrder
    <2> QED BY <1>1, <2>2 DEF Core!Commit
  <1>3. CASE CommitNext
    <2> DEFINE n == committed_upto + 1
               r == pending_reqs[n]
               h == s_history \o EventsOf(r)
               a == AppResult(n)
    <2>1. h = s_history \o Core!EventsOf(r)
      BY DEF EventsOf, Core!EventsOf, Committed, Core!Committed, RspEvents, Core!RspEvents,
             RspEvent, Core!RspEvent, ReqEvent, Core!ReqEvent
    <2>2. a = Core!AppResult(n)
      BY DEF AppResult, Core!AppResult, CountOf, Core!CountOf
    <2>3. \A m, k, v : Put(m, k, v) = Core!Put(m, k, v)
      BY DEF Put, Core!Put
    <2>4. \A m, k : Bump(m, k) = Core!Bump(m, k)
      BY DEF Bump, Core!Bump, Put, Core!Put, CountOf, Core!CountOf
    <2>5. \A m, k : Erase(m, k) = Core!Erase(m, k)
      BY DEF Erase, Core!Erase
    <2>6. make_response(n, a, FALSE, s_req_hash') = Core!make_response(n, a, FALSE, s_req_hash')
      BY DEF make_response, Core!make_response, NoHash, Core!NoHash
    <2>7. responses' = responses
      BY <1>1, <1>3 DEF CommitNext, responses
    <2>8. /\ draining /\ n \in DOMAIN pending_reqs
          /\ pending_reqs' = Erase(pending_reqs, {n})
          /\ s_history' = h
          /\ s_req_hash' = Put(s_req_hash, n, h)
          /\ s_mismatch' = IF r.hash # h THEN s_mismatch \cup {n} ELSE s_mismatch
          /\ committed_upto' = n
          /\ app_calls' = Bump(app_calls, n)
          /\ app_runs' = Bump(app_runs, n)
          /\ resp_buffer' = Put(resp_buffer, n, a)
          /\ out' = out \cup {make_response(n, a, FALSE, s_req_hash')}
          /\ UNCHANGED << awaiting, draining >>
      BY <1>3 DEF CommitNext, NextInOrder
    <2> HIDE DEF h, a
    <2>9. Core!CommitNext
      BY <2>1, <2>2, <2>3, <2>4, <2>5, <2>6, <2>7, <2>8 DEF Core!CommitNext, Core!NextInOrder
    <2> QED BY <1>1, <2>9 DEF Core!Commit
  <1> QED BY <1>2, <1>3 DEF CoreCommit

\* Every step of the programs is one of the conversation, or changes nothing there.
LEMMA CoreSpec == HttpSpec => Core!Spec
  <1>1. HttpInit => Core!Init
    BY DEF HttpInit, NetInit, ClientInit, ServerInit, EmptyMap, responses, Core!Init,
           Core!NetInit, Core!ClientInit, Core!ServerInit, Core!EmptyMap
  <1>2. LinkInv /\ [HttpNext]_hvars => [Core!Next]_Core!vars
    <2> SUFFICES ASSUME LinkInv, [HttpNext]_hvars PROVE Core!Next \/ UNCHANGED Core!vars
      OBVIOUS
    <2>1. CASE Send
      BY <2>1, SendRefines DEF Core!Next
    <2>2. CASE \E n \in DOMAIN replies : Receive(n)
      BY <2>2, ReceiveRefines DEF Core!Next
    <2>3. CASE \E p \in posts : OnRequest(p)
      BY <2>3, OnRequestRefines DEF Core!Next
    <2>4. CASE CoreCommit
      BY <2>4, CoreCommitRefines DEF Core!Next
    <2>5. CASE \/ \E n \in sending : Post(n)
               \/ \E n \in posting : GiveUp(n)
               \/ \E resp \in s2c : Complete(resp)
               \/ WriteCheckpoint
               \/ UNCHANGED hvars
      BY <2>5, RestSteps DEF Core!Next
    <2> QED BY <2>1, <2>2, <2>3, <2>4, <2>5 DEF HttpNext
  <1> QED BY <1>1, <1>2, LinkInvariant, PTL DEF HttpSpec, Core!Spec

\* Two instances of the conversation, one specification.
LEMMA SameSpec == Core!Spec => Lossy!Spec
  <1>1. Core!Init => Lossy!Init
    BY DEF Core!Init, Core!NetInit, Core!ClientInit, Core!ServerInit, Core!EmptyMap,
           Lossy!Init, Lossy!NetInit, Lossy!ClientInit, Lossy!ServerInit, Lossy!EmptyMap
  <1>2. [Core!Next]_Core!vars => [Lossy!Next]_Lossy!vars
    BY DEF Core!vars, Lossy!vars, Core!netVars, Lossy!netVars, Core!clientVars,
           Lossy!clientVars, Core!serverVars, Lossy!serverVars, Core!Next, Lossy!Next,
           Core!Generate, Lossy!Generate, Core!outstanding, Lossy!outstanding,
           Core!generate_request, Lossy!generate_request, Core!NextRequest,
           Lossy!NextRequest, Core!Committed, Lossy!Committed, Core!RspEvents,
           Lossy!RspEvents, Core!RspEvent, Lossy!RspEvent, Core!ReqEvent,
           Lossy!ReqEvent, Core!Put, Lossy!Put, Core!SendRequest, Lossy!SendRequest,
           Core!Cardinality, Lossy!Cardinality, Core!Resend, Lossy!Resend,
           Core!Retransmit, Lossy!Retransmit, Core!DeliverRequest,
           Lossy!DeliverRequest, Core!DueRequest, Lossy!DueRequest, Core!on_request,
           Lossy!on_request, Core!AskForReplay, Lossy!AskForReplay, Core!needs_recover,
           Lossy!needs_recover, Core!Ids, Lossy!Ids, Core!SendResponses,
           Lossy!SendResponses, Core!RecoverSignal, Lossy!RecoverSignal,
           Core!NoPayload, Lossy!NoPayload, Core!NoHash, Lossy!NoHash,
           Core!ResendBuffered, Lossy!ResendBuffered, Core!release_acked,
           Lossy!release_acked, Core!Erase, Lossy!Erase, Core!make_response,
           Lossy!make_response, Core!ReprocessAwaiting, Lossy!ReprocessAwaiting,
           Core!LeftAwaiting, Lossy!LeftAwaiting, Core!AppResult, Lossy!AppResult,
           Core!CountOf, Lossy!CountOf, Core!Bump, Lossy!Bump, Core!AcknowledgeOnly,
           Lossy!AcknowledgeOnly, Core!Stage, Lossy!Stage, Core!Commit, Lossy!Commit,
           Core!CommitNext, Lossy!CommitNext, Core!CommitDone, Lossy!CommitDone,
           Core!NextInOrder, Lossy!NextInOrder, Core!EventsOf, Lossy!EventsOf,
           Core!DeliverResponse, Lossy!DeliverResponse, Core!DueResponse,
           Lossy!DueResponse, Core!on_response, Lossy!on_response, Core!HashDisagrees,
           Lossy!HashDisagrees, Core!AdvanceBase, Lossy!AdvanceBase,
           Core!on_duplicate_response, Lossy!on_duplicate_response, Core!Lose,
           Lossy!Lose, Core!LoseRequest, Lossy!LoseRequest, Core!LoseResponse,
           Lossy!LoseResponse
  <1> QED BY <1>1, <1>2, PTL DEF Core!Spec, Lossy!Spec

\* The HTTP programs implement the conversation: the attempts of a request are copies
\* of it on a lossy link, an answer that nobody listens for is one that is lost, and
\* what the interceptor and the threads add changes nothing for the two cores.
THEOREM RefinesConversation == HttpSpec => ImplementsConversation
  BY CoreSpec, SameSpec, PTL DEF ImplementsConversation

\* So what is proved of the conversation holds of the HTTP programs: the histories
\* agree, no hash does not, no reply is lost, every request is run exactly once, none is
\* answered with 503, buffers stay within the window, and a quiet client has converged.
THEOREM ConversationOverHttp ==
    HttpSpec => [](/\ Lossy!HistoryAgreement
                   /\ Lossy!NoMismatch
                   /\ Lossy!NoLostReply
                   /\ Lossy!ExactlyOnce
                   /\ Lossy!NeverAsksForReplay
                   /\ Lossy!Bounded
                   /\ Lossy!ConvergedWhenQuiet)
  <1>1. Core!Spec => []Core!HistoryAgreement
    BY Core!AgreementCorrect, CoreAssumptions
  <1>2. Core!Spec => []Core!NoMismatch
    BY Core!NoMismatchCorrect, CoreAssumptions
  <1>3. Core!Spec => []Core!NoLostReply
    BY Core!NoReplyLost, CoreAssumptions
  <1>4. Core!Spec => []Core!ExactlyOnce
    BY Core!ExactlyOnceCorrect, CoreAssumptions
  <1>5. Core!HistoryAgreement => Lossy!HistoryAgreement
    BY DEF Core!HistoryAgreement, Lossy!HistoryAgreement, Core!HistoryAt, Lossy!HistoryAt,
           Core!IsPrefixOf, Lossy!IsPrefixOf
  <1>6. /\ Core!NoMismatch => Lossy!NoMismatch
        /\ Core!NoLostReply => Lossy!NoLostReply
        /\ Core!ExactlyOnce => Lossy!ExactlyOnce
    BY DEF Core!NoMismatch, Lossy!NoMismatch, Core!NoLostReply, Lossy!NoLostReply,
           Core!ExactlyOnce, Lossy!ExactlyOnce
  <1>7. Core!Spec => []Core!NeverAsksForReplay
    BY Core!NoSpuriousRecovery, CoreAssumptions
  <1>8. Core!Spec => []Core!Bounded
    BY Core!BoundedCorrect, CoreAssumptions
  <1>9. Core!Spec => []Core!ConvergedWhenQuiet
    BY Core!QuietConverged, CoreAssumptions
  <1>10. /\ Core!NeverAsksForReplay => Lossy!NeverAsksForReplay
         /\ Core!ConvergedWhenQuiet => Lossy!ConvergedWhenQuiet
    BY DEF Core!NeverAsksForReplay, Lossy!NeverAsksForReplay, Core!needs_recover,
           Lossy!needs_recover, Core!Ids, Lossy!Ids, Core!ConvergedWhenQuiet,
           Lossy!ConvergedWhenQuiet, Core!outstanding, Lossy!outstanding
  <1>11. Core!Bounded => Lossy!Bounded
    BY DEF Core!Bounded, Lossy!Bounded, Core!Cardinality, Lossy!Cardinality
  <1> QED BY <1>1, <1>2, <1>3, <1>4, <1>5, <1>6, <1>7, <1>8, <1>9, <1>10, <1>11,
          CoreSpec, PTL

\* And the two programs share one history: each step writes to it, takes the next request
\* from it, delivers one answer, or changes nothing of it.
THEOREM HttpSharesHistory == HttpSpec => Core!ImplementsSharedHistory
  <1>1. Core!Spec => Core!ImplementsSharedHistory
    BY Core!RefinesSharedHistory, CoreAssumptions
  <1> QED BY <1>1, CoreSpec, PTL

-----------------------------------------------------------------------------
(* What the conversation guarantees about the core.                        *)

\* The server and what it has to answer with are well typed.
CoreTypes ==
    /\ ClientTypeOK
    /\ ServerTypeOK
    /\ c2s \subseteq Request
    /\ s2c \subseteq Response
    /\ DOMAIN resp_buffer \subseteq DOMAIN s_req_hash

\* No request asks for a replay; what is to be handed out is committed, and what is
\* staged is not.
CoreAnswers ==
    /\ \A req \in c2s : ~needs_recover(req)
    /\ \A resp \in s2c \cup out : resp.seq \in 1 .. committed_upto
    /\ \A n \in DOMAIN pending_reqs : n > committed_upto

CoreInv == CoreTypes /\ CoreAnswers

\* What the theorems of Core say of the cores, read in the variables of the HTTP
\* programs.
LEMMA CoreInvariant == HttpSpec => []CoreInv
  <1>1. Core!Spec => []Core!TypeOK
    BY Core!TypeCorrect, CoreAssumptions
  <1>2. Core!Spec => []Core!AckInv
    BY Core!AckInvariant, CoreAssumptions
  <1>3. Core!Spec => []Core!WindowInv
    BY Core!WindowInvariant, CoreAssumptions
  <1>4. Core!Spec => []Core!HashedInv
    BY Core!HashedInvariant, CoreAssumptions
  <1>5. Core!TypeOK /\ Core!HashedInv => CoreTypes
    <2> SUFFICES ASSUME Core!TypeOK, Core!HashedInv PROVE CoreTypes
      OBVIOUS
    <2>1. /\ Event = Core!Event /\ Hash = Core!Hash /\ SeqNo = Core!SeqNo
          /\ Request = Core!Request /\ Response = Core!Response
      BY DEF Event, Hash, SeqNo, Request, Response, Core!Event, Core!Hash, Core!SeqNo,
             Core!Request, Core!Response
    <2>2. Core!NetTypeOK /\ Core!ClientTypeOK /\ Core!ServerTypeOK
      BY DEF Core!TypeOK
    <2>3. ClientTypeOK
      BY <2>1, <2>2 DEF Core!ClientTypeOK, ClientTypeOK
    <2>4. ServerTypeOK
      BY <2>1, <2>2 DEF Core!ServerTypeOK, ServerTypeOK
    <2>5. c2s \subseteq Request /\ s2c \subseteq Response
      BY <2>1, <2>2 DEF Core!NetTypeOK, responses
    <2> QED BY <2>3, <2>4, <2>5 DEF CoreTypes, Core!HashedInv
  <1>6. Core!TypeOK /\ Core!AckInv /\ Core!WindowInv => CoreAnswers
    <2> SUFFICES ASSUME Core!TypeOK, Core!AckInv, Core!WindowInv PROVE CoreAnswers
      OBVIOUS
    <2>1. c2s \subseteq Core!AllRequests
      BY DEF Core!AllRequests
    <2>2. \A req \in c2s : ~Core!needs_recover(req)
      BY <2>1, Core!AcksCommitted, CoreAssumptions
    <2>3. \A req \in c2s : ~needs_recover(req)
      BY <2>2 DEF needs_recover, Core!needs_recover, Ids, Core!Ids
    <2>4. \A resp \in s2c \cup out : resp.seq \in 1 .. committed_upto
      BY DEF Core!AckInv, Core!AllResponses, responses
    <2> QED BY <2>3, <2>4 DEF CoreAnswers, Core!WindowInv, Core!ReleasedInv
  <1> QED BY <1>1, <1>2, <1>3, <1>4, <1>5, <1>6, CoreSpec, PTL DEF CoreInv

-----------------------------------------------------------------------------
(* Attempts.                                                               *)

\* The object held for n is that of the attempt its thread waits on.
HeldLive(n) == n \in DOMAIN pending_ /\ pending_[n]

\* A live attempt is in one place at a time.
OnlyOne(n) ==
    /\ Live(n) \in posts => ~HeldLive(n) /\ n \notin DOMAIN replies \cup aborted
    /\ HeldLive(n) => n \notin DOMAIN replies \cup aborted
    /\ n \in DOMAIN replies => n \notin aborted

AttemptInv ==
    /\ HttpTypeOK
    /\ NoAttemptForgotten
    /\ \A n \in posting : OnlyOne(n)

\* A checkpoint of a well-typed server is one.
LEMMA SnapshotType ==
    ASSUME CoreTypes
    PROVE  IsCheckpoint(Snapshot)
  <1> DEFINE buf == [n \in DOMAIN resp_buffer |->
                        [payload |-> resp_buffer[n], hash |-> s_req_hash[n]]]
  <1>1. /\ Snapshot.committed_upto = committed_upto /\ Snapshot.history = s_history
        /\ Snapshot.buffer = buf
    BY DEF Snapshot
  <1>2. \A n \in DOMAIN buf : buf[n] \in [payload : Nat, hash : Hash]
    BY DEF CoreTypes, ServerTypeOK
  <1> QED BY <1>1, <1>2 DEF IsCheckpoint, CoreTypes, ServerTypeOK, Hash

\* What is said of attempts does not depend on the rest of the state.
LEMMA AttemptsKept ==
    ASSUME AttemptInv, UNCHANGED << posting, posts, pending_, replies, aborted >>,
           posting \subseteq DOMAIN inflight',
           commits_since_ckpt_' \in Nat, saving' \in BOOLEAN, IsCheckpoint(checkpoint')
    PROVE  AttemptInv'
  <1>1. HttpTypeOK'
    BY DEF AttemptInv, HttpTypeOK, sending, IsCheckpoint
  <1>2. \A n \in posting' : Expected(n)' /\ OnlyOne(n)'
    BY DEF AttemptInv, NoAttemptForgotten, Expected, OnlyOne, HeldLive
  <1> QED BY <1>1, <1>2 DEF AttemptInv, NoAttemptForgotten

\* A thread of the client posts, gives up, or gets its answer.
LEMMA ThreadAttempts ==
    ASSUME AttemptInv, LinkInv, ClientTypeOK,
           \/ Send
           \/ \E n \in sending : Post(n)
           \/ \E n \in posting : GiveUp(n)
           \/ \E n \in DOMAIN replies : Receive(n)
    PROVE  AttemptInv'
  <1>0. HttpTypeOK /\ NoAttemptForgotten /\ \A n \in posting : OnlyOne(n)
    BY DEF AttemptInv
  <1>1. CASE Send
    <2>1. posting \subseteq DOMAIN inflight'
      BY <1>0, <1>1 DEF Send, generate_request, Put, HttpTypeOK, sending
    <2>2. /\ UNCHANGED << posting, posts, pending_, replies, aborted >>
          /\ commits_since_ckpt_' \in Nat /\ saving' \in BOOLEAN /\ IsCheckpoint(checkpoint')
      BY <1>0, <1>1 DEF Send, httpVars, checkpointVars, HttpTypeOK, IsCheckpoint
    <2> QED BY <2>1, <2>2, AttemptsKept
  <1>2. ASSUME NEW n \in sending, Post(n)
        PROVE  AttemptInv'
    <2>1. /\ n \notin posting /\ posting' = posting \cup {n} /\ posts' = posts \cup {Live(n)}
          /\ n \in DOMAIN inflight
          /\ UNCHANGED << inflight, pending_, replies, aborted, checkpointVars >>
      BY <1>2 DEF Post, sending, clientVars
    <2>2. Live(n) \in Attempt /\ Live(n).seq = n /\ Live(n).live = TRUE
      BY <2>1 DEF Live, Attempt, ClientTypeOK
    <2>3. \A m : Live(m) = Live(n) => m = n
      BY DEF Live
    <2>4. HttpTypeOK'
      BY <1>0, <2>1, <2>2 DEF HttpTypeOK, sending, checkpointVars, IsCheckpoint
    <2>5. n \notin DOMAIN replies \cup aborted /\ ~HeldLive(n)
      BY <1>0, <2>1 DEF HttpTypeOK, HeldLive
    <2>6. NoAttemptForgotten' /\ \A m \in posting' : OnlyOne(m)'
      BY <1>0, <2>1, <2>3, <2>5 DEF NoAttemptForgotten, Expected, OnlyOne, HeldLive
    <2> QED BY <2>4, <2>6 DEF AttemptInv
  <1>3. ASSUME NEW n \in posting, GiveUp(n)
        PROVE  AttemptInv'
    <2>1. /\ posting' = posting \ {n} /\ UNCHANGED << inflight, checkpointVars >>
          /\ \/ posts' = posts \ {Live(n)}
             \/ posts' = (posts \ {Live(n)}) \cup {Superseded(n)}
          /\ DOMAIN pending_' = DOMAIN pending_
          /\ \A m \in DOMAIN pending_ : pending_'[m] = (pending_[m] /\ m # n)
          /\ DOMAIN replies' = DOMAIN replies \ {n}
          /\ \A m \in DOMAIN replies' : replies'[m] = replies[m]
          /\ aborted' = aborted \ {n}
      BY <1>3 DEF GiveUp, RepliesWithout, Erase, clientVars
    <2>2. /\ Superseded(n) \in Attempt /\ Superseded(n).live = FALSE
          /\ \A m : Live(m).seq = m /\ Live(m).live = TRUE /\ Live(m) # Superseded(n)
          /\ \A m : Live(m) = Live(n) => m = n
          /\ \A p \in posts : p.live /\ p.seq = n => p = Live(n)
      <3>1. n \in SeqNo /\ posts \subseteq Attempt
        BY <1>0 DEF HttpTypeOK, sending, ClientTypeOK
      <3> QED BY <3>1 DEF Live, Superseded, Attempt
    <2>3. /\ \A p \in posts' : (p \in posts /\ p # Live(n)) \/ p = Superseded(n)
          /\ \A m : Live(m) \in posts' <=> Live(m) \in posts /\ m # n
      BY <2>1, <2>2
    <2>4. HttpTypeOK'
      <3>1. posts' \subseteq Attempt /\ \A p \in posts' : p.live => p.seq \in posting'
        BY <1>0, <2>1, <2>2, <2>3 DEF HttpTypeOK
      <3>2. \A m \in DOMAIN pending_' : pending_'[m] \in BOOLEAN /\ (pending_'[m] => m \in posting')
        BY <1>0, <2>1 DEF HttpTypeOK
      <3> QED BY <1>0, <2>1, <3>1, <3>2 DEF HttpTypeOK, sending, checkpointVars, IsCheckpoint
    <2>5. \A m : HeldLive(m)' <=> HeldLive(m) /\ m # n
      BY <1>0, <2>1 DEF HeldLive, HttpTypeOK
    <2>6. \A m \in posting' : m \in posting /\ m # n
      BY <2>1
    <2>7. \A m \in posting' : Expected(m)' /\ OnlyOne(m)'
      BY <1>0, <2>1, <2>3, <2>5, <2>6 DEF NoAttemptForgotten, Expected, OnlyOne, HeldLive
    <2> QED BY <2>4, <2>7 DEF AttemptInv, NoAttemptForgotten
  <1>4. ASSUME NEW n \in DOMAIN replies, Receive(n)
        PROVE  AttemptInv'
    <2>1. /\ posting' = posting \ {n} /\ UNCHANGED << posts, pending_, aborted, checkpointVars >>
          /\ DOMAIN replies' = DOMAIN replies \ {n}
          /\ \A m \in DOMAIN replies' : replies'[m] = replies[m]
          /\ DOMAIN inflight \ {n} \subseteq DOMAIN inflight'
      <3>1. replies[n].seq = n
        BY DEF LinkInv
      <3> QED BY <1>4, <3>1 DEF Receive, on_response, on_duplicate_response, Erase, clientVars
    <2>2. n \in posting
      BY <1>0 DEF HttpTypeOK
    <2>3. Live(n) \notin posts /\ ~HeldLive(n) /\ n \notin aborted
      BY <1>0, <2>2 DEF OnlyOne
    <2>4. HttpTypeOK'
      <3>1. \A p \in posts : p.live => p.seq \in posting \ {n}
        <4>1. \A p \in posts : p.live /\ p.seq = n => p = Live(n)
          BY <1>0 DEF HttpTypeOK, Attempt, Live
        <4> QED BY <1>0, <2>3, <4>1 DEF HttpTypeOK
      <3>2. \A m \in DOMAIN pending_ : pending_[m] => m \in posting \ {n}
        BY <1>0, <2>3 DEF HttpTypeOK, HeldLive
      <3>3. aborted \subseteq posting \ {n}
        BY <1>0, <2>3 DEF HttpTypeOK
      <3> QED BY <1>0, <2>1, <3>1, <3>2, <3>3 DEF HttpTypeOK, sending, checkpointVars,
                                                 IsCheckpoint
    <2>5. \A m \in posting' : Expected(m)' /\ OnlyOne(m)'
      BY <1>0, <2>1 DEF NoAttemptForgotten, Expected, OnlyOne, HeldLive
    <2> QED BY <2>4, <2>5 DEF AttemptInv, NoAttemptForgotten
  <1> QED BY <1>1, <1>2, <1>3, <1>4

\* The interceptor takes up an attempt, or answers one.
LEMMA InterceptorAttempts ==
    ASSUME AttemptInv, LinkInv, CoreTypes,
           \/ \E p \in posts : OnRequest(p)
           \/ CoreCommit
           \/ \E resp \in s2c : Complete(resp)
           \/ WriteCheckpoint
           \/ UNCHANGED hvars
    PROVE  AttemptInv'
  <1>0. HttpTypeOK /\ NoAttemptForgotten /\ \A n \in posting : OnlyOne(n)
    BY DEF AttemptInv
  <1>1. ASSUME NEW p \in posts, OnRequest(p)
        PROVE  AttemptInv'
    <2> DEFINE n == p.seq
    <2>1. /\ UNCHANGED << inflight, posting, replies, checkpointVars >>
          /\ \/ posts' = posts \ {p}
             \/ ~p.live /\ posts' = posts
          /\ aborted' = IF HeldLive(n) THEN aborted \cup {n} ELSE aborted
          /\ DOMAIN pending_' = DOMAIN pending_ \cup {n}
          /\ \A m \in DOMAIN pending_' : pending_'[m] = IF m = n THEN p.live ELSE pending_[m]
      BY <1>1 DEF OnRequest, Hold, Put, HeldLive, clientVars
    <2>2. /\ p.live \in BOOLEAN /\ n \in SeqNo /\ (p.live => p = Live(n) /\ n \in posting)
          /\ ~p.live => \A m : Live(m) # p
          /\ \A m : Live(m) = p => m = n
      BY <1>0 DEF HttpTypeOK, Attempt, Live
    <2>3. /\ \A m : m # n => (HeldLive(m)' <=> HeldLive(m))
          /\ HeldLive(n)' <=> p.live
          /\ \A m : Live(m) \in posts' <=> Live(m) \in posts /\ Live(m) # p
      BY <2>1, <2>2 DEF HeldLive
    <2>4. HeldLive(n) => n \in posting
      BY <1>0 DEF HttpTypeOK, HeldLive
    <2>5. HttpTypeOK'
      <3>1. posts' \subseteq posts
        BY <2>1
      <3>2. \A m \in DOMAIN pending_' :
                pending_'[m] \in BOOLEAN /\ (pending_'[m] => m \in posting)
        BY <1>0, <2>1, <2>2 DEF HttpTypeOK
      <3>3. DOMAIN pending_' \subseteq SeqNo /\ aborted' \subseteq posting
        BY <1>0, <2>1, <2>2, <2>4 DEF HttpTypeOK
      <3> QED BY <1>0, <2>1, <3>1, <3>2, <3>3 DEF HttpTypeOK, sending, checkpointVars,
                                                 IsCheckpoint
    <2>6. \A m \in posting' : Expected(m)' /\ OnlyOne(m)'
      <3> HIDE DEF n
      <3>1. ASSUME NEW m \in posting', m # n
            PROVE  Expected(m)' /\ OnlyOne(m)'
        <4>1. /\ m \in posting /\ (Live(m) \in posts' <=> Live(m) \in posts)
              /\ (HeldLive(m)' <=> HeldLive(m)) /\ (m \in aborted' <=> m \in aborted)
              /\ DOMAIN replies' = DOMAIN replies
          BY <2>1, <2>2, <2>3, <3>1
        <4> QED BY <1>0, <4>1 DEF NoAttemptForgotten, Expected, OnlyOne, HeldLive
      <3>2. ASSUME n \in posting'
            PROVE  Expected(n)' /\ OnlyOne(n)'
        <4>1. n \in posting /\ Expected(n) /\ OnlyOne(n)
          BY <1>0, <2>1, <3>2 DEF NoAttemptForgotten
        <4>2. CASE p.live
          <5>1. Live(n) \in posts /\ ~HeldLive(n) /\ n \notin DOMAIN replies \cup aborted
            BY <2>2, <4>1, <4>2 DEF OnlyOne
          <5>2. HeldLive(n)' /\ Live(n) \notin posts' /\ n \notin DOMAIN replies' \cup aborted'
            BY <2>1, <2>2, <2>3, <4>2, <5>1
          <5> QED BY <5>2 DEF Expected, OnlyOne, HeldLive
        <4>3. CASE ~p.live /\ HeldLive(n)
          <5>1. Live(n) \notin posts /\ n \notin DOMAIN replies
            BY <4>1, <4>3 DEF OnlyOne
          <5>2. ~HeldLive(n)' /\ Live(n) \notin posts' /\ n \notin DOMAIN replies' /\ n \in aborted'
            BY <2>1, <2>3, <4>3, <5>1
          <5> QED BY <5>2 DEF Expected, OnlyOne
        <4>4. CASE ~p.live /\ ~HeldLive(n)
          <5>1. /\ ~HeldLive(n)' /\ (Live(n) \in posts' <=> Live(n) \in posts)
                /\ DOMAIN replies' = DOMAIN replies /\ aborted' = aborted
            BY <2>1, <2>2, <2>3, <4>4
          <5> QED BY <4>1, <4>4, <5>1 DEF Expected, OnlyOne, HeldLive
        <4> QED BY <2>2, <4>2, <4>3, <4>4
      <3> QED BY <3>1, <3>2
    <2> QED BY <2>5, <2>6 DEF AttemptInv, NoAttemptForgotten
  <1>2. ASSUME NEW resp \in s2c, Complete(resp)
        PROVE  AttemptInv'
    <2> DEFINE n == resp.seq
    <2>1. /\ UNCHANGED << inflight, posting, posts, aborted, checkpoint >>
          /\ commits_since_ckpt_' \in Nat /\ saving' \in BOOLEAN
      <3>1. UNCHANGED << inflight, posting, posts, aborted, checkpoint >>
        BY <1>2 DEF Complete, clientVars
      <3>2. CountWith(resp) \in Nat /\ commits_since_ckpt_ \in Nat
        BY <1>0 DEF CountWith, HttpTypeOK
      <3>3. ASSUME NEW count \in Nat, NEW last, MaybeCheckpoint(count, last)
            PROVE  commits_since_ckpt_' \in Nat /\ saving' \in BOOLEAN
        BY <3>3, Zenon DEF MaybeCheckpoint
      <3>4. \E count \in Nat : MaybeCheckpoint(count, s2c = {resp})
        BY <1>2, <3>2 DEF Complete
      <3> QED BY <3>1, <3>3, <3>4
    <2>2. CASE UNCHANGED << replies, pending_ >>
      <3>1. posting \subseteq DOMAIN inflight' /\ IsCheckpoint(checkpoint')
        BY <1>0, <2>1 DEF HttpTypeOK, sending, IsCheckpoint
      <3> QED BY <2>1, <2>2, <3>1, AttemptsKept
    <2>3. CASE /\ n \in DOMAIN pending_ /\ replies' = RepliesWith(resp)
               /\ pending_' = Released(n)
      <3>1. /\ DOMAIN pending_' = DOMAIN pending_ \ {n}
            /\ \A m \in DOMAIN pending_' : pending_'[m] = pending_[m]
        BY <2>3 DEF Released, Erase
      <3>2. pending_[n] \in BOOLEAN /\ (pending_[n] => n \in posting)
        BY <1>0, <2>3 DEF HttpTypeOK
      <3>3. \A m : HeldLive(m)' <=> HeldLive(m) /\ m # n
        BY <3>1 DEF HeldLive
      <3>4. CASE ~pending_[n]
        <4>1. replies' = replies
          BY <2>3, <3>4 DEF RepliesWith
        <4>2. HttpTypeOK'
          BY <1>0, <2>1, <3>1, <4>1 DEF HttpTypeOK, sending, IsCheckpoint
        <4>3. \A m : HeldLive(m)' <=> HeldLive(m)
          BY <3>3, <3>4 DEF HeldLive
        <4>4. \A m \in posting' : Expected(m)' /\ OnlyOne(m)'
          BY <1>0, <2>1, <4>1, <4>3 DEF NoAttemptForgotten, Expected, OnlyOne, HeldLive
        <4> QED BY <4>2, <4>4 DEF AttemptInv, NoAttemptForgotten
      <3>5. CASE pending_[n]
        <4>1. /\ DOMAIN replies' = DOMAIN replies \cup {n}
              /\ \A m \in DOMAIN replies' : replies'[m] = IF m = n THEN resp ELSE replies[m]
          BY <2>3, <3>5 DEF RepliesWith, Put
        <4>2. HttpTypeOK'
          <5>1. resp \in Response
            BY DEF CoreTypes
          <5>2. DOMAIN replies' \subseteq posting
            BY <1>0, <3>2, <3>5, <4>1 DEF HttpTypeOK
          <5>3. \A m \in DOMAIN replies' : replies'[m] \in Response /\ replies'[m].seq = m
            BY <1>0, <4>1, <5>1 DEF HttpTypeOK
          <5> QED BY <1>0, <2>1, <3>1, <5>2, <5>3 DEF HttpTypeOK, sending, IsCheckpoint
        <4>3. HeldLive(n) /\ n \in posting /\ OnlyOne(n)
          BY <1>0, <2>3, <3>2, <3>5 DEF HeldLive
        <4>4. Live(n) \notin posts /\ n \notin aborted
          BY <4>3 DEF OnlyOne
        <4> HIDE DEF n
        <4>5. \A m \in posting' : Expected(m)' /\ OnlyOne(m)'
          BY <1>0, <2>1, <3>3, <4>1, <4>4 DEF NoAttemptForgotten, Expected, OnlyOne, HeldLive
        <4> QED BY <4>2, <4>5 DEF AttemptInv, NoAttemptForgotten
      <3> QED BY <3>2, <3>4, <3>5
    <2> QED BY <1>2, <2>2, <2>3 DEF Complete
  <1>3. CASE CoreCommit \/ WriteCheckpoint \/ UNCHANGED hvars
    <2>1. UNCHANGED << posting, posts, pending_, replies, aborted, inflight >>
      BY <1>3 DEF CoreCommit, WriteCheckpoint, hvars, httpVars, clientVars
    <2>2. commits_since_ckpt_' \in Nat /\ saving' \in BOOLEAN
      <3>1. \/ commits_since_ckpt_' = 0 /\ saving' = FALSE
            \/ commits_since_ckpt_' = commits_since_ckpt_ /\ saving' = saving
        BY <1>3, Zenon DEF CoreCommit, WriteCheckpoint, hvars, httpVars, checkpointVars
      <3>2. 0 \in Nat
        OBVIOUS
      <3> QED BY <1>0, <3>1, <3>2, Zenon DEF HttpTypeOK
    <2>3. IsCheckpoint(checkpoint')
      <3>1. checkpoint' = checkpoint \/ checkpoint' = Snapshot
        BY <1>3 DEF CoreCommit, WriteCheckpoint, hvars, httpVars, checkpointVars
      <3> QED BY <1>0, <3>1, SnapshotType DEF HttpTypeOK
    <2>4. posting \subseteq DOMAIN inflight'
      BY <1>0, <2>1 DEF HttpTypeOK, sending
    <2> QED BY <2>1, <2>2, <2>3, <2>4, AttemptsKept
  <1> QED BY <1>1, <1>2, <1>3

\* So post() of a thread always waits for an attempt that is somewhere.
LEMMA AttemptInvariant == HttpSpec => []AttemptInv
  <1>1. HttpInit => AttemptInv
    <2> SUFFICES ASSUME HttpInit PROVE AttemptInv
      OBVIOUS
    <2>1. DOMAIN EmptyMap = {}
      BY DEF EmptyMap
    <2>2. /\ posting = {} /\ posts = {} /\ DOMAIN pending_ = {} /\ DOMAIN replies = {}
          /\ aborted = {} /\ commits_since_ckpt_ = 0 /\ saving = FALSE
          /\ checkpoint = NoCheckpoint
      BY <2>1 DEF HttpInit
    <2>3. IsCheckpoint(NoCheckpoint)
      BY <2>1 DEF NoCheckpoint, IsCheckpoint, Hash
    <2> QED BY <2>2, <2>3 DEF AttemptInv, HttpTypeOK, NoAttemptForgotten
  <1>2. LinkInv /\ CoreInv /\ AttemptInv /\ [HttpNext]_hvars => AttemptInv'
    BY ThreadAttempts, InterceptorAttempts DEF HttpNext, CoreInv, CoreTypes
  <1> QED BY <1>1, <1>2, LinkInvariant, CoreInvariant, PTL DEF HttpSpec

\* The variables of threads, attempts, held objects and checkpoint keep their types; in
\* particular an attempt that is live, held live, answered or aborted has a thread
\* inside post() waiting for it.
THEOREM HttpTypeCorrect == HttpSpec => []HttpTypeOK
  <1>1. AttemptInv => HttpTypeOK
    BY DEF AttemptInv
  <1> QED BY <1>1, AttemptInvariant, PTL

\* Whenever a thread waits in post(), its attempt is on its way, held by the
\* interceptor, answered or aborted, however many superseded attempts of the same
\* request are run in between.
THEOREM AttemptsRemembered == HttpSpec => []NoAttemptForgotten
  <1>1. AttemptInv => NoAttemptForgotten
    BY DEF AttemptInv
  <1> QED BY <1>1, AttemptInvariant, PTL

-----------------------------------------------------------------------------
(* Held objects.                                                           *)

\* The responses that this call of OnRequest has still to hand out.
toHandOut == s2c \cup out

\* An object is held for each staged request and each response to be handed out, of
\* which there is one for each id; mu_ is held until they are handed out and saved.
HeldInv ==
    /\ DOMAIN pending_ = DOMAIN pending_reqs \cup {resp.seq : resp \in toHandOut}
    /\ \A r1, r2 \in toHandOut : r1.seq = r2.seq => r1 = r2
    /\ ~draining => out = {}
    /\ draining => s2c = {}
    /\ saving => s2c = {} /\ ~draining

\* What on_request does for a request it does not ask a replay for: it answers it with
\* one response, or stages it.
LEMMA OnRequestAnswersOrStages ==
    ASSUME NEW req, on_request(req), ~needs_recover(req)
    PROVE  \/ /\ \E resp : resp.seq = req.seq /\ s2c' = s2c \cup {resp}
              /\ UNCHANGED << pending_reqs, draining, out, committed_upto >>
           \/ /\ DOMAIN pending_reqs' = DOMAIN pending_reqs \cup {req.seq}
              /\ draining' = TRUE /\ out' = {}
              /\ UNCHANGED << s2c, committed_upto >>
  <1>1. ASSUME NEW d, NEW b, SendResponses({make_response(req.seq, d, b, s_req_hash)})
        PROVE  \E resp : resp.seq = req.seq /\ s2c' = s2c \cup {resp}
    <2>1. make_response(req.seq, d, b, s_req_hash).seq = req.seq
      BY DEF make_response
    <2> QED BY <1>1, <2>1 DEF SendResponses
  <1>2. CASE ResendBuffered(req)
    BY <1>1, <1>2 DEF ResendBuffered
  <1>3. CASE ReprocessAwaiting(req)
    BY <1>1, <1>3 DEF ReprocessAwaiting
  <1>4. CASE AcknowledgeOnly(req)
    BY <1>1, <1>4 DEF AcknowledgeOnly
  <1>5. CASE Stage(req)
    BY <1>5 DEF Stage, Put
  <1> QED BY <1>2, <1>3, <1>4, <1>5 DEF on_request, AskForReplay

\* What an iteration of the commit loop takes from the staged requests it answers.
LEMMA CommitNextAnswers ==
    ASSUME CommitNext
    PROVE  /\ \E resp : /\ resp.seq = committed_upto + 1 /\ ~resp.no_op
                        /\ out' = out \cup {resp}
           /\ committed_upto + 1 \in DOMAIN pending_reqs
           /\ DOMAIN pending_reqs' = DOMAIN pending_reqs \ {committed_upto + 1}
           /\ committed_upto' = committed_upto + 1
           /\ draining /\ UNCHANGED << draining, s2c >>
  <1> DEFINE n == committed_upto + 1
             resp == make_response(n, AppResult(n), FALSE, s_req_hash')
  <1>1. resp.seq = n /\ resp.no_op = FALSE
    BY DEF make_response
  <1>2. /\ out' = out \cup {resp} /\ n \in DOMAIN pending_reqs
        /\ DOMAIN pending_reqs' = DOMAIN pending_reqs \ {n}
        /\ committed_upto' = n /\ draining /\ UNCHANGED << draining, s2c >>
    BY DEF CommitNext, NextInOrder, Erase
  <1> HIDE DEF resp
  <1> QED BY <1>1, <1>2

\* Every step of HttpExchange keeps HeldInv.
LEMMA HeldStep ==
    ASSUME LinkInv, CoreInv, HeldInv, [HttpNext]_hvars
    PROVE  HeldInv'
  <1>1. committed_upto \in Nat
    BY DEF CoreInv, CoreTypes, ServerTypeOK
  <1>2. /\ \A resp \in toHandOut : resp.seq \in 1 .. committed_upto
        /\ \A n \in DOMAIN pending_reqs : n > committed_upto
    BY DEF CoreInv, CoreAnswers, toHandOut
  <1>3. ASSUME NEW p \in posts, OnRequest(p)
        PROVE  HeldInv'
    <2> DEFINE req == RequestOf(p.seq)
    <2>1. req \in c2s /\ req.seq = p.seq /\ ~needs_recover(req)
      BY RequestFound DEF CoreInv, CoreAnswers
    <2>2. /\ on_request(req) /\ DOMAIN pending_' = DOMAIN pending_ \cup {p.seq}
          /\ ~draining /\ s2c = {} /\ out = {} /\ ~saving /\ UNCHANGED saving
      BY <1>3 DEF OnRequest, Hold, Put, Locked, checkpointVars, HeldInv
    <2> HIDE DEF req
    <2>3. DOMAIN pending_ = DOMAIN pending_reqs
      BY <2>2 DEF HeldInv, toHandOut
    <2>4. CASE /\ DOMAIN pending_reqs' = DOMAIN pending_reqs \cup {req.seq}
               /\ draining' = TRUE /\ out' = {}
               /\ UNCHANGED << s2c, committed_upto >>
      BY <2>1, <2>2, <2>3, <2>4 DEF HeldInv, toHandOut
    <2>5. ASSUME NEW resp, resp.seq = req.seq, s2c' = s2c \cup {resp},
                 UNCHANGED << pending_reqs, draining, out, committed_upto >>
          PROVE  HeldInv'
      <3>1. toHandOut' = {resp}
        BY <2>2, <2>5 DEF toHandOut
      <3> QED BY <2>1, <2>2, <2>3, <2>5, <3>1 DEF HeldInv
    <2> QED BY <2>1, <2>2, <2>4, <2>5, OnRequestAnswersOrStages
  <1>4. ASSUME CommitNext, UNCHANGED << pending_, saving >>
        PROVE  HeldInv'
    <2> DEFINE n == committed_upto + 1
    <2>1. PICK resp : resp.seq = n /\ ~resp.no_op /\ out' = out \cup {resp}
      BY <1>4, CommitNextAnswers
    <2>2. /\ n \in DOMAIN pending_reqs /\ DOMAIN pending_reqs' = DOMAIN pending_reqs \ {n}
          /\ draining /\ UNCHANGED << draining, s2c >>
      BY <1>4, CommitNextAnswers
    <2>3. \A r \in toHandOut : r.seq # n
      BY <1>1, <1>2
    <2>4. toHandOut' = toHandOut \cup {resp}
      BY <2>1, <2>2 DEF toHandOut
    <2> HIDE DEF n
    <2> QED BY <1>4, <2>1, <2>2, <2>3, <2>4 DEF HeldInv
  <1>5. ASSUME CommitDone, UNCHANGED << pending_, saving >>
        PROVE  HeldInv'
    <2>1. /\ draining /\ draining' = FALSE /\ out' = {} /\ s2c' = s2c \cup out
          /\ UNCHANGED pending_reqs
      BY <1>5 DEF CommitDone, SendResponses
    <2>2. toHandOut' = toHandOut
      BY <2>1 DEF toHandOut
    <2> QED BY <1>5, <2>1, <2>2 DEF HeldInv
  <1>6. ASSUME NEW resp \in s2c, Complete(resp)
        PROVE  HeldInv'
    <2>1. resp \in toHandOut /\ resp.seq \in DOMAIN pending_
      BY DEF toHandOut, HeldInv
    <2>2. /\ ~draining /\ s2c' = s2c \ {resp} /\ DOMAIN pending_' = DOMAIN pending_ \ {resp.seq}
          /\ UNCHANGED << pending_reqs, draining, out >>
          /\ saving' => s2c = {resp}
      BY <1>6, <2>1 DEF Complete, Released, Erase, MaybeCheckpoint, serverVars
    <2>3. out = {} /\ toHandOut = s2c /\ toHandOut' = s2c \ {resp}
      BY <2>2 DEF HeldInv, toHandOut
    <2>4. resp.seq \notin DOMAIN pending_reqs
      <3>1. resp.seq \in 1 .. committed_upto
        BY <1>2, <2>1
      <3>2. \A k \in 1 .. committed_upto : ~(k > committed_upto)
        BY <1>1
      <3> QED BY <1>2, <3>1, <3>2
    <2>5. DOMAIN pending_' = DOMAIN pending_reqs' \cup {r.seq : r \in toHandOut'}
      BY <2>1, <2>2, <2>3, <2>4 DEF HeldInv
    <2> QED BY <2>2, <2>3, <2>5 DEF HeldInv
  <1>7. CASE WriteCheckpoint
    BY <1>7 DEF WriteCheckpoint, HeldInv, toHandOut, netVars, serverVars
  <1>8. CASE /\ UNCHANGED << s2c, serverVars, saving >>
             /\ DOMAIN pending_' = DOMAIN pending_
    BY <1>8 DEF HeldInv, toHandOut, serverVars
  <1>9. ASSUME \/ Send \/ UNCHANGED hvars
               \/ \E n \in sending : Post(n)
               \/ \E n \in posting : GiveUp(n)
               \/ \E n \in DOMAIN replies : Receive(n)
        PROVE  /\ UNCHANGED << s2c, serverVars, saving >>
               /\ DOMAIN pending_' = DOMAIN pending_
    BY <1>9 DEF Send, Post, GiveUp, Receive, hvars, httpVars, checkpointVars, netVars
  <1>10. CASE CoreCommit
    BY <1>4, <1>5, <1>10 DEF CoreCommit, httpVars, checkpointVars
  <1> QED BY <1>3, <1>6, <1>7, <1>8, <1>9, <1>10 DEF HttpNext

\* So pending_ of the interceptor follows pending_reqs_ of the core.
LEMMA HeldInvariant == HttpSpec => []HeldInv
  <1>1. HttpInit => HeldInv
    BY DEF HttpInit, NetInit, ServerInit, EmptyMap, HeldInv, toHandOut
  <1> QED BY <1>1, HeldStep, LinkInvariant, CoreInvariant, PTL DEF HttpSpec

\* Between two calls of OnRequest the interceptor holds a request object exactly for the
\* requests that the core has staged: whoever waits will be answered by a later call,
\* and nothing is held for ever.
THEOREM HeldExactly == HttpSpec => []HeldWhileStaged
  <1>1. HeldInv => HeldWhileStaged
    BY DEF HeldInv, HeldWhileStaged, Locked, toHandOut
  <1> QED BY <1>1, HeldInvariant, PTL

-----------------------------------------------------------------------------
(* The checkpoint file.                                                    *)

\* The responses still to be handed out that will count as commits.
toCount == {resp \in toHandOut : ~resp.no_op}

\* What is committed and not in the checkpoint file is counted, or is still to be; and
\* when everything is handed out, the count is below the limit or a save is due.
LagInv ==
    /\ IsFiniteSet(toCount)
    /\ committed_upto - checkpoint.committed_upto <= commits_since_ckpt_ + Cardinality(toCount)
    /\ s2c = {} /\ ~saving => commits_since_ckpt_ < checkpoint_every_

\* A step that commits nothing, counts nothing and loses no response.
LEMMA LagKept ==
    ASSUME LagInv, UNCHANGED << committed_upto, commits_since_ckpt_, checkpoint, saving >>,
           s2c \subseteq s2c', toCount' = toCount
    PROVE  LagInv'
  BY DEF LagInv

\* Every step of HttpExchange keeps LagInv.
LEMMA LagStep ==
    ASSUME LinkInv, CoreInv, AttemptInv, HeldInv, LagInv, [HttpNext]_hvars
    PROVE  LagInv'
  <1>1. /\ committed_upto \in Nat /\ commits_since_ckpt_ \in Nat
        /\ checkpoint.committed_upto \in Nat /\ checkpoint_every_ \in Nat \ {0}
        /\ IsFiniteSet(toCount) /\ Cardinality(toCount) \in Nat
    BY HttpBoundsAssumption, FS_CardinalityType
       DEF CoreInv, CoreTypes, ServerTypeOK, AttemptInv, HttpTypeOK, IsCheckpoint, LagInv
  <1>2. ASSUME NEW p \in posts, OnRequest(p)
        PROVE  LagInv'
    <2> DEFINE req == RequestOf(p.seq)
    <2>1. req \in c2s /\ req.seq = p.seq /\ ~needs_recover(req)
      BY RequestFound DEF CoreInv, CoreAnswers
    <2>2. /\ on_request(req) /\ s2c = {} /\ out = {}
          /\ UNCHANGED << commits_since_ckpt_, saving, checkpoint >>
      BY <1>2 DEF OnRequest, Locked, checkpointVars, HeldInv
    <2> HIDE DEF req
    <2>3. toCount = {}
      BY <2>2 DEF toCount, toHandOut
    <2>4. CASE out' = {} /\ UNCHANGED << s2c, committed_upto >>
      <3>1. toCount' = toCount
        BY <2>2, <2>4 DEF toCount, toHandOut
      <3> QED BY <2>2, <2>4, <3>1, LagKept
    <2>5. ASSUME NEW resp, s2c' = s2c \cup {resp}, UNCHANGED << out, committed_upto >>
          PROVE  LagInv'
      <3>1. s2c' # {} /\ (toCount' = {} \/ toCount' = {resp})
        BY <2>2, <2>5 DEF toCount, toHandOut
      <3>2. IsFiniteSet(toCount') /\ Cardinality(toCount) <= Cardinality(toCount')
        <4>1. /\ IsFiniteSet({}) /\ Cardinality({}) = 0
              /\ IsFiniteSet({resp}) /\ Cardinality({resp}) = 1
          BY FS_EmptySet, FS_Singleton
        <4> QED BY <2>3, <3>1, <4>1
      <3>3. Cardinality(toCount') \in Nat
        BY <3>2, FS_CardinalityType
      <3>4. \A a, b, c, d, e \in Nat : a - b <= c + d /\ d <= e => a - b <= c + e
        OBVIOUS
      <3> QED BY <1>1, <2>2, <2>5, <3>1, <3>2, <3>3, <3>4 DEF LagInv
    <2> QED BY <2>1, <2>2, <2>4, <2>5, OnRequestAnswersOrStages
  <1>3. ASSUME CommitNext, UNCHANGED checkpointVars
        PROVE  LagInv'
    <2> DEFINE n == committed_upto + 1
    <2>1. PICK resp : resp.seq = n /\ ~resp.no_op /\ out' = out \cup {resp}
      BY <1>3, CommitNextAnswers
    <2>2. /\ committed_upto' = n /\ UNCHANGED s2c
          /\ UNCHANGED << commits_since_ckpt_, saving, checkpoint >>
      BY <1>3, CommitNextAnswers DEF checkpointVars
    <2>3. resp \notin toCount
      <3>1. \A r \in toHandOut : r.seq \in 1 .. committed_upto
        BY DEF CoreInv, CoreAnswers, toHandOut
      <3>2. n \notin 1 .. committed_upto
        BY <1>1
      <3> QED BY <2>1, <3>1, <3>2 DEF toCount
    <2>4. toCount' = toCount \cup {resp}
      BY <2>1, <2>2 DEF toCount, toHandOut
    <2>5. IsFiniteSet(toCount') /\ Cardinality(toCount') = Cardinality(toCount) + 1
      BY <1>1, <2>3, <2>4, FS_AddElement
    <2>6. \A a, b, c, d \in Nat : a - b <= c + d => (a + 1) - b <= c + (d + 1)
      OBVIOUS
    <2> QED BY <1>1, <2>2, <2>5, <2>6 DEF LagInv
  <1>4. ASSUME CommitDone, UNCHANGED checkpointVars
        PROVE  LagInv'
    <2>1. /\ out' = {} /\ s2c' = s2c \cup out /\ UNCHANGED committed_upto
          /\ UNCHANGED << commits_since_ckpt_, saving, checkpoint >>
      BY <1>4 DEF CommitDone, SendResponses, checkpointVars
    <2>2. toCount' = toCount
      BY <2>1 DEF toCount, toHandOut
    <2> QED BY <2>1, <2>2, LagKept
  <1>5. ASSUME NEW resp \in s2c, Complete(resp)
        PROVE  LagInv'
    <2> DEFINE count == CountWith(resp)
    <2>1. resp \in toHandOut /\ resp.seq \in DOMAIN pending_
      BY DEF toHandOut, HeldInv
    <2>2. /\ ~draining /\ s2c' = s2c \ {resp} /\ UNCHANGED << committed_upto, out, checkpoint >>
          /\ commits_since_ckpt_' = count
          /\ saving' = (s2c = {resp} /\ count >= checkpoint_every_)
      BY <1>5, <2>1 DEF Complete, MaybeCheckpoint, serverVars
    <2>3. out = {} /\ toCount' = toCount \ {resp}
      BY <2>2 DEF HeldInv, toCount, toHandOut
    <2>4. count \in Nat
      BY <1>1 DEF CountWith
    <2>5. s2c' = {} /\ ~saving' => commits_since_ckpt_' < checkpoint_every_
      <3>1. s2c' = {} => s2c = {resp}
        BY <2>2
      <3>2. ~(count >= checkpoint_every_) => count < checkpoint_every_
        BY <1>1, <2>4
      <3> QED BY <2>2, <3>1, <3>2
    <2>6. CASE resp.no_op
      <3>1. count = commits_since_ckpt_ /\ toCount' = toCount
        BY <1>1, <2>3, <2>6 DEF CountWith, toCount
      <3> QED BY <2>2, <2>5, <3>1 DEF LagInv
    <2>7. CASE ~resp.no_op
      <3>1. resp \in toCount /\ count = commits_since_ckpt_ + 1
        BY <2>1, <2>7 DEF CountWith, toCount
      <3>2. IsFiniteSet(toCount') /\ Cardinality(toCount') = Cardinality(toCount) - 1
        BY <1>1, <2>3, <3>1, FS_RemoveElement
      <3>3. \A a, b, c, d \in Nat : a - b <= c + d => a - b <= (c + 1) + (d - 1)
        OBVIOUS
      <3> HIDE DEF count
      <3> QED BY <1>1, <2>2, <2>5, <3>1, <3>2, <3>3 DEF LagInv
    <2> QED BY <2>6, <2>7
  <1>6. CASE WriteCheckpoint
    <2>1. /\ commits_since_ckpt_' = 0 /\ checkpoint' = Snapshot /\ UNCHANGED committed_upto
          /\ UNCHANGED << s2c, out >>
      BY <1>6 DEF WriteCheckpoint, netVars, serverVars
    <2>2. checkpoint'.committed_upto = committed_upto'
      BY <2>1 DEF Snapshot
    <2>3. toCount' = toCount
      BY <2>1 DEF toCount, toHandOut
    <2>4. \A a, d \in Nat : a - a <= 0 + d
      OBVIOUS
    <2>5. 0 < checkpoint_every_
      BY <1>1
    <2> QED BY <1>1, <2>1, <2>2, <2>3, <2>4, <2>5 DEF LagInv
  <1>7. ASSUME \/ Send \/ UNCHANGED hvars
               \/ \E n \in sending : Post(n)
               \/ \E n \in posting : GiveUp(n)
               \/ \E n \in DOMAIN replies : Receive(n)
        PROVE  LagInv'
    <2>1. UNCHANGED << s2c, serverVars, checkpointVars >>
      BY <1>7 DEF Send, Post, GiveUp, Receive, hvars, httpVars, netVars
    <2>2. toCount' = toCount
      BY <2>1 DEF toCount, toHandOut, serverVars
    <2>3. UNCHANGED << s2c, committed_upto, commits_since_ckpt_, checkpoint, saving >>
      BY <2>1 DEF serverVars, checkpointVars
    <2> QED BY <2>2, <2>3, LagKept
  <1>8. CASE CoreCommit
    BY <1>3, <1>4, <1>8 DEF CoreCommit, httpVars
  <1> QED BY <1>2, <1>5, <1>6, <1>7, <1>8 DEF HttpNext

\* So commits_since_ckpt_ accounts for everything the file lacks.
LEMMA LagInvariant == HttpSpec => []LagInv
  <1>1. HttpInit => LagInv
    <2> SUFFICES ASSUME HttpInit PROVE LagInv
      OBVIOUS
    <2>1. /\ s2c = {} /\ out = {} /\ committed_upto = 0 /\ commits_since_ckpt_ = 0
          /\ checkpoint.committed_upto = 0
      BY DEF HttpInit, NetInit, ServerInit, NoCheckpoint
    <2>2. toCount = {}
      BY <2>1 DEF toCount, toHandOut
    <2>3. IsFiniteSet(toCount) /\ Cardinality(toCount) = 0
      BY <2>2, FS_EmptySet
    <2> QED BY <2>1, <2>3, HttpBoundsAssumption DEF LagInv
  <1> QED BY <1>1, LagStep, LinkInvariant, CoreInvariant, AttemptInvariant, HeldInvariant, PTL
          DEF HttpSpec

\* Between two calls of OnRequest the checkpoint file lags behind the core by fewer than
\* checkpoint_every_ commits: every commit is counted by some call of MaybeCheckpoint,
\* since each is handed out on an object that is held for it.
THEOREM CheckpointKeepsUp == HttpSpec => []CheckpointLag
  <1>1. CoreInv /\ AttemptInv /\ HeldInv /\ LagInv => CheckpointLag
    <2> SUFFICES ASSUME CoreInv, AttemptInv, HeldInv, LagInv, ~Locked
                 PROVE  committed_upto - checkpoint.committed_upto < checkpoint_every_
      BY DEF CheckpointLag
    <2>1. s2c = {} /\ out = {} /\ ~saving
      BY DEF Locked, HeldInv
    <2>2. toCount = {}
      BY <2>1 DEF toCount, toHandOut
    <2>3. Cardinality(toCount) = 0
      BY <2>2, FS_EmptySet
    <2>4. /\ committed_upto \in Nat /\ commits_since_ckpt_ \in Nat
          /\ checkpoint.committed_upto \in Nat /\ checkpoint_every_ \in Nat \ {0}
      BY HttpBoundsAssumption DEF CoreInv, CoreTypes, ServerTypeOK, AttemptInv, HttpTypeOK,
                                  IsCheckpoint
    <2>5. /\ committed_upto - checkpoint.committed_upto <= commits_since_ckpt_ + 0
          /\ commits_since_ckpt_ < checkpoint_every_
      BY <2>1, <2>3 DEF LagInv
    <2> QED BY <2>4, <2>5
  <1> QED BY <1>1, CoreInvariant, AttemptInvariant, HeldInvariant, LagInvariant, PTL
=============================================================================
