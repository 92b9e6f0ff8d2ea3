--------------------------- MODULE DeliveryProofs ---------------------------
(***************************************************************************)
(* Proofs about what reaches the client in Conversation, for every number  *)
(* of requests and every window: nothing is acknowledged that was not      *)
(* committed, no response is lost, the application runs once for each      *)
(* request, and the buffers stay within the window.                        *)
(***************************************************************************)
EXTENDS ConversationProofs, FiniteSetTheorems

-----------------------------------------------------------------------------
(* What a step does to the messages.                                       *)

\* on_request makes up no request: a staged one is a copy of one in flight.
LEMMA OnRequestRequests ==
    ASSUME NEW req \in c2s, on_request(req), c2s' \subseteq c2s, UNCHANGED inflight
    PROVE  AllRequests' \subseteq AllRequests
  <1>1. CASE UNCHANGED pending_reqs
    BY <1>1 DEF AllRequests
  <1>2. CASE Stage(req)
    BY <1>2 DEF Stage, AllRequests, Put
  <1> QED BY <1>1, <1>2 DEF on_request, AskForReplay, ResendBuffered,
             ReprocessAwaiting, AcknowledgeOnly, serverVars

\* The commit loop makes up no request.
LEMMA CommitRequests ==
    ASSUME Commit
    PROVE  AllRequests' \subseteq AllRequests
  <1>1. c2s' = c2s /\ inflight' = inflight
    BY DEF Commit, clientVars
  <1>2. CASE CommitNext
    BY <1>1, <1>2 DEF CommitNext, AllRequests, Erase
  <1>3. CASE CommitDone
    BY <1>1, <1>3 DEF CommitDone, AllRequests
  <1> QED BY <1>2, <1>3 DEF Commit

\* on_response makes up no request.
LEMMA OnResponseRequests ==
    ASSUME NEW resp, on_response(resp), UNCHANGED << c2s, pending_reqs >>
    PROVE  AllRequests' \subseteq AllRequests
  BY DEF on_response, AllRequests, Erase

-----------------------------------------------------------------------------
(* Acknowledgements.                                                       *)

\* What is acknowledged stays received.
LEMMA AcksKept ==
    ASSUME NEW req, AcksReceived(req), received \subseteq received'
    PROVE  AcksReceived(req)'
  BY DEF AcksReceived, Ids

\* A step that takes back no receipt and no commit keeps the acknowledgements
\* true, if each new request acknowledges receipts only and each new response is for
\* a committed request.
LEMMA AckStep ==
    ASSUME AckInv,
           received \subseteq received',
           committed_upto \in Nat, committed_upto' \in Nat,
           committed_upto <= committed_upto',
           received' \subseteq 1 .. committed_upto',
           1 .. (base' - 1) \subseteq received',
           Ids(pending_new') \subseteq received',
           \A req \in AllRequests' : req \in AllRequests \/ AcksReceived(req)',
           \A resp \in AllResponses' :
               \/ resp \in AllResponses
               \/ resp.seq \in 1 .. committed_upto' /\ ~resp.recover
    PROVE  AckInv'
  <1>1. \A req \in AllRequests' : AcksReceived(req)'
    BY AcksKept DEF AckInv
  <1>2. 1 .. committed_upto \subseteq 1 .. committed_upto'
    OBVIOUS
  <1>3. \A resp \in AllResponses' : resp.seq \in 1 .. committed_upto' /\ ~resp.recover
    BY <1>2 DEF AckInv
  <1>4. Ids(pending_new)' = Ids(pending_new')
    BY DEF Ids
  <1> QED BY <1>1, <1>3, <1>4 DEF AckInv

\* A request acknowledges no more than the server has committed.
LEMMA AcksCommitted ==
    ASSUME TypeOK, AckInv, NEW req \in AllRequests
    PROVE  ~needs_recover(req)
  <1>1. req \in Request /\ committed_upto \in Nat
    BY AllMessagesType DEF TypeOK, ServerTypeOK
  <1>2. /\ 1 .. (req.ack_base - 1) \subseteq 1 .. committed_upto
        /\ Ids(req.ack_new) \subseteq 1 .. committed_upto
    BY DEF AckInv, AcksReceived
  <1>3. req.ack_base \in Nat /\ req.ack_base >= 1
    BY <1>1 DEF Request, SeqNo
  <1>4. req.ack_base <= committed_upto + 1
    <2>1. CASE req.ack_base = 1
      BY <1>1, <2>1
    <2>2. CASE req.ack_base > 1
      <3>1. req.ack_base - 1 \in 1 .. (req.ack_base - 1)
        BY <1>3, <2>2
      <3> QED BY <1>1, <1>2, <1>3, <3>1
    <2> QED BY <1>3, <2>1, <2>2
  <1> QED BY <1>1, <1>2, <1>3, <1>4 DEF needs_recover

\* generate_request acknowledges what the client has received.
LEMMA GenerateAcks ==
    ASSUME TypeOK, AckInv, Generate
    PROVE  AckInv'
  <1>1. /\ AllRequests' \subseteq AllRequests \cup {NextRequest}
        /\ AllResponses' = AllResponses
        /\ UNCHANGED << received, base, committed_upto >>
        /\ pending_new' = << >>
    BY DEF Generate, generate_request, SendRequest, AllRequests, AllResponses, Put,
           serverVars
  <1>2. ASSUME NEW req, req = NextRequest
        PROVE  AcksReceived(req)'
    <2>1. 1 .. (req.ack_base - 1) \subseteq received
      BY <1>2 DEF NextRequest, AckInv
    <2>2. Ids(req.ack_new) \subseteq received
      BY <1>2 DEF NextRequest, AckInv
    <2> QED BY <1>1, <2>1, <2>2, AcksKept DEF AcksReceived
  <1>3. Ids(pending_new') = {}
    BY <1>1 DEF Ids
  <1>4. \A req \in AllRequests' : req \in AllRequests \/ AcksReceived(req)'
    BY <1>1, <1>2
  <1> QED BY <1>1, <1>3, <1>4, AckStep DEF AckInv, TypeOK, ServerTypeOK

\* on_request answers committed requests only, and asks for no replay.
LEMMA DeliverRequestAcks ==
    ASSUME TypeOK, AckInv, NEW req \in c2s, DeliverRequest(req)
    PROVE  AckInv'
  <1>1. /\ ~needs_recover(req)
        /\ req.seq \in Nat \ {0} /\ committed_upto \in Nat
    BY AcksCommitted, AllMessagesType DEF AllRequests, TypeOK, ServerTypeOK, SeqNo
  <1>2. c2s' \subseteq c2s /\ UNCHANGED << received, base, pending_new, inflight >>
    BY DEF DeliverRequest, DueRequest, clientVars
  <1>3. AllRequests' \subseteq AllRequests
    BY <1>2, OnRequestRequests DEF DeliverRequest
  <1>4. committed_upto' = committed_upto
    BY DEF DeliverRequest, on_request, AskForReplay, ResendBuffered,
           ReprocessAwaiting, AcknowledgeOnly, Stage, serverVars
  <1>5. ASSUME NEW resp \in AllResponses', resp \notin AllResponses
        PROVE  resp.seq \in 1 .. committed_upto /\ ~resp.recover
    <2> DEFINE R(payload, no_op) == make_response(req.seq, payload, no_op, s_req_hash)
    <2>1. ~AskForReplay(req)
      BY <1>1 DEF AskForReplay
    <2>2. ~Stage(req)
      BY <1>5 DEF Stage, AllResponses
    <2>3. /\ req.seq <= committed_upto
          /\ \E payload, no_op : resp = R(payload, no_op)
      BY <1>5, <2>1, <2>2 DEF DeliverRequest, on_request, ResendBuffered,
         ReprocessAwaiting, AcknowledgeOnly, SendResponses, AllResponses
    <2>4. resp.seq = req.seq /\ resp.recover = FALSE
      BY <2>3 DEF make_response
    <2> QED BY <1>1, <2>3, <2>4
  <1> QED BY <1>1, <1>2, <1>3, <1>4, <1>5, AckStep DEF AckInv

\* The commit loop answers the request it commits.
LEMMA CommitAcks ==
    ASSUME TypeOK, AckInv, Commit
    PROVE  AckInv'
  <1>1. AllRequests' \subseteq AllRequests /\ committed_upto \in Nat
    BY CommitRequests DEF TypeOK, ServerTypeOK
  <1>2. UNCHANGED << received, base, pending_new >>
    BY DEF Commit, clientVars
  <1>3. CASE CommitNext
    <2>1. /\ committed_upto' = committed_upto + 1
          /\ AllResponses' \subseteq AllResponses \cup
                 {make_response(committed_upto + 1, AppResult(committed_upto + 1), FALSE,
                                s_req_hash')}
      BY <1>3 DEF CommitNext, NextInOrder, AllResponses
    <2>2. \A resp \in AllResponses' \ AllResponses :
              resp.seq \in 1 .. committed_upto' /\ ~resp.recover
      BY <1>1, <2>1 DEF make_response
    <2> QED BY <1>1, <1>2, <2>1, <2>2, AckStep DEF AckInv
  <1>4. CASE CommitDone
    <2>1. committed_upto' = committed_upto /\ AllResponses' \subseteq AllResponses
      BY <1>4 DEF CommitDone, SendResponses, AllResponses
    <2> QED BY <1>1, <1>2, <2>1, AckStep DEF AckInv
  <1> QED BY <1>3, <1>4 DEF Commit

\* A receipt is of a committed request, and base_ moves over received ids only.
LEMMA DeliverResponseAcks ==
    ASSUME TypeOK, AckInv, NEW resp \in s2c, DeliverResponse(resp)
    PROVE  AckInv'
  <1>1. /\ UNCHANGED << c2s, pending_reqs, committed_upto >>
        /\ AllResponses' \subseteq AllResponses
        /\ committed_upto \in Nat
    BY DEF DeliverResponse, DueResponse, serverVars, AllResponses, TypeOK, ServerTypeOK
  <1>2. CASE on_duplicate_response(resp)
    <2>1. UNCHANGED << received, base, pending_new, inflight >>
      BY <1>2 DEF on_duplicate_response, clientVars
    <2>2. AllRequests' \subseteq AllRequests
      BY <1>1, <2>1 DEF AllRequests
    <2> QED BY <1>1, <2>1, <2>2, AckStep DEF AckInv
  <1>3. CASE on_response(resp)
    <2>1. AllRequests' \subseteq AllRequests
      BY <1>1, <1>3, OnResponseRequests
    <2>2. received' = received \cup {resp.seq} /\ resp.seq \in 1 .. committed_upto
      BY <1>3 DEF on_response, AckInv, AllResponses
    <2>3. 1 .. (base' - 1) \subseteq received'
      <3>1. PICK b \in base .. next_seq : base .. (b - 1) \subseteq received' /\ base' = b
        BY <1>3 DEF on_response, AdvanceBase
      <3>2. base \in Nat /\ next_seq \in Nat
        BY DEF TypeOK, ClientTypeOK, SeqNo
      <3> QED BY <2>2, <3>1, <3>2 DEF AckInv
    <2>4. Ids(pending_new') \subseteq received'
      <3>1. CASE pending_new' = pending_new
        BY <2>2, <3>1 DEF AckInv
      <3>2. CASE pending_new' = Append(pending_new, resp.seq)
        BY <2>2, <3>2 DEF AckInv, Ids, TypeOK, ClientTypeOK
      <3> QED BY <1>3, <3>1, <3>2 DEF on_response
    <2>5. received \subseteq received' /\ received' \subseteq 1 .. committed_upto'
      BY <1>1, <2>2 DEF AckInv
    <2> QED BY <1>1, <2>1, <2>3, <2>4, <2>5, AckStep
  <1> QED BY <1>2, <1>3 DEF DeliverResponse

\* Retransmission, loss and stuttering acknowledge nothing new.
LEMMA QuietAcks ==
    ASSUME TypeOK, AckInv,
           (\E n \in outstanding : Resend(n)) \/ Lose \/ UNCHANGED vars
    PROVE  AckInv'
  <1>1. /\ UNCHANGED << received, base, pending_new, inflight, pending_reqs, committed_upto >>
        /\ AllResponses' \subseteq AllResponses
    BY DEF Resend, Retransmit, Lose, LoseRequest, LoseResponse, vars, netVars,
           clientVars, serverVars, AllResponses
  <1>2. AllRequests' \subseteq AllRequests
    BY <1>1 DEF Resend, Retransmit, SendRequest, Lose, LoseRequest, LoseResponse,
       vars, netVars, AllRequests, outstanding
  <1> QED BY <1>1, <1>2, AckStep DEF AckInv, TypeOK, ServerTypeOK

\* At first nothing is received or acknowledged.
LEMMA InitAcks ==
    ASSUME Init
    PROVE  AckInv
  <1>1. DOMAIN EmptyMap = {}
    BY DEF EmptyMap
  <1>2. AllRequests = {} /\ AllResponses = {}
    BY <1>1 DEF Init, NetInit, ClientInit, ServerInit, AllRequests, AllResponses
  <1>3. received = {} /\ 1 .. (base - 1) = {} /\ Ids(pending_new) = {}
    BY DEF Init, ClientInit, Ids
  <1> QED BY <1>2, <1>3 DEF AckInv

\* Nothing is received or acknowledged before it is committed.
LEMMA AckInvariant == Spec => []AckInv
  <1>1. Init => AckInv
    BY InitAcks
  <1>2. TypeOK /\ AckInv /\ [Next]_vars => AckInv'
    BY GenerateAcks, DeliverRequestAcks, CommitAcks, DeliverResponseAcks, QuietAcks
       DEF Next
  <1> QED BY <1>1, <1>2, TypeCorrect, PTL DEF Spec

\* While the server stays up on_request never answers 503, for every window and any
\* number of requests: however late a request arrives, and however often, what it
\* acknowledges has been committed.
THEOREM NoSpuriousRecovery == Spec => []NeverAsksForReplay
  <1>1. TypeOK /\ AckInv => NeverAsksForReplay
    BY AcksCommitted DEF NeverAsksForReplay, AckInv, AllRequests, AllResponses
  <1> QED BY <1>1, TypeCorrect, AckInvariant, PTL

-----------------------------------------------------------------------------
(* Replies.                                                                *)

\* A reply that is safe to deliver: the one answer, or an acknowledgement only to a
\* client that has it.
SafeReply(resp) == IF resp.no_op THEN resp.seq \in received ELSE resp.payload = 1

\* Applying an acknowledgement releases only responses that the client has.
LEMMA ReleaseSafe ==
    ASSUME TypeOK, AckInv, ReplyInv, NEW req \in AllRequests
    PROVE  /\ \A n \in 1 .. committed_upto :
                  n \notin received => n \in DOMAIN release_acked(req)
           /\ \A n \in DOMAIN release_acked(req) :
                  n <= committed_upto /\ release_acked(req)[n] = 1
  <1>1. AcksReceived(req) /\ req \in Request
    BY AllMessagesType DEF AckInv
  <1>2. \A n \in DOMAIN resp_buffer :
            n < req.ack_base \/ n \in Ids(req.ack_new) => n \in received
    <2>1. req.ack_base \in Nat /\ \A n \in DOMAIN resp_buffer : n \in Nat \ {0}
      BY <1>1 DEF TypeOK, ServerTypeOK, SeqNo, Request
    <2>2. \A n \in DOMAIN resp_buffer : n < req.ack_base => n \in 1 .. (req.ack_base - 1)
      BY <2>1
    <2> QED BY <1>1, <2>2 DEF AcksReceived
  <1> QED BY <1>2 DEF release_acked, Erase, ReplyInv, NoLostReply

\* A step of the messages only keeps the replies safe.
LEMMA QuietReplies ==
    ASSUME ReplyInv,
           UNCHANGED << received, received_payload, committed_upto, awaiting,
                        app_calls, app_runs, resp_buffer >>,
           AllResponses' \subseteq AllResponses
    PROVE  ReplyInv'
  <1>1. NoLostReply'
    BY DEF ReplyInv, NoLostReply
  <1>2. \A resp \in AllResponses' :
            IF resp.no_op THEN resp.seq \in received' ELSE resp.payload = 1
    BY DEF ReplyInv
  <1> QED BY <1>1, <1>2 DEF ReplyInv

\* on_request before the commit loop: a response is repeated from the buffer, or
\* the client has it already.
LEMMA DeliverRequestReplies ==
    ASSUME TypeOK, AckInv, ReplyInv, NEW req \in c2s, DeliverRequest(req)
    PROVE  ReplyInv'
  <1>1. /\ req \in AllRequests /\ ~needs_recover(req)
        /\ req.seq \in Nat \ {0} /\ committed_upto \in Nat
    BY AcksCommitted, AllMessagesType DEF AllRequests, TypeOK, ServerTypeOK, SeqNo
  <1>2. UNCHANGED << received, received_payload >>
    BY DEF DeliverRequest, clientVars
  <1>3. ~AskForReplay(req) /\ ~ReprocessAwaiting(req)
    BY <1>1 DEF AskForReplay, ReprocessAwaiting, LeftAwaiting, ReplyInv
  <1>4. /\ resp_buffer' = release_acked(req)
        /\ UNCHANGED << committed_upto, awaiting, app_calls, app_runs >>
    BY <1>3 DEF DeliverRequest, on_request, ResendBuffered, AcknowledgeOnly, Stage
  <1>5. ASSUME NEW resp \in AllResponses'
        PROVE  SafeReply(resp)
    <2>1. CASE resp \in AllResponses
      BY <2>1 DEF ReplyInv, SafeReply
    <2>2. CASE /\ ResendBuffered(req)
               /\ resp = make_response(req.seq, resp_buffer[req.seq], FALSE, s_req_hash)
      <3>1. resp_buffer[req.seq] = 1
        BY <1>1, <2>2, ReleaseSafe, ReleaseType DEF ResendBuffered, TypeOK
      <3> QED BY <2>2, <3>1 DEF make_response, SafeReply
    <2>3. CASE /\ AcknowledgeOnly(req)
               /\ resp = make_response(req.seq, NoPayload, TRUE, s_req_hash)
      <3>1. req.seq \in received
        BY <1>1, <2>3, ReleaseSafe DEF AcknowledgeOnly
      <3> QED BY <2>3, <3>1 DEF make_response, SafeReply
    <2> QED BY <1>3, <1>5, <2>1, <2>2, <2>3 DEF DeliverRequest, on_request,
            ResendBuffered, AcknowledgeOnly, Stage, SendResponses, AllResponses
  <1>6. \A resp \in AllResponses' :
            IF resp.no_op THEN resp.seq \in received' ELSE resp.payload = 1
    BY <1>2, <1>5 DEF SafeReply
  <1> QED BY <1>1, <1>2, <1>4, <1>6, ReleaseSafe DEF ReplyInv, NoLostReply

\* The commit loop runs the application for the first time for that request.
LEMMA CommitReplies ==
    ASSUME TypeOK, AckInv, ReplyInv, Commit
    PROVE  ReplyInv'
  <1>1. committed_upto \in Nat /\ UNCHANGED << received, received_payload >>
    BY DEF Commit, clientVars, TypeOK, ServerTypeOK
  <1>2. CASE CommitNext
    <2> DEFINE n == NextInOrder
    <2>1. n = committed_upto + 1 /\ n \notin DOMAIN app_calls /\ n \notin DOMAIN app_runs
      BY <1>1 DEF ReplyInv, NextInOrder
    <2>2. AppResult(n) = 1
      BY <2>1 DEF AppResult, CountOf
    <2>3. /\ committed_upto' = n
          /\ app_calls' = Put(app_calls, n, 1)
          /\ app_runs' = Put(app_runs, n, 1)
          /\ resp_buffer' = Put(resp_buffer, n, 1)
          /\ awaiting' = awaiting
          /\ AllResponses' = AllResponses \cup {make_response(n, 1, FALSE, s_req_hash')}
      <3>1. CountOf(app_calls, n) + 1 = 1 /\ CountOf(app_runs, n) + 1 = 1
        BY <2>1 DEF CountOf
      <3>2. /\ committed_upto' = n
            /\ app_calls' = Bump(app_calls, n)
            /\ app_runs' = Bump(app_runs, n)
            /\ resp_buffer' = Put(resp_buffer, n, AppResult(n))
            /\ out' = out \cup {make_response(n, AppResult(n), FALSE, s_req_hash')}
            /\ UNCHANGED << awaiting, s2c >>
        BY <1>2 DEF CommitNext
      <3> QED BY <2>2, <3>1, <3>2 DEF Bump, AllResponses
    <2> HIDE DEF n
    <2>4. 1 .. n = (1 .. committed_upto) \cup {n}
      BY <1>1, <2>1
    <2>5. \A resp \in AllResponses' :
              IF resp.no_op THEN resp.seq \in received' ELSE resp.payload = 1
      <3>1. \A resp \in AllResponses :
                IF resp.no_op THEN resp.seq \in received' ELSE resp.payload = 1
        BY <1>1 DEF ReplyInv
      <3>2. ASSUME NEW resp, resp = make_response(n, 1, FALSE, s_req_hash')
            PROVE  resp.no_op = FALSE /\ resp.payload = 1
        BY <3>2 DEF make_response
      <3> QED BY <2>3, <3>1, <3>2
    <2>6. /\ DOMAIN app_calls' = 1 .. committed_upto'
          /\ DOMAIN app_runs' = 1 .. committed_upto'
          /\ \A k \in 1 .. committed_upto' : app_calls'[k] = 1 /\ app_runs'[k] = 1
      BY <2>3, <2>4 DEF Put, ReplyInv
    <2>7. \A k \in DOMAIN resp_buffer' : k <= committed_upto' /\ resp_buffer'[k] = 1
      BY <1>1, <2>1, <2>3 DEF Put, ReplyInv, TypeOK, ServerTypeOK, SeqNo
    <2>8. NoLostReply'
      BY <1>1, <2>3, <2>4 DEF Put, ReplyInv, NoLostReply
    <2> QED BY <1>1, <2>3, <2>5, <2>6, <2>7, <2>8 DEF ReplyInv
  <1>3. CASE CommitDone
    BY <1>1, <1>3, QuietReplies DEF CommitDone, SendResponses, AllResponses
  <1> QED BY <1>2, <1>3 DEF Commit

\* on_response completes a request with its answer.
LEMMA DeliverResponseReplies ==
    ASSUME ReplyInv, NEW resp \in s2c, DeliverResponse(resp)
    PROVE  ReplyInv'
  <1>1. /\ UNCHANGED << committed_upto, awaiting, app_calls, app_runs, resp_buffer >>
        /\ AllResponses' \subseteq AllResponses
    BY DEF DeliverResponse, DueResponse, serverVars, AllResponses
  <1>2. CASE on_duplicate_response(resp)
    BY <1>1, <1>2, QuietReplies DEF on_duplicate_response, clientVars
  <1>3. CASE on_response(resp)
    <2>1. resp \in AllResponses /\ resp.seq \notin received
      BY <1>3 DEF AllResponses, on_response
    <2>2. ~resp.no_op /\ resp.payload = 1
      BY <2>1 DEF ReplyInv
    <2>3. /\ received' = received \cup {resp.seq}
          /\ received_payload' = Put(received_payload, resp.seq, 1)
      BY <1>3, <2>2 DEF on_response
    <2> QED BY <1>1, <2>3 DEF ReplyInv, NoLostReply, Put
  <1> QED BY <1>2, <1>3 DEF DeliverResponse

\* Every reply is safe and every response is kept until the client has it.
LEMMA ReplyInvariant == Spec => []ReplyInv
  <1>1. Init => ReplyInv
    <2> SUFFICES ASSUME Init PROVE ReplyInv
      OBVIOUS
    <2>1. DOMAIN EmptyMap = {}
      BY DEF EmptyMap
    <2>2. AllResponses = {} /\ 1 .. committed_upto = {}
      BY DEF Init, NetInit, ServerInit, AllResponses
    <2> QED BY <2>1, <2>2 DEF Init, ClientInit, ServerInit, ReplyInv, NoLostReply
  <1>2. ASSUME TypeOK, AckInv, ReplyInv, [Next]_vars
        PROVE  ReplyInv'
    <2>1. CASE Generate
      BY <1>2, <2>1, QuietReplies DEF Generate, generate_request, serverVars, AllResponses
    <2>2. CASE (\E n \in outstanding : Resend(n)) \/ Lose \/ UNCHANGED vars
      BY <1>2, <2>2, QuietReplies DEF Resend, Retransmit, Lose, LoseRequest,
         LoseResponse, vars, netVars, clientVars, serverVars, AllResponses
    <2> QED BY <1>2, <2>1, <2>2, DeliverRequestReplies, CommitReplies,
            DeliverResponseReplies DEF Next
  <1> QED BY <1>1, <1>2, TypeCorrect, AckInvariant, PTL DEF Spec

\* For every window and any number of requests: release_acked drops no response
\* that the client lacks, and an acknowledgement-only reply never completes a
\* request in place of its response.
THEOREM NoReplyLost == Spec => []NoLostReply
  <1>1. ReplyInv => NoLostReply
    BY DEF ReplyInv
  <1> QED BY <1>1, ReplyInvariant, PTL

\* EXACTLY-ONCE of checker.h for every window and any number of requests: the
\* application runs once for each committed request, whatever is retransmitted, and
\* the client delivers what it answered.
THEOREM ExactlyOnceCorrect == Spec => []ExactlyOnce
  <1>1. AckInv /\ ReplyInv => ExactlyOnce
    BY DEF AckInv, ReplyInv, NoLostReply, ExactlyOnce
  <1> QED BY <1>1, AckInvariant, ReplyInvariant, PTL

-----------------------------------------------------------------------------
(* The events of a history.                                                *)

\* A history that holds the events of two others records what they record.
LEMMA EventsMerged ==
    ASSUME NEW s, NEW t, NEW u,
           \A i \in DOMAIN s : \E k \in DOMAIN u : u[k] = s[i],
           \A i \in DOMAIN t : \E k \in DOMAIN u : u[k] = t[i],
           \A k \in DOMAIN u : \/ \E i \in DOMAIN s : u[k] = s[i]
                               \/ \E i \in DOMAIN t : u[k] = t[i]
    PROVE  /\ ResponsesIn(u) = ResponsesIn(s) \cup ResponsesIn(t)
           /\ RequestsIn(u) = RequestsIn(s) \cup RequestsIn(t)
  BY DEF ResponsesIn, RequestsIn

\* A history records what its two parts record (History::append).
LEMMA EventsConcat ==
    ASSUME NEW s \in Seq(Event), NEW t \in Seq(Event)
    PROVE  /\ ResponsesIn(s \o t) = ResponsesIn(s) \cup ResponsesIn(t)
           /\ RequestsIn(s \o t) = RequestsIn(s) \cup RequestsIn(t)
  <1> DEFINE u == s \o t
  <1>1. /\ DOMAIN s = 1 .. Len(s) /\ Len(s) \in Nat
        /\ DOMAIN t = 1 .. Len(t) /\ Len(t) \in Nat
        /\ DOMAIN u = 1 .. (Len(s) + Len(t))
        /\ \A i \in 1 .. (Len(s) + Len(t)) :
               u[i] = IF i <= Len(s) THEN s[i] ELSE t[i - Len(s)]
    OBVIOUS
  <1> HIDE DEF u
  <1>2. \A i \in DOMAIN s : i \in DOMAIN u /\ u[i] = s[i]
    BY <1>1
  <1>3. \A i \in DOMAIN t : Len(s) + i \in DOMAIN u /\ u[Len(s) + i] = t[i]
    BY <1>1
  <1>4. \A k \in DOMAIN u : \/ \E i \in DOMAIN s : u[k] = s[i]
                            \/ \E i \in DOMAIN t : u[k] = t[i]
    <2> SUFFICES ASSUME NEW k \in DOMAIN u, k \notin DOMAIN s
                 PROVE  \E i \in DOMAIN t : u[k] = t[i]
      BY <1>2
    <2>1. k - Len(s) \in DOMAIN t /\ u[k] = t[k - Len(s)]
      BY <1>1
    <2> QED BY <2>1
  <1>5. /\ ResponsesIn(u) = ResponsesIn(s) \cup ResponsesIn(t)
        /\ RequestsIn(u) = RequestsIn(s) \cup RequestsIn(t)
    <2>1. \A i \in DOMAIN s : \E k \in DOMAIN u : u[k] = s[i]
      BY <1>2
    <2>2. \A i \in DOMAIN t : \E k \in DOMAIN u : u[k] = t[i]
      BY <1>3
    <2> QED BY <1>4, <2>1, <2>2, EventsMerged, Zenon
  <1> QED BY <1>5 DEF u

\* A request adds the responses it acknowledges, and itself, to the history.
LEMMA EventsCommitted ==
    ASSUME NEW ids \in Seq(SeqNo), NEW n \in SeqNo
    PROVE  /\ ResponsesIn(Committed(ids, n)) = Ids(ids)
           /\ RequestsIn(Committed(ids, n)) = {n}
  <1>1. RspEvents(ids) \in Seq(Event) /\ << ReqEvent(n) >> \in Seq(Event)
    <2>1. \A i \in DOMAIN ids : RspEvent(ids[i]) \in Event
      BY DEF RspEvent, Event, SeqNo
    <2>2. RspEvents(ids) \in [1 .. Len(ids) -> Event]
      BY <2>1 DEF RspEvents
    <2>3. ReqEvent(n) \in Event
      BY DEF ReqEvent, Event, SeqNo
    <2> QED BY <2>2, <2>3
  <1>2. ResponsesIn(RspEvents(ids)) = Ids(ids) /\ RequestsIn(RspEvents(ids)) = {}
    <2>1. DOMAIN RspEvents(ids) = DOMAIN ids
      BY DEF RspEvents
    <2>2. \A i \in DOMAIN ids : /\ RspEvents(ids)[i].is_response = TRUE
                               /\ RspEvents(ids)[i].seq = ids[i]
      BY DEF RspEvents, RspEvent
    <2> QED BY <2>1, <2>2 DEF ResponsesIn, RequestsIn, Ids
  <1>3. ResponsesIn(<< ReqEvent(n) >>) = {} /\ RequestsIn(<< ReqEvent(n) >>) = {n}
    <2> DEFINE q == << ReqEvent(n) >>
    <2>1. DOMAIN q = {1} /\ q[1].is_response = FALSE /\ q[1].seq = n
      BY DEF ReqEvent
    <2> HIDE DEF q
    <2>2. ResponsesIn(q) = {} /\ RequestsIn(q) = {n}
      BY <2>1 DEF ResponsesIn, RequestsIn
    <2> QED BY <2>2 DEF q
  <1> DEFINE a == RspEvents(ids)
             q == << ReqEvent(n) >>
  <1>4. Committed(ids, n) = a \o q
    BY DEF Committed
  <1>5. a \in Seq(Event) /\ q \in Seq(Event)
    BY <1>1
  <1>6. /\ ResponsesIn(a) = Ids(ids) /\ RequestsIn(a) = {}
        /\ ResponsesIn(q) = {} /\ RequestsIn(q) = {n}
    BY <1>2, <1>3
  <1> HIDE DEF a, q
  <1>7. /\ ResponsesIn(a \o q) = ResponsesIn(a) \cup ResponsesIn(q)
        /\ RequestsIn(a \o q) = RequestsIn(a) \cup RequestsIn(q)
    BY <1>5, EventsConcat
  <1> QED BY <1>4, <1>6, <1>7

\* A prefix of a history records no more than the history does.
LEMMA EventsPrefix ==
    ASSUME NEW s \in Seq(Event), NEW t \in Seq(Event), IsPrefixOf(s, t)
    PROVE  /\ ResponsesIn(s) \subseteq ResponsesIn(t)
           /\ RequestsIn(s) \subseteq RequestsIn(t)
  <1>1. \A i \in DOMAIN s : i \in DOMAIN t /\ s[i] = t[i]
    BY DEF IsPrefixOf
  <1> QED BY <1>1 DEF ResponsesIn, RequestsIn

-----------------------------------------------------------------------------
(* The window.                                                             *)

\* What the server's history records, and what a request acknowledges, has been
\* committed.
LEMMA RecordedCommitted ==
    ASSUME TypeOK, HistoryInv, AckInv, WindowInv
    PROVE  /\ ResponsesIn(s_history) \subseteq 1 .. committed_upto
           /\ received \subseteq 1 .. (next_seq - 1)
           /\ \A req \in AllRequests : Ids(req.ack_new) \subseteq 1 .. committed_upto
  <1>1. /\ committed_upto \in Nat /\ next_seq \in Nat /\ committed_upto < next_seq
        /\ c_history \in Seq(Event)
    BY DEF TypeOK, ServerTypeOK, ClientTypeOK, SeqNo, HistoryInv
  <1>2. ResponsesIn(s_history) \subseteq ResponsesIn(c_history)
    <2>1. CASE committed_upto = 0
      <3>1. s_history = << >>
        BY <2>1 DEF HistoryInv, HistoryAt
      <3> QED BY <3>1 DEF ResponsesIn
    <2>2. CASE committed_upto # 0
      <3>1. committed_upto \in DOMAIN c_req_hash
        BY <1>1, <2>2 DEF HistoryInv, ClientHistoryInv
      <3>2. IsPrefixOf(s_history, c_history) /\ s_history \in Seq(Event)
        BY <2>2, <3>1 DEF HistoryInv, ClientHistoryInv, HistoryAt, TypeOK, ServerTypeOK
      <3> QED BY <1>1, <3>2, EventsPrefix
    <2> QED BY <2>1, <2>2
  <1>3. received \subseteq 1 .. committed_upto
    BY DEF AckInv
  <1>4. 1 .. committed_upto \subseteq 1 .. (next_seq - 1)
    BY <1>1
  <1> QED BY <1>2, <1>3, <1>4 DEF WindowInv, ReceiptInv, AckInv, AcksReceived

\* What WindowInv says about the client changes only when the client does.
ClientWindowInv ==
    /\ ReceiptInv
    /\ IsFiniteSet(outstanding) /\ Cardinality(outstanding) <= Window
    /\ \A n \in 0 .. (next_seq - 1) : FitsWindow(n)

\* A step that leaves the client alone leaves its receipts and its window alone.
LEMMA ClientWindowKept ==
    ASSUME WindowInv, UNCHANGED clientVars
    PROVE  ClientWindowInv'
  BY DEF WindowInv, ClientWindowInv, ReceiptInv, FitsWindow, HistoryAt, outstanding,
         clientVars

\* A step that leaves the core of the server alone leaves its buffers alone.
LEMMA ReleasedKept ==
    ASSUME WindowInv, UNCHANGED serverVars
    PROVE  ReleasedInv' /\ (~draining => NextInOrder \notin DOMAIN pending_reqs)'
  BY DEF WindowInv, ReleasedInv, NextInOrder, serverVars

\* generate_request records all receipts, and what is unanswered then fits.
LEMMA GenerateWindow ==
    ASSUME TypeOK, HistoryInv, AckInv, WindowInv, Generate
    PROVE  WindowInv'
  <1>1. /\ next_seq' = next_seq + 1
        /\ c_history' = c_history \o Committed(pending_new, next_seq)
        /\ c_req_hash' = Put(c_req_hash, next_seq, c_history')
        /\ outstanding' = outstanding \cup {next_seq}
        /\ pending_new' = << >>
        /\ received' = received
        /\ UNCHANGED serverVars
        /\ Cardinality(outstanding) < Window
    BY DEF Generate, generate_request, NextRequest, outstanding, Put
  <1>2. /\ next_seq \in Nat \ {0} /\ next_seq \in SeqNo
        /\ pending_new \in Seq(SeqNo) /\ c_history \in Seq(Event)
        /\ DOMAIN c_req_hash = 1 .. (next_seq - 1)
    BY DEF TypeOK, ClientTypeOK, SeqNo, HistoryInv, ClientHistoryInv
  <1>3. ResponsesIn(c_history') = received
    <2>1. Committed(pending_new, next_seq) \in Seq(Event)
      BY <1>2, CommittedType
    <2>2. ResponsesIn(c_history') = ResponsesIn(c_history) \cup Ids(pending_new)
      BY <1>1, <1>2, <2>1, EventsConcat, EventsCommitted
    <2> QED BY <2>2 DEF WindowInv, ReceiptInv
  <1>4. next_seq \notin received /\ next_seq \notin outstanding
    BY <1>2, RecordedCommitted DEF WindowInv, ReceiptInv
  <1>5. 1 .. (next_seq' - 1) = (1 .. (next_seq - 1)) \cup {next_seq}
    BY <1>1, <1>2
  <1>6. ReceiptInv'
    <2>1. Ids(pending_new)' = {} /\ DOMAIN pending_new' = {}
      BY <1>1 DEF Ids
    <2>2. outstanding' = (1 .. (next_seq' - 1)) \ received'
      BY <1>1, <1>4, <1>5 DEF WindowInv, ReceiptInv
    <2>3. ResponsesIn(c_history)' = received'
      BY <1>1, <1>3
    <2> QED BY <2>1, <2>2, <2>3 DEF ReceiptInv
  <1>7. IsFiniteSet(outstanding') /\ Cardinality(outstanding') <= Window
    <2>1. IsFiniteSet(outstanding)
      BY DEF WindowInv
    <2>2. Cardinality(outstanding') = Cardinality(outstanding) + 1
      BY <1>1, <1>4, <2>1, FS_AddElement
    <2>3. Cardinality(outstanding) \in Nat /\ Window \in Nat
      BY <2>1, FS_CardinalityType, BoundsAssumption
    <2>4. IsFiniteSet(outstanding')
      BY <1>1, <2>1, FS_AddElement
    <2>5. Cardinality(outstanding) + 1 <= Window
      BY <1>1, <2>3
    <2> QED BY <2>2, <2>4, <2>5
  <1>8. ASSUME NEW n \in 0 .. (next_seq' - 1)
        PROVE  FitsWindow(n)'
    <2>1. CASE n = next_seq
      <3>1. HistoryAt(n)' = c_history'
        BY <1>1, <1>2, <2>1 DEF HistoryAt, Put
      <3>2. (1 .. n) \ ResponsesIn(c_history') = outstanding'
        BY <1>1, <1>2, <1>3, <1>6, <2>1 DEF ReceiptInv
      <3> QED BY <1>7, <3>1, <3>2 DEF FitsWindow
    <2>2. CASE n # next_seq
      <3>1. n \in 0 .. (next_seq - 1)
        BY <1>1, <1>2, <2>2
      <3>2. HistoryAt(n)' = HistoryAt(n)
        BY <1>1, <1>2, <3>1 DEF HistoryAt, Put
      <3> QED BY <3>1, <3>2 DEF WindowInv, FitsWindow
    <2> QED BY <2>1, <2>2
  <1>9. ReleasedInv' /\ (~draining => NextInOrder \notin DOMAIN pending_reqs)'
    BY <1>1, ReleasedKept
  <1> QED BY <1>6, <1>7, <1>8, <1>9 DEF WindowInv

\* on_response moves an id from the unanswered ones to the receipts to be recorded.
LEMMA OnResponseWindow ==
    ASSUME TypeOK, HistoryInv, AckInv, ReplyInv, WindowInv,
           NEW resp \in s2c, on_response(resp)
    PROVE  ClientWindowInv'
  <1>1. /\ resp \in AllResponses /\ resp.seq \notin received
        /\ resp.no_op = FALSE
    <2>1. resp \in AllResponses /\ resp.seq \notin received
      BY DEF AllResponses, on_response
    <2>2. resp \in Response /\ ~resp.no_op
      BY <2>1, AllMessagesType DEF ReplyInv
    <2> QED BY <2>1, <2>2 DEF Response
  <1>2. /\ received' = received \cup {resp.seq}
        /\ pending_new' = Append(pending_new, resp.seq)
        /\ outstanding' = outstanding \ {resp.seq}
        /\ UNCHANGED << next_seq, c_req_hash, c_history >>
    BY <1>1 DEF on_response, outstanding, Erase
  <1>3. pending_new \in Seq(SeqNo) /\ resp.seq \in SeqNo
    BY <1>1, AllMessagesType DEF TypeOK, ClientTypeOK, Response
  <1>4. /\ Ids(pending_new') = Ids(pending_new) \cup {resp.seq}
        /\ \A i, j \in DOMAIN pending_new' : pending_new'[i] = pending_new'[j] => i = j
    <2> DEFINE p == Append(pending_new, resp.seq)
               len == Len(pending_new)
    <2>1. /\ DOMAIN pending_new = 1 .. len /\ len \in Nat
          /\ DOMAIN p = 1 .. (len + 1)
          /\ \A i \in 1 .. len : p[i] = pending_new[i]
          /\ p[len + 1] = resp.seq
      BY <1>3
    <2> HIDE DEF p, len
    <2>2. \A i \in DOMAIN pending_new : pending_new[i] # resp.seq
      BY <1>1 DEF WindowInv, ReceiptInv, Ids
    <2>3. Ids(p) = Ids(pending_new) \cup {resp.seq}
      BY <2>1 DEF Ids
    <2>4. \A i, j \in DOMAIN p : p[i] = p[j] => i = j
      BY <2>1, <2>2 DEF WindowInv, ReceiptInv
    <2> QED BY <1>2, <2>3, <2>4 DEF p
  <1>5. ReceiptInv'
    <2>1. outstanding' = (1 .. (next_seq' - 1)) \ received'
      BY <1>2 DEF WindowInv, ReceiptInv
    <2>2. /\ received' = ResponsesIn(c_history') \cup Ids(pending_new')
          /\ ResponsesIn(c_history') \cap Ids(pending_new') = {}
      BY <1>1, <1>2, <1>4 DEF WindowInv, ReceiptInv
    <2> QED BY <1>4, <2>1, <2>2 DEF ReceiptInv, Ids, ResponsesIn
  <1>6. IsFiniteSet(outstanding') /\ Cardinality(outstanding') <= Window
    <2>1. IsFiniteSet(outstanding) /\ Cardinality(outstanding) <= Window
      BY DEF WindowInv
    <2>2. /\ IsFiniteSet(outstanding')
          /\ Cardinality(outstanding') <= Cardinality(outstanding)
      BY <1>2, <2>1, FS_Subset
    <2>3. /\ Cardinality(outstanding) \in Nat /\ Cardinality(outstanding') \in Nat
          /\ Window \in Nat
      BY <2>1, <2>2, FS_CardinalityType, BoundsAssumption
    <2> QED BY <2>1, <2>2, <2>3
  <1>7. \A n \in 0 .. (next_seq' - 1) : FitsWindow(n)'
    BY <1>2 DEF WindowInv, FitsWindow, HistoryAt
  <1> QED BY <1>5, <1>6, <1>7 DEF ClientWindowInv

\* on_request releases responses, and stages a request only after it has released
\* what the request acknowledges.
LEMMA DeliverRequestWindow ==
    ASSUME TypeOK, AckInv, ReplyInv, WindowInv, NEW req \in c2s, DeliverRequest(req)
    PROVE  WindowInv'
  <1>1. ClientWindowInv'
    BY ClientWindowKept DEF DeliverRequest
  <1>2. /\ req \in AllRequests /\ ~needs_recover(req)
        /\ req.seq \in Nat \ {0} /\ committed_upto \in Nat
    BY AcksCommitted, AllMessagesType DEF AllRequests, TypeOK, ServerTypeOK, SeqNo
  <1>3. ~AskForReplay(req) /\ ~ReprocessAwaiting(req)
    BY <1>2 DEF AskForReplay, ReprocessAwaiting, LeftAwaiting, ReplyInv
  <1>4. /\ resp_buffer' = release_acked(req)
        /\ UNCHANGED << committed_upto, s_history >>
    BY <1>3 DEF DeliverRequest, on_request, ResendBuffered, AcknowledgeOnly, Stage
  <1>5. /\ DOMAIN resp_buffer' \subseteq DOMAIN resp_buffer
        /\ DOMAIN resp_buffer' \cap Ids(req.ack_new) = {}
    BY <1>4 DEF release_acked, Erase
  <1>6. DOMAIN resp_buffer' \cap ResponsesIn(s_history') = {}
    BY <1>4, <1>5 DEF WindowInv, ReleasedInv
  <1>7. CASE Stage(req)
    <2>1. /\ pending_reqs' = Put(pending_reqs, req.seq, req)
          /\ draining' = TRUE /\ req.seq > committed_upto
      BY <1>7 DEF Stage
    <2>2. \A n \in DOMAIN pending_reqs' :
              /\ n > committed_upto'
              /\ DOMAIN resp_buffer' \cap Ids(pending_reqs'[n].ack_new) = {}
      BY <1>4, <1>5, <2>1 DEF Put, WindowInv, ReleasedInv
    <2>3. ReleasedInv'
      BY <1>6, <2>2 DEF ReleasedInv, ResponsesIn, Ids
    <2> QED BY <1>1, <2>1, <2>3 DEF WindowInv, ClientWindowInv
  <1>8. CASE UNCHANGED << pending_reqs, draining >>
    <2>1. \A n \in DOMAIN pending_reqs' :
              /\ n > committed_upto'
              /\ DOMAIN resp_buffer' \cap Ids(pending_reqs'[n].ack_new) = {}
      BY <1>4, <1>5, <1>8 DEF WindowInv, ReleasedInv
    <2>2. ReleasedInv'
      BY <1>6, <2>1 DEF ReleasedInv, ResponsesIn, Ids
    <2>3. (~draining => NextInOrder \notin DOMAIN pending_reqs)'
      BY <1>4, <1>8 DEF WindowInv, NextInOrder
    <2> QED BY <1>1, <2>2, <2>3 DEF WindowInv, ClientWindowInv
  <1> QED BY <1>3, <1>7, <1>8 DEF DeliverRequest, on_request, ResendBuffered,
          AcknowledgeOnly

\* The commit loop records only responses that have left the buffer, and buffers a
\* response that no request has acknowledged yet.
LEMMA CommitWindow ==
    ASSUME TypeOK, HistoryInv, AckInv, ReplyInv, WindowInv, Commit
    PROVE  WindowInv'
  <1>1. ClientWindowInv'
    BY ClientWindowKept DEF Commit
  <1>2. CASE CommitNext
    <2> DEFINE n == NextInOrder
               r == pending_reqs[n]
    <2>1. /\ n = committed_upto + 1 /\ committed_upto \in Nat
          /\ n \in DOMAIN pending_reqs /\ r \in AllRequests
          /\ r \in Request /\ r.seq = n /\ n \in SeqNo
          /\ s_history \in Seq(Event)
      BY <1>2 DEF CommitNext, NextInOrder, AllRequests, TypeOK, ServerTypeOK, SeqNo
    <2>2. /\ s_history' = s_history \o Committed(r.ack_new, n)
          /\ DOMAIN resp_buffer' = DOMAIN resp_buffer \cup {n}
          /\ pending_reqs' = Erase(pending_reqs, {n})
          /\ committed_upto' = n /\ draining /\ draining' = draining
      BY <1>2, <2>1 DEF CommitNext, EventsOf, Put
    <2>3. ResponsesIn(s_history') = ResponsesIn(s_history) \cup Ids(r.ack_new)
      BY <2>1, <2>2, CommittedType, EventsConcat, EventsCommitted DEF Request
    <2> HIDE DEF n, r
    <2>4. /\ n \notin ResponsesIn(s_history)
          /\ \A req \in AllRequests : n \notin Ids(req.ack_new)
      BY <2>1, RecordedCommitted
    <2>5. DOMAIN resp_buffer' \cap ResponsesIn(s_history') = {}
      BY <2>1, <2>2, <2>3, <2>4 DEF WindowInv, ReleasedInv, r
    <2>6. \A m \in DOMAIN pending_reqs' :
              /\ m \in DOMAIN pending_reqs /\ m # n
              /\ pending_reqs'[m] = pending_reqs[m]
              /\ pending_reqs[m] \in AllRequests
      BY <2>2 DEF Erase, AllRequests
    <2>7. \A m \in DOMAIN pending_reqs' : m > committed_upto'
      <3>1. \A m \in DOMAIN pending_reqs : m \in Nat /\ m > committed_upto
        BY DEF WindowInv, ReleasedInv, TypeOK, ServerTypeOK, SeqNo
      <3>2. committed_upto' = committed_upto + 1 /\ committed_upto \in Nat
        BY <2>1, <2>2
      <3>3. \A m \in DOMAIN pending_reqs' :
                m \in DOMAIN pending_reqs /\ m # committed_upto + 1
        BY <2>1, <2>6
      <3> QED BY <3>1, <3>2, <3>3
    <2>8. \A m \in DOMAIN pending_reqs' :
              DOMAIN resp_buffer' \cap Ids(pending_reqs'[m].ack_new) = {}
      <3>1. \A m \in DOMAIN pending_reqs :
                DOMAIN resp_buffer \cap Ids(pending_reqs[m].ack_new) = {}
        BY DEF WindowInv, ReleasedInv
      <3>2. ASSUME NEW m \in DOMAIN pending_reqs'
            PROVE  DOMAIN resp_buffer' \cap Ids(pending_reqs[m].ack_new) = {}
        BY <2>2, <2>4, <2>6, <3>1
      <3> QED BY <2>6, <3>2
    <2>9. ReleasedInv'
      BY <2>5, <2>7, <2>8 DEF ReleasedInv, ResponsesIn, Ids
    <2> QED BY <1>1, <2>2, <2>9 DEF WindowInv, ClientWindowInv
  <1>3. CASE CommitDone
    <2>1. ReleasedInv'
      BY <1>3 DEF CommitDone, WindowInv, ReleasedInv
    <2>2. (~draining => NextInOrder \notin DOMAIN pending_reqs)'
      BY <1>3 DEF CommitDone, NextInOrder
    <2> QED BY <1>1, <2>1, <2>2 DEF WindowInv, ClientWindowInv
  <1> QED BY <1>2, <1>3 DEF Commit

\* A response reaches the client: the server's buffers stand.
LEMMA DeliverResponseWindow ==
    ASSUME TypeOK, HistoryInv, AckInv, ReplyInv, WindowInv,
           NEW resp \in s2c, DeliverResponse(resp)
    PROVE  WindowInv'
  <1>1. ReleasedInv' /\ (~draining => NextInOrder \notin DOMAIN pending_reqs)'
    BY ReleasedKept DEF DeliverResponse
  <1>2. ClientWindowInv'
    BY OnResponseWindow, ClientWindowKept DEF DeliverResponse, on_duplicate_response
  <1> QED BY <1>1, <1>2 DEF WindowInv, ClientWindowInv

\* The window bounds what is unanswered, now and whenever a request was frozen.
LEMMA WindowInvariant == Spec => []WindowInv
  <1>1. Init => WindowInv
    <2> SUFFICES ASSUME Init PROVE WindowInv
      OBVIOUS
    <2>1. DOMAIN EmptyMap = {}
      BY DEF EmptyMap
    <2>2. /\ outstanding = {} /\ DOMAIN resp_buffer = {} /\ DOMAIN pending_reqs = {}
          /\ next_seq = 1 /\ received = {} /\ pending_new = << >> /\ c_history = << >>
      BY <2>1 DEF Init, ClientInit, ServerInit, outstanding
    <2>3. ResponsesIn(<< >>) = {} /\ Ids(<< >>) = {} /\ 1 .. 0 = {}
      BY DEF ResponsesIn, Ids
    <2>4. ReceiptInv
      BY <2>2, <2>3 DEF ReceiptInv
    <2>5. IsFiniteSet({}) /\ Cardinality({}) <= Window
      BY FS_EmptySet, BoundsAssumption
    <2>6. ASSUME NEW n \in 0 .. (next_seq - 1) PROVE FitsWindow(n)
      <3>1. n = 0
        BY <2>2
      <3> QED BY <2>3, <2>5, <3>1 DEF FitsWindow, HistoryAt
    <2> QED BY <2>2, <2>4, <2>5, <2>6 DEF WindowInv, ReleasedInv
  <1>2. ASSUME TypeOK, HistoryInv, AckInv, ReplyInv, WindowInv, [Next]_vars
        PROVE  WindowInv'
    <2>1. CASE (\E n \in outstanding : Resend(n)) \/ Lose \/ UNCHANGED vars
      <3>1. UNCHANGED << clientVars, serverVars >>
        BY <2>1 DEF Resend, Retransmit, Lose, vars
      <3> QED BY <1>2, <3>1, ClientWindowKept, ReleasedKept DEF WindowInv, ClientWindowInv
    <2> QED BY <1>2, <2>1, GenerateWindow, DeliverRequestWindow, CommitWindow,
            DeliverResponseWindow DEF Next
  <1> QED BY <1>1, <1>2, TypeCorrect, HistoryInvariant, AckInvariant, ReplyInvariant,
          PTL DEF Spec

\* BOUNDED of checker.h, for every window and any number of requests: at most Window
\* responses are buffered, fewer than Window requests are staged when on_request has
\* returned, and a request acknowledges at most Window responses by id.
THEOREM BoundedCorrect == Spec => []Bounded
  <1>1. ASSUME TypeOK, HistoryInv, AckInv, ReplyInv, WindowInv
        PROVE  Bounded
    <2>1. /\ committed_upto \in Nat /\ next_seq \in Nat /\ committed_upto < next_seq
          /\ Window \in Nat
      BY <1>1, BoundsAssumption DEF TypeOK, ServerTypeOK, ClientTypeOK, SeqNo, HistoryInv
    <2>2. Cardinality(DOMAIN resp_buffer) <= Window
      <3> DEFINE U == (1 .. committed_upto) \ ResponsesIn(s_history)
      <3>1. IsFiniteSet(U) /\ Cardinality(U) <= Window
        BY <1>1, <2>1 DEF WindowInv, FitsWindow, HistoryInv
      <3>2. DOMAIN resp_buffer \subseteq U
        <4>1. \A n \in DOMAIN resp_buffer : n \in 1 .. committed_upto
          BY <1>1, <2>1 DEF ReplyInv, TypeOK, ServerTypeOK, SeqNo
        <4> QED BY <1>1, <4>1 DEF WindowInv, ReleasedInv
      <3> HIDE DEF U
      <3>3. /\ IsFiniteSet(DOMAIN resp_buffer)
            /\ Cardinality(DOMAIN resp_buffer) <= Cardinality(U)
        BY <3>1, <3>2, FS_Subset
      <3>4. Cardinality(DOMAIN resp_buffer) \in Nat /\ Cardinality(U) \in Nat
        BY <3>1, <3>3, FS_CardinalityType
      <3> QED BY <2>1, <3>1, <3>3, <3>4
    <2>3. ASSUME ~draining
          PROVE  Cardinality(DOMAIN pending_reqs) < Window
      <3> DEFINE P == DOMAIN pending_reqs
      <3>1. IsFiniteSet(outstanding) /\ Cardinality(outstanding) <= Window
        BY <1>1 DEF WindowInv
      <3>2. P \subseteq outstanding
        <4>1. \A n \in P : n \in Nat /\ n > committed_upto /\ n < next_seq
          <5>1. ASSUME NEW n \in P PROVE n < next_seq
            BY <1>1 DEF HistoryInv, Frozen, AllRequests, TypeOK, ServerTypeOK
          <5> QED BY <1>1, <5>1 DEF WindowInv, ReleasedInv, TypeOK, ServerTypeOK, SeqNo
        <4> QED BY <1>1, <2>1, <4>1 DEF WindowInv, ReceiptInv, AckInv
      <3>3. CASE P = {}
        <4>1. Cardinality(P) = 0
          BY <3>3, FS_EmptySet
        <4> QED BY <4>1, BoundsAssumption
      <3>4. CASE P # {}
        <4>1. committed_upto + 1 \in outstanding \ P
          <5>1. committed_upto + 1 \notin P
            BY <1>1, <2>3 DEF WindowInv, NextInOrder
          <5>2. committed_upto + 1 < next_seq
            <6>1. PICK n \in P : TRUE
              BY <3>4
            <6>2. n \in Nat /\ n > committed_upto /\ n < next_seq
              BY <1>1, <2>1, <3>2 DEF WindowInv, ReceiptInv, ReleasedInv
            <6> QED BY <2>1, <6>2
          <5>3. committed_upto + 1 \notin received
            BY <1>1, <2>1 DEF AckInv
          <5> QED BY <1>1, <2>1, <5>1, <5>2, <5>3 DEF WindowInv, ReceiptInv
        <4>2. /\ IsFiniteSet(P) /\ Cardinality(P) <= Cardinality(outstanding)
              /\ Cardinality(outstanding) = Cardinality(P) => outstanding = P
          BY <3>1, <3>2, FS_Subset
        <4>3. Cardinality(P) # Cardinality(outstanding)
          BY <4>1, <4>2
        <4>4. Cardinality(P) \in Nat /\ Cardinality(outstanding) \in Nat
          BY <3>1, <4>2, FS_CardinalityType
        <4> QED BY <2>1, <3>1, <4>2, <4>3, <4>4
      <3> QED BY <3>3, <3>4
    <2>4. Len(pending_new) <= Window
      <3>1. pending_new \in Seq(SeqNo)
        BY <1>1 DEF TypeOK, ClientTypeOK
      <3> DEFINE U == (1 .. (next_seq - 1)) \ ResponsesIn(c_history)
                 D == DOMAIN pending_new
      <3>2. IsFiniteSet(U) /\ Cardinality(U) <= Window
        BY <1>1, <2>1 DEF WindowInv, FitsWindow, HistoryInv, ClientHistoryInv
      <3>3. pending_new \in Injection(D, U)
        <4>1. \A i \in D : pending_new[i] \in U
          <5>1. Ids(pending_new) \subseteq U
            BY <1>1, <2>1, RecordedCommitted DEF WindowInv, ReceiptInv
          <5> QED BY <5>1 DEF Ids
        <4>2. pending_new = [i \in D |-> pending_new[i]]
          BY <3>1
        <4> QED BY <1>1, <4>1, <4>2 DEF WindowInv, ReceiptInv, Injection, IsInjective
      <3>4. D = 1 .. Len(pending_new) /\ Len(pending_new) \in Nat
        BY <3>1
      <3>5. Cardinality(D) = Len(pending_new)
        <4>1. Cardinality(1 .. Len(pending_new)) =
                  IF 1 > Len(pending_new) THEN 0 ELSE Len(pending_new) - 1 + 1
          BY <3>4, FS_Interval
        <4> QED BY <3>4, <4>1
      <3> HIDE DEF U, D
      <3>6. Cardinality(D) <= Cardinality(U) /\ Cardinality(U) \in Nat
        BY <3>2, <3>3, <3>5, FS_Injection, FS_CardinalityType
      <3> QED BY <2>1, <3>2, <3>4, <3>5, <3>6
    <2> QED BY <2>2, <2>3, <2>4 DEF Bounded
  <1> QED BY <1>1, TypeCorrect, HistoryInvariant, AckInvariant, ReplyInvariant,
          WindowInvariant, PTL

\* checker.h after the drain, for every window and any number of requests: once no
\* request is outstanding both endpoints hold the same history.
THEOREM QuietConverged == Spec => []ConvergedWhenQuiet
  <1>1. ASSUME TypeOK, HistoryInv, AckInv, WindowInv, outstanding = {}
        PROVE  s_history = c_history
    <2>1. /\ committed_upto \in Nat /\ next_seq \in Nat \ {0}
          /\ committed_upto < next_seq
      BY <1>1 DEF TypeOK, ServerTypeOK, ClientTypeOK, SeqNo, HistoryInv
    <2>2. 1 .. (next_seq - 1) \subseteq 1 .. committed_upto
      BY <1>1 DEF WindowInv, ReceiptInv, AckInv
    <2>3. committed_upto = next_seq - 1
      <3>1. CASE next_seq = 1
        BY <2>1, <3>1
      <3>2. CASE next_seq > 1
        <4>1. next_seq - 1 \in 1 .. (next_seq - 1)
          BY <2>1, <3>2
        <4> QED BY <2>1, <2>2, <4>1
      <3> QED BY <2>1, <3>1, <3>2
    <2> QED BY <1>1, <2>3 DEF HistoryInv, ClientHistoryInv
  <1> QED BY <1>1, TypeCorrect, HistoryInvariant, AckInvariant, WindowInvariant, PTL
          DEF ConvergedWhenQuiet

-----------------------------------------------------------------------------
(* The conversation implements the shared history.                         *)

\* Both specifications build events and maps alike.
LEMMA SharedData ==
    /\ Shared!EmptyMap = EmptyMap
    /\ \A n : Shared!ReqEvent(n) = ReqEvent(n)
    /\ \A ids, n : Shared!Committed(ids, n) = Committed(ids, n)
    /\ \A map, key, value : Shared!Put(map, key, value) = Put(map, key, value)
  BY DEF Shared!EmptyMap, EmptyMap, Shared!Committed, Committed, Shared!RspEvents,
     RspEvents, Shared!RspEvent, RspEvent, Shared!ReqEvent, ReqEvent, Shared!Put, Put

\* A step that leaves the histories, the receipts and the answers alone stutters.
LEMMA SharedStutter ==
    ASSUME UNCHANGED << c_history, next_seq, pending_new, s_history, app_runs,
                        received_payload >>
    PROVE  UNCHANGED Shared!vars
  BY DEF Shared!vars

\* generate_request is Issue.
LEMMA GenerateIssues ==
    ASSUME TypeOK, Generate
    PROVE  Shared!Issue
  <1>1. next_seq \in Nat
    BY DEF TypeOK, ClientTypeOK, SeqNo
  <1>2. /\ next_seq' - 1 = (next_seq - 1) + 1
        /\ (next_seq - 1) + 1 = next_seq
        /\ c_history' = c_history \o Committed(pending_new, next_seq)
        /\ pending_new' = << >>
        /\ UNCHANGED << s_history, app_runs, received_payload >>
    BY <1>1 DEF Generate, generate_request, NextRequest, serverVars
  <1> QED BY <1>2, SharedData DEF Shared!Issue

\* One iteration of the commit loop is Serve: what the server then holds is the
\* client's history through the event of the request it commits.
LEMMA CommitServes ==
    ASSUME TypeOK, HistoryInv, ReplyInv, HistoryInv', CommitNext, UNCHANGED clientVars
    PROVE  \E n \in 1 .. (next_seq - 1) : Shared!Serve(n)
  <1> DEFINE n == NextInOrder
             r == pending_reqs[n]
  <1>1. /\ committed_upto \in Nat /\ n = committed_upto + 1
        /\ n \in SeqNo /\ n \in DOMAIN pending_reqs
        /\ r \in Request /\ r.seq = n
        /\ s_history \in Seq(Event) /\ c_history \in Seq(Event)
        /\ next_seq \in Nat
    BY DEF CommitNext, NextInOrder, TypeOK, ServerTypeOK, ClientTypeOK, SeqNo
  <1>2. /\ committed_upto' = n
        /\ s_history' = s_history \o Committed(r.ack_new, n)
        /\ app_runs' = Bump(app_runs, n)
        /\ UNCHANGED << c_history, next_seq, pending_new, received_payload, c_req_hash >>
    BY <1>1 DEF CommitNext, EventsOf, clientVars
  <1>3. r.ack_new \in Seq(SeqNo)
    BY <1>1 DEF Request
  <1> HIDE DEF n, r
  <1>4. n \in 1 .. (next_seq - 1) /\ s_history' = c_req_hash[n]
    BY <1>1, <1>2 DEF HistoryInv, HistoryAt
  <1>5. IsPrefixOf(s_history', c_history)
    BY <1>1, <1>4 DEF HistoryInv, ClientHistoryInv
  <1> DEFINE k == Len(s_history')
  <1>6. /\ s_history' \in Seq(Event) /\ k \in Nat \ {0}
        /\ s_history'[k] = ReqEvent(n)
    <2> DEFINE a == RspEvents(r.ack_new)
               e == ReqEvent(n)
    <2>1. a \in Seq(Event) /\ e \in Event
      <3>1. \A i \in DOMAIN r.ack_new : RspEvent(r.ack_new[i]) \in Event
        BY <1>3 DEF RspEvent, Event, SeqNo
      <3>2. a \in [1 .. Len(r.ack_new) -> Event]
        BY <1>3, <3>1 DEF RspEvents
      <3>3. Len(r.ack_new) \in Nat
        BY <1>3
      <3>4. e \in Event
        BY <1>1 DEF ReqEvent, Event
      <3> HIDE DEF a, e
      <3>5. a \in Seq(Event)
        BY <3>2, <3>3
      <3> QED BY <3>4, <3>5
    <2>2. s_history' = s_history \o (a \o << e >>)
      BY <1>2 DEF Committed
    <2> HIDE DEF a, e
    <2>3. /\ s_history \o (a \o << e >>) \in Seq(Event)
          /\ Len(s_history \o (a \o << e >>)) = Len(s_history) + (Len(a) + 1)
          /\ (s_history \o (a \o << e >>))[Len(s_history) + (Len(a) + 1)] = e
      BY <1>1, <2>1
    <2>4. Len(s_history) \in Nat /\ Len(a) \in Nat
      BY <1>1, <2>1
    <2> QED BY <2>2, <2>3, <2>4 DEF e
  <1>7. /\ k \in DOMAIN c_history
        /\ c_history[k] = ReqEvent(n)
        /\ s_history' = SubSeq(c_history, 1, k)
    <2>1. s_history' = SubSeq(c_history, 1, k) /\ k <= Len(c_history)
      BY <1>5 DEF IsPrefixOf
    <2>2. SubSeq(c_history, 1, k)[k] = c_history[k]
      BY <1>1, <1>6, <2>1
    <2>3. k \in DOMAIN c_history
      BY <1>1, <1>6, <2>1
    <2> QED BY <1>6, <2>1, <2>2, <2>3
  <1>8. /\ n \notin DOMAIN app_runs
        /\ \A m \in 1 .. (n - 1) : m \in DOMAIN app_runs
    BY <1>1 DEF ReplyInv
  <1>9. /\ DOMAIN app_runs' = DOMAIN app_runs \cup {n}
        /\ \A m \in DOMAIN app_runs : app_runs'[m] = app_runs[m]
    BY <1>2, <1>8 DEF Bump, Put
  <1>10. Shared!Serve(n)
    <2>1. \E i \in DOMAIN c_history : /\ c_history[i] = Shared!ReqEvent(n)
                                     /\ s_history' = SubSeq(c_history, 1, i)
      BY <1>7, SharedData
    <2> QED BY <1>2, <1>8, <1>9, <2>1 DEF Shared!Serve
  <1> QED BY <1>4, <1>10

\* The first receipt of a response is Receive, of the answer the application gave.
LEMMA FirstReceiptReceives ==
    ASSUME TypeOK, HistoryInv, AckInv, ReplyInv, NEW resp \in s2c, on_response(resp),
           UNCHANGED serverVars
    PROVE  \E n \in 1 .. (next_seq - 1) : Shared!Receive(n)
  <1>1. resp \in AllResponses /\ resp.seq \notin received
    BY DEF AllResponses, on_response
  <1>2. ~resp.no_op /\ resp.payload = 1 /\ resp.seq \in 1 .. committed_upto
    BY <1>1 DEF ReplyInv, AckInv
  <1>3. /\ pending_new' = Append(pending_new, resp.seq)
        /\ received_payload' = Put(received_payload, resp.seq, 1)
        /\ UNCHANGED << c_history, next_seq, s_history, app_runs >>
    BY <1>2 DEF on_response, serverVars
  <1>4. /\ resp.seq \in DOMAIN app_runs \ DOMAIN received_payload
        /\ app_runs[resp.seq] = 1
    BY <1>1, <1>2 DEF ReplyInv, NoLostReply
  <1>5. Shared!Receive(resp.seq)
    BY <1>3, <1>4, SharedData DEF Shared!Receive
  <1>6. resp.seq \in 1 .. (next_seq - 1)
    BY <1>2 DEF HistoryInv, TypeOK, ServerTypeOK, ClientTypeOK, SeqNo
  <1> QED BY <1>5, <1>6

\* The conversation implements the shared history, for every window and any number
\* of requests: whatever the links lose, duplicate or reorder, each step of client and
\* server writes to one history, takes the next request from it, delivers one answer,
\* or changes nothing of it.
THEOREM RefinesSharedHistory == Spec => ImplementsSharedHistory
  <1>1. Init => Shared!Init
    BY SharedData DEF Init, ClientInit, ServerInit, Shared!Init
  <1>2. ASSUME TypeOK, HistoryInv, AckInv, ReplyInv, HistoryInv', [Next]_vars
        PROVE  [Shared!Next]_(Shared!vars)
    <2>1. CASE Generate
      BY <1>2, <2>1, GenerateIssues DEF Shared!Next
    <2>2. CASE (\E n \in outstanding : Resend(n)) \/ Lose \/ UNCHANGED vars
      BY <2>2, SharedStutter DEF Resend, Retransmit, Lose, vars, clientVars, serverVars
    <2>3. ASSUME NEW req \in c2s, DeliverRequest(req)
          PROVE  UNCHANGED Shared!vars
      <3>1. ~ReprocessAwaiting(req)
        BY <1>2 DEF ReprocessAwaiting, LeftAwaiting, ReplyInv
      <3>2. UNCHANGED << s_history, app_runs >>
        BY <2>3, <3>1 DEF DeliverRequest, on_request, AskForReplay, ResendBuffered,
           AcknowledgeOnly, Stage, serverVars
      <3> QED BY <2>3, <3>2, SharedStutter DEF DeliverRequest, clientVars
    <2>4. CASE Commit
      <3>1. CASE CommitNext
        BY <1>2, <2>4, <3>1, CommitServes DEF Commit, Shared!Next
      <3>2. CASE CommitDone
        BY <2>4, <3>2, SharedStutter DEF Commit, CommitDone, clientVars
      <3> QED BY <2>4, <3>1, <3>2 DEF Commit
    <2>5. ASSUME NEW resp \in s2c, DeliverResponse(resp)
          PROVE  [Shared!Next]_(Shared!vars)
      <3>1. CASE on_response(resp)
        BY <1>2, <2>5, <3>1, FirstReceiptReceives DEF DeliverResponse, Shared!Next
      <3>2. CASE on_duplicate_response(resp)
        BY <2>5, <3>2, SharedStutter DEF DeliverResponse, on_duplicate_response,
           clientVars, serverVars
      <3> QED BY <2>5, <3>1, <3>2 DEF DeliverResponse
    <2> QED BY <1>2, <2>1, <2>2, <2>3, <2>4, <2>5 DEF Next
  <1> QED BY <1>1, <1>2, TypeCorrect, HistoryInvariant, AckInvariant, ReplyInvariant,
          PTL DEF Spec, ImplementsSharedHistory, Shared!Spec
=============================================================================
