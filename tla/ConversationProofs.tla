------------------------- MODULE ConversationProofs -------------------------
(***************************************************************************)
(* Proofs about Conversation, for every number of requests and every       *)
(* window.                                                                 *)
(***************************************************************************)
EXTENDS ConversationInvariants, TLAPS, SequenceTheorems

-----------------------------------------------------------------------------
(* Maps keyed by seq.                                                      *)

\* A counter map keeps counting from what it holds (++app_calls_[seq]).
LEMMA BumpType ==
    ASSUME NEW S, NEW map, NEW n \in S,
           DOMAIN map \subseteq S,
           \A k \in DOMAIN map : map[k] \in Nat
    PROVE  /\ CountOf(map, n) \in Nat
           /\ DOMAIN Bump(map, n) \subseteq S
           /\ \A k \in DOMAIN Bump(map, n) : Bump(map, n)[k] \in Nat
  BY DEF Bump, Put, CountOf

\* Put keeps a map a map from S to T.
LEMMA PutType ==
    ASSUME NEW S, NEW T, NEW map, NEW key \in S, NEW value \in T,
           DOMAIN map \subseteq S,
           \A n \in DOMAIN map : map[n] \in T
    PROVE  /\ DOMAIN Put(map, key, value) \subseteq S
           /\ \A n \in DOMAIN Put(map, key, value) : Put(map, key, value)[n] \in T
  BY DEF Put

-----------------------------------------------------------------------------
(* Types of the data a step builds.                                        *)

\* The events a request commits form a sequence of events.
LEMMA CommittedType ==
    ASSUME NEW ids \in Seq(SeqNo), NEW n \in SeqNo
    PROVE  Committed(ids, n) \in Seq(Event)
  <1>1. ReqEvent(n) \in Event
    BY DEF ReqEvent, Event, SeqNo
  <1>2. RspEvents(ids) \in Seq(Event)
    <2>1. \A i \in DOMAIN ids : RspEvent(ids[i]) \in Event
      BY DEF RspEvent, Event, SeqNo
    <2>2. DOMAIN ids = 1 .. Len(ids) /\ Len(ids) \in Nat
      OBVIOUS
    <2>3. RspEvents(ids) \in [1 .. Len(ids) -> Event]
      BY <2>1, <2>2 DEF RspEvents
    <2> QED BY <2>2, <2>3
  <1>3. << ReqEvent(n) >> \in Seq(Event)
    BY <1>1
  <1> QED BY <1>2, <1>3 DEF Committed

\* The request generate_request freezes is a well-formed request.
LEMMA NextRequestType ==
    ASSUME ClientTypeOK
    PROVE  /\ NextRequest \in Request
           /\ NextRequest.hash \in Hash
  BY CommittedType DEF ClientTypeOK, NextRequest, Request, Hash

\* A response built from a payload and the table of hashes is well formed.
LEMMA ResponseType ==
    ASSUME NEW n \in SeqNo, NEW payload \in Nat, NEW no_op \in BOOLEAN,
           NEW hashes, \A k \in DOMAIN hashes : hashes[k] \in Hash
    PROVE  make_response(n, payload, no_op, hashes) \in Response
  <1>1. NoHash \in Hash
    BY DEF NoHash, Hash
  <1> QED BY <1>1 DEF make_response, Response

-----------------------------------------------------------------------------
(* Type correctness, one lemma per action.                                 *)

\* Generating a request keeps every variable in its type.
LEMMA GenerateType ==
    TypeOK /\ Generate => TypeOK'
  <1> SUFFICES ASSUME TypeOK, Generate
               PROVE  TypeOK'
    OBVIOUS
  <1> USE DEF TypeOK, Generate, generate_request
  <1>1. NextRequest \in Request /\ NextRequest.hash \in Hash
    BY NextRequestType
  <1>2. NetTypeOK'
    BY <1>1 DEF NetTypeOK, SendRequest
  <1>3. ClientTypeOK'
    <2>1. next_seq \in SeqNo /\ next_seq' \in SeqNo
      BY DEF ClientTypeOK, SeqNo
    <2>2. /\ DOMAIN c_req_hash' \subseteq SeqNo
          /\ \A n \in DOMAIN c_req_hash' : c_req_hash'[n] \in Hash
      BY <1>1, <2>1, PutType DEF ClientTypeOK
    <2>3. /\ DOMAIN inflight' \subseteq SeqNo
          /\ \A n \in DOMAIN inflight' : inflight'[n] \in Request
      BY <1>1, <2>1, PutType DEF ClientTypeOK
    <2>4. pending_new' \in Seq(SeqNo) /\ c_history' \in Seq(Event)
      BY <1>1 DEF Hash
    <2> QED BY <2>1, <2>2, <2>3, <2>4 DEF ClientTypeOK
  <1>4. ServerTypeOK'
    BY DEF ServerTypeOK, serverVars
  <1> QED BY <1>2, <1>3, <1>4

\* Sending a frozen request again keeps every variable in its type.
LEMMA ResendType ==
    ASSUME TypeOK, NEW n \in outstanding, Resend(n)
    PROVE  TypeOK'
  <1> USE DEF TypeOK, Resend, Retransmit
  <1>1. NetTypeOK'
    BY DEF NetTypeOK, ClientTypeOK, SendRequest
  <1>2. ClientTypeOK'
    BY DEF ClientTypeOK, clientVars
  <1>3. ServerTypeOK'
    BY DEF ServerTypeOK, serverVars
  <1> QED BY <1>1, <1>2, <1>3

\* Applying an acknowledgement leaves a map of payloads.
LEMMA ReleaseType ==
    ASSUME ServerTypeOK, NEW req
    PROVE  /\ DOMAIN release_acked(req) \subseteq DOMAIN resp_buffer
           /\ \A n \in DOMAIN release_acked(req) :
                  release_acked(req)[n] = resp_buffer[n] /\ resp_buffer[n] \in Nat
  BY DEF release_acked, ServerTypeOK, Erase

\* Every branch of on_request keeps every variable in its type.
LEMMA OnRequestType ==
    ASSUME TypeOK, NEW req \in Request, on_request(req), c2s' \subseteq c2s,
           UNCHANGED clientVars
    PROVE  TypeOK'
  <1> USE DEF TypeOK
  <1>1. req.seq \in SeqNo
    BY DEF Request
  <1>2. c2s' \subseteq Request
    BY DEF NetTypeOK
  <1>3. ClientTypeOK'
    BY DEF ClientTypeOK, clientVars
  <1>4. /\ DOMAIN release_acked(req) \subseteq SeqNo
        /\ \A n \in DOMAIN release_acked(req) : release_acked(req)[n] \in Nat
    BY ReleaseType DEF ServerTypeOK
  <1>5. \A k \in DOMAIN s_req_hash : s_req_hash[k] \in Hash
    BY DEF ServerTypeOK
  <1>6. CASE AskForReplay(req)
    <2>1. RecoverSignal(req.seq) \in Response
      BY <1>1 DEF RecoverSignal, Response, NoPayload, NoHash, Hash, ServerTypeOK
    <2>2. s2c' \subseteq Response
      BY <1>6, <2>1 DEF AskForReplay, SendResponses, NetTypeOK
    <2>3. ServerTypeOK'
      BY <1>6 DEF AskForReplay, ServerTypeOK, serverVars
    <2> QED BY <1>2, <1>3, <2>2, <2>3 DEF NetTypeOK
  <1>7. CASE ResendBuffered(req)
    <2>1. make_response(req.seq, resp_buffer[req.seq], FALSE, s_req_hash) \in Response
      <3>1. resp_buffer[req.seq] \in Nat
        BY <1>7, ReleaseType DEF ResendBuffered
      <3> QED BY <1>1, <1>5, <3>1, ResponseType
    <2>2. s2c' \subseteq Response
      BY <1>7, <2>1 DEF ResendBuffered, SendResponses, NetTypeOK
    <2>3. ServerTypeOK'
      BY <1>4, <1>7 DEF ResendBuffered, ServerTypeOK
    <2> QED BY <1>2, <1>3, <2>2, <2>3 DEF NetTypeOK
  <1>8. CASE ReprocessAwaiting(req)
    <2>1. AppResult(req.seq) \in Nat
      BY <1>1, BumpType DEF AppResult, ServerTypeOK
    <2>2. make_response(req.seq, AppResult(req.seq), FALSE, s_req_hash) \in Response
      BY <1>1, <1>5, <2>1, ResponseType
    <2>3. s2c' \subseteq Response
      BY <1>8, <2>2 DEF ReprocessAwaiting, SendResponses, NetTypeOK
    <2>4. /\ DOMAIN resp_buffer' \subseteq SeqNo
          /\ \A n \in DOMAIN resp_buffer' : resp_buffer'[n] \in Nat
      BY <1>1, <1>4, <1>8, <2>1, PutType DEF ReprocessAwaiting
    <2>5. /\ DOMAIN app_calls' \subseteq SeqNo
          /\ \A n \in DOMAIN app_calls' : app_calls'[n] \in Nat
      BY <1>1, <1>8, BumpType DEF ReprocessAwaiting, ServerTypeOK
    <2>6. /\ DOMAIN app_runs' \subseteq SeqNo
          /\ \A n \in DOMAIN app_runs' : app_runs'[n] \in Nat
      BY <1>1, <1>8, BumpType DEF ReprocessAwaiting, ServerTypeOK
    <2>7. ServerTypeOK'
      BY <1>8, <2>4, <2>5, <2>6 DEF ReprocessAwaiting, ServerTypeOK
    <2> QED BY <1>2, <1>3, <2>3, <2>7 DEF NetTypeOK
  <1>9. CASE AcknowledgeOnly(req)
    <2>1. make_response(req.seq, NoPayload, TRUE, s_req_hash) \in Response
      BY <1>1, <1>5, ResponseType DEF NoPayload
    <2>2. s2c' \subseteq Response
      BY <1>9, <2>1 DEF AcknowledgeOnly, SendResponses, NetTypeOK
    <2>3. ServerTypeOK'
      BY <1>4, <1>9 DEF AcknowledgeOnly, ServerTypeOK
    <2> QED BY <1>2, <1>3, <2>2, <2>3 DEF NetTypeOK
  <1>10. CASE Stage(req)
    <2>1. s2c' \subseteq Response
      BY <1>10 DEF Stage, NetTypeOK
    <2>2. /\ DOMAIN pending_reqs' \subseteq SeqNo
          /\ \A n \in DOMAIN pending_reqs' :
                 pending_reqs'[n] \in Request /\ pending_reqs'[n].seq = n
      BY <1>1, <1>10 DEF Stage, ServerTypeOK, Put
    <2>3. ServerTypeOK'
      BY <1>4, <1>10, <2>2 DEF Stage, ServerTypeOK
    <2> QED BY <1>2, <1>3, <2>1, <2>3 DEF NetTypeOK
  <1> QED BY <1>6, <1>7, <1>8, <1>9, <1>10 DEF on_request

\* A request reaches the server: every variable stays in its type.
LEMMA DeliverRequestType ==
    ASSUME TypeOK, NEW req \in c2s, DeliverRequest(req)
    PROVE  TypeOK'
  <1>1. req \in Request
    BY DEF TypeOK, NetTypeOK
  <1>2. on_request(req) /\ c2s' \subseteq c2s /\ UNCHANGED clientVars
    BY DEF DeliverRequest, DueRequest
  <1> QED BY <1>1, <1>2, OnRequestType

\* One iteration of the commit loop keeps the server's variables in their types.
LEMMA CommitNextType ==
    ASSUME TypeOK, CommitNext
    PROVE  ServerTypeOK' /\ s2c' = s2c
  <1> DEFINE n == NextInOrder
             r == pending_reqs[n]
             h == s_history \o EventsOf(r)
  <1> USE DEF TypeOK
  <1>1. n \in SeqNo /\ n \in Nat /\ n \in DOMAIN pending_reqs
    BY DEF CommitNext, NextInOrder, ServerTypeOK, SeqNo
  <1>2. r \in Request /\ r.seq = n
    BY <1>1 DEF ServerTypeOK
  <1>3. h \in Hash
    <2>1. EventsOf(r) \in Seq(Event)
      BY <1>1, <1>2, CommittedType DEF EventsOf, Request
    <2> QED BY <2>1 DEF Hash, ServerTypeOK
  <1>4. AppResult(n) \in Nat
    BY <1>1, BumpType DEF AppResult, ServerTypeOK
  <1>5. /\ s_history' = h
        /\ s_req_hash' = Put(s_req_hash, n, h)
        /\ resp_buffer' = Put(resp_buffer, n, AppResult(n))
        /\ app_calls' = Bump(app_calls, n)
        /\ app_runs' = Bump(app_runs, n)
        /\ pending_reqs' = Erase(pending_reqs, {n})
        /\ committed_upto' = n
        /\ out' = out \cup {make_response(n, AppResult(n), FALSE, s_req_hash')}
        /\ s_mismatch' \in {s_mismatch, s_mismatch \cup {n}}
        /\ UNCHANGED << awaiting, draining, s2c >>
    BY DEF CommitNext
  <1> HIDE DEF n, r, h
  <1>6. /\ DOMAIN s_req_hash' \subseteq Nat
        /\ \A k \in DOMAIN s_req_hash' : s_req_hash'[k] \in Hash
    BY <1>1, <1>3, <1>5 DEF ServerTypeOK, Put
  <1>7. /\ DOMAIN resp_buffer' \subseteq SeqNo
        /\ \A k \in DOMAIN resp_buffer' : resp_buffer'[k] \in Nat
    BY <1>1, <1>4, <1>5 DEF ServerTypeOK, Put
  <1>8. /\ DOMAIN app_calls' \subseteq SeqNo
        /\ \A k \in DOMAIN app_calls' : app_calls'[k] \in Nat
    BY <1>1, <1>5, BumpType DEF ServerTypeOK
  <1>9. /\ DOMAIN app_runs' \subseteq SeqNo
        /\ \A k \in DOMAIN app_runs' : app_runs'[k] \in Nat
    BY <1>1, <1>5, BumpType DEF ServerTypeOK
  <1>10. /\ DOMAIN pending_reqs' \subseteq SeqNo
         /\ \A k \in DOMAIN pending_reqs' :
                pending_reqs'[k] \in Request /\ pending_reqs'[k].seq = k
    BY <1>5 DEF ServerTypeOK, Erase
  <1>11. out' \subseteq Response
    <2>1. make_response(n, AppResult(n), FALSE, s_req_hash') \in Response
      BY <1>1, <1>4, <1>6, ResponseType
    <2> QED BY <1>5, <2>1 DEF ServerTypeOK
  <1>12. s_history' \in Seq(Event) /\ s_mismatch' \subseteq SeqNo
    BY <1>1, <1>3, <1>5 DEF Hash, ServerTypeOK
  <1>13. ServerTypeOK'
    BY <1>1, <1>5, <1>6, <1>7, <1>8, <1>9, <1>10, <1>11, <1>12 DEF ServerTypeOK
  <1> QED BY <1>5, <1>13

\* The commit loop and the return of on_request keep every variable in its type.
LEMMA CommitType ==
    ASSUME TypeOK, Commit
    PROVE  TypeOK'
  <1>1. ClientTypeOK'
    BY DEF Commit, TypeOK, ClientTypeOK, clientVars
  <1>2. CASE CommitNext
    BY <1>1, <1>2, CommitNextType DEF Commit, TypeOK, NetTypeOK
  <1>3. CASE CommitDone
    <2>1. NetTypeOK'
      BY <1>3 DEF Commit, CommitDone, TypeOK, NetTypeOK, ServerTypeOK, SendResponses
    <2>2. ServerTypeOK'
      BY <1>3 DEF CommitDone, TypeOK, ServerTypeOK
    <2> QED BY <1>1, <2>1, <2>2 DEF TypeOK
  <1> QED BY <1>2, <1>3 DEF Commit

\* A delivered response, first or repeated, keeps every variable in its type.
LEMMA DeliverResponseType ==
    ASSUME TypeOK, NEW resp \in s2c, DeliverResponse(resp)
    PROVE  TypeOK'
  <1> USE DEF TypeOK
  <1>1. resp \in Response /\ resp.seq \in SeqNo /\ resp.payload \in Nat
    BY DEF NetTypeOK, Response
  <1>2. NetTypeOK'
    BY DEF DeliverResponse, DueResponse, NetTypeOK
  <1>3. ServerTypeOK'
    BY DEF DeliverResponse, ServerTypeOK, serverVars
  <1>4. CASE on_duplicate_response(resp)
    BY <1>2, <1>3, <1>4 DEF on_duplicate_response, ClientTypeOK, clientVars
  <1>5. CASE on_response(resp)
    <2>1. base' \in SeqNo
      BY <1>5 DEF on_response, AdvanceBase, ClientTypeOK, SeqNo
    <2>2. pending_new' \in Seq(SeqNo)
      BY <1>1, <1>5 DEF on_response, ClientTypeOK
    <2>3. /\ DOMAIN received_payload' \subseteq SeqNo
          /\ \A n \in DOMAIN received_payload' : received_payload'[n] \in Nat
      <3>1. CASE resp.no_op
        BY <1>5, <3>1 DEF on_response, ClientTypeOK
      <3>2. CASE ~resp.no_op
        BY <1>1, <1>5, <3>2, PutType DEF on_response, ClientTypeOK
      <3> QED BY <3>1, <3>2
    <2>4. /\ DOMAIN inflight' \subseteq SeqNo
          /\ \A n \in DOMAIN inflight' : inflight'[n] \in Request
      BY <1>5 DEF on_response, ClientTypeOK, Erase
    <2>5. received' \subseteq SeqNo /\ c_mismatch' \subseteq SeqNo
      BY <1>1, <1>5 DEF on_response, ClientTypeOK
    <2>6. ClientTypeOK'
      BY <1>5, <2>1, <2>2, <2>3, <2>4, <2>5 DEF on_response, ClientTypeOK
    <2> QED BY <1>2, <1>3, <2>6
  <1> QED BY <1>4, <1>5 DEF DeliverResponse

\* Losing a message keeps every variable in its type.
LEMMA LoseType ==
    ASSUME TypeOK, Lose
    PROVE  TypeOK'
  <1> USE DEF TypeOK, Lose
  <1>1. NetTypeOK'
    BY DEF NetTypeOK, LoseRequest, LoseResponse
  <1>2. ClientTypeOK'
    BY DEF ClientTypeOK, clientVars
  <1>3. ServerTypeOK'
    BY DEF ServerTypeOK, serverVars
  <1> QED BY <1>1, <1>2, <1>3

\* A stuttering step changes nothing.
LEMMA StutterType ==
    ASSUME TypeOK, UNCHANGED vars
    PROVE  TypeOK'
  BY DEF TypeOK, vars, netVars, clientVars, serverVars, NetTypeOK, ClientTypeOK,
         ServerTypeOK

\* The conversation starts well formed.
LEMMA InitType ==
    ASSUME Init
    PROVE  TypeOK
  <1>1. NetTypeOK
    BY DEF Init, NetInit, NetTypeOK
  <1>2. DOMAIN EmptyMap = {}
    BY DEF EmptyMap
  <1>3. ClientTypeOK
    BY <1>2 DEF Init, ClientInit, ClientTypeOK, SeqNo
  <1>4. ServerTypeOK
    <2>1. committed_upto \in Nat /\ s_history \in Seq(Event)
      BY DEF Init, ServerInit
    <2>2. draining \in BOOLEAN
      BY Zenon DEF Init, ServerInit
    <2> QED BY <1>2, <2>1, <2>2, Zenon DEF Init, ServerInit, ServerTypeOK
  <1> QED BY <1>1, <1>3, <1>4 DEF TypeOK

\* The conversation keeps every variable in its type: requests, responses,
\* histories and maps of both endpoints stay well formed.
THEOREM TypeCorrect == Spec => []TypeOK
  <1>1. Init => TypeOK
    BY InitType
  <1>2. TypeOK /\ [Next]_vars => TypeOK'
    BY GenerateType, ResendType, DeliverRequestType, CommitType,
       DeliverResponseType, LoseType, StutterType DEF Next
  <1> QED BY <1>1, <1>2, PTL DEF Spec

-----------------------------------------------------------------------------
(* Histories as sequences.                                                 *)

\* A history is a prefix of itself.
LEMMA PrefixReflexive ==
    ASSUME NEW s \in Seq(Event)
    PROVE  IsPrefixOf(s, s)
  <1>1. Len(s) \in Nat
    OBVIOUS
  <1>2. s = SubSeq(s, 1, Len(s))
    BY SubSeqFull
  <1> QED BY <1>1, <1>2 DEF IsPrefixOf

\* Appending events keeps the prefixes of a history (History::append).
LEMMA PrefixExtends ==
    ASSUME NEW s \in Seq(Event), NEW t \in Seq(Event), NEW u \in Seq(Event),
           IsPrefixOf(s, t)
    PROVE  IsPrefixOf(s, t \o u)
  <1>1. Len(s) \in Nat /\ Len(t) \in Nat /\ Len(u) \in Nat
    OBVIOUS
  <1>2. t \o u \in Seq(Event) /\ Len(t \o u) = Len(t) + Len(u)
    BY ConcatProperties
  <1>3. Len(s) <= Len(t) /\ s = SubSeq(t, 1, Len(s))
    BY DEF IsPrefixOf
  <1>4. \A i \in 1 .. Len(s) : s[i] = (t \o u)[i]
    <2>1. \A i \in 1 .. Len(s) : s[i] = t[i]
      BY <1>1, <1>3
    <2>2. \A i \in 1 .. Len(s) : (t \o u)[i] = t[i]
      BY <1>1, <1>3, ConcatProperties
    <2> QED BY <2>1, <2>2
  <1>5. SubSeq(t \o u, 1, Len(s)) = s
    <2>1. /\ SubSeq(t \o u, 1, Len(s)) \in Seq(Event)
          /\ Len(SubSeq(t \o u, 1, Len(s))) = Len(s)
          /\ \A i \in 1 .. Len(s) : SubSeq(t \o u, 1, Len(s))[i] = (t \o u)[i]
      BY <1>1, <1>2, <1>3
    <2> QED BY <1>1, <1>4, <2>1, SeqEqual
  <1> QED BY <1>1, <1>2, <1>3, <1>5 DEF IsPrefixOf

\* The empty history is a prefix of every history.
LEMMA EmptyPrefix ==
    ASSUME NEW t \in Seq(Event)
    PROVE  IsPrefixOf(<< >>, t)
  BY DEF IsPrefixOf

-----------------------------------------------------------------------------
(* The histories of both sides.                                            *)

\* Every copy of a request and of a response is well formed.
LEMMA AllMessagesType ==
    ASSUME TypeOK
    PROVE  /\ AllRequests \subseteq Request
           /\ AllResponses \subseteq Response
           /\ \A req \in AllRequests : req.seq \in SeqNo
           /\ next_seq \in Nat \ {0}
  <1>1. AllRequests \subseteq Request /\ AllResponses \subseteq Response
    BY DEF TypeOK, NetTypeOK, ClientTypeOK, ServerTypeOK, AllRequests, AllResponses
  <1> QED BY <1>1 DEF Request, TypeOK, ClientTypeOK, SeqNo

\* generate_request freezes the next request and leaves the earlier ones frozen.
LEMMA GenerateHistory ==
    ASSUME TypeOK, HistoryInv, Generate
    PROVE  HistoryInv'
  <1> DEFINE h == c_history \o Committed(pending_new, next_seq)
  <1>1. /\ next_seq' = next_seq + 1
        /\ c_history' = h
        /\ c_req_hash' = Put(c_req_hash, next_seq, h)
        /\ inflight' = Put(inflight, next_seq, NextRequest)
        /\ c2s' = c2s \cup {NextRequest}
        /\ UNCHANGED << s2c, serverVars, c_mismatch >>
        /\ NextRequest.seq = next_seq /\ NextRequest.hash = h
        /\ NextRequest.ack_new = pending_new
    BY DEF Generate, generate_request, NextRequest, SendRequest
  <1>2. next_seq \in Nat \ {0} /\ DOMAIN c_req_hash = 1 .. (next_seq - 1)
    BY AllMessagesType DEF HistoryInv, ClientHistoryInv
  <1>3. /\ DOMAIN c_req_hash' = 1 .. (next_seq' - 1)
        /\ c_req_hash'[next_seq] = h
        /\ \A n \in 1 .. (next_seq - 1) : c_req_hash'[n] = c_req_hash[n]
    BY <1>1, <1>2 DEF Put
  <1>4. \A n \in 0 .. (next_seq - 1) : HistoryAt(n)' = HistoryAt(n)
    BY <1>2, <1>3 DEF HistoryAt
  <1>5. ClientHistoryInv'
    <2>1. c_history \in Seq(Event) /\ Committed(pending_new, next_seq) \in Seq(Event)
      BY CommittedType DEF TypeOK, ClientTypeOK
    <2>2. h \in Seq(Event)
      BY <2>1
    <2>3. \A n \in 1 .. (next_seq - 1) : IsPrefixOf(c_req_hash[n], h)
      BY <1>2, <2>1, PrefixExtends
      DEF HistoryInv, ClientHistoryInv, TypeOK, ClientTypeOK, Hash
    <2>4. IsPrefixOf(h, h)
      BY <2>2, PrefixReflexive
    <2>5. c_history' = HistoryAt(next_seq - 1)'
      BY <1>1, <1>2, <1>3 DEF HistoryAt
    <2> HIDE DEF h
    <2>6. \A n \in DOMAIN c_req_hash' : IsPrefixOf(c_req_hash'[n], c_history')
      BY <1>1, <1>2, <1>3, <2>3, <2>4
    <2> QED BY <1>3, <2>5, <2>6 DEF ClientHistoryInv
  <1>6. \A req \in AllRequests' : Frozen(req)'
    <2>1. AllRequests' \subseteq AllRequests \cup {NextRequest}
      BY <1>1 DEF AllRequests, Put, serverVars
    <2>2. \A req \in AllRequests : Frozen(req)'
      <3> SUFFICES ASSUME NEW req \in AllRequests
                   PROVE  Frozen(req)'
        OBVIOUS
      <3>1. req.seq \in Nat \ {0} /\ Frozen(req)
        BY AllMessagesType DEF HistoryInv, SeqNo
      <3>2. req.seq \in 1 .. (next_seq - 1) /\ req.seq - 1 \in 0 .. (next_seq - 1)
        BY <1>2, <3>1 DEF Frozen
      <3>3. HistoryAt(req.seq - 1)' = HistoryAt(req.seq - 1)
        BY <1>4, <3>2
      <3>4. EventsOf(req)' = EventsOf(req)
        BY DEF EventsOf, Committed, RspEvents, RspEvent, ReqEvent
      <3>5. req.seq < next_seq'
        BY <1>1, <1>2, <3>2
      <3>6. req.hash = c_req_hash'[req.seq]
        BY <1>3, <3>1, <3>2 DEF Frozen
      <3>7. req.hash = HistoryAt(req.seq - 1)' \o EventsOf(req)
        BY <3>1, <3>3 DEF Frozen
      <3> QED BY <3>4, <3>5, <3>6, <3>7 DEF Frozen
    <2>3. ASSUME NEW req, req = NextRequest
          PROVE  Frozen(req)'
      <3>1. req.seq = next_seq /\ req.seq - 1 \in 0 .. (next_seq - 1)
        BY <1>1, <1>2, <2>3
      <3>2. HistoryAt(req.seq - 1)' = c_history
        BY <1>4, <3>1 DEF HistoryInv, ClientHistoryInv
      <3>3. req.hash = c_history \o EventsOf(req)
        BY <1>1, <2>3 DEF EventsOf
      <3>4. EventsOf(req)' = EventsOf(req)
        BY DEF EventsOf, Committed, RspEvents, RspEvent, ReqEvent
      <3>5. req.seq < next_seq'
        BY <1>1, <1>2, <3>1
      <3>6. req.hash = c_req_hash'[req.seq]
        BY <1>1, <1>3, <2>3, <3>1
      <3>7. req.hash = HistoryAt(req.seq - 1)' \o EventsOf(req)
        BY <3>2, <3>3
      <3> QED BY <3>4, <3>5, <3>6, <3>7 DEF Frozen
    <2> QED BY <2>1, <2>2, <2>3
  <1>7. committed_upto' < next_seq' /\ (s_history = HistoryAt(committed_upto))'
    <2>1. committed_upto \in 0 .. (next_seq - 1)
      BY <1>2 DEF HistoryInv, TypeOK, ServerTypeOK
    <2>2. committed_upto' = committed_upto /\ s_history' = s_history
      BY <1>1 DEF serverVars
    <2>3. HistoryAt(committed_upto)' = HistoryAt(committed_upto)
      BY <1>4, <2>1, <2>2 DEF HistoryAt
    <2> QED BY <1>1, <1>2, <2>1, <2>2, <2>3 DEF HistoryInv
  <1>8. ServerHashInv'
    <2>1. /\ UNCHANGED << s_req_hash, committed_upto >>
          /\ AllResponses' = AllResponses
      BY <1>1 DEF AllResponses, serverVars
    <2>2. \A n \in DOMAIN s_req_hash : n \in 1 .. (next_seq - 1)
      BY <1>2 DEF HistoryInv, ServerHashInv, TypeOK, ServerTypeOK, SeqNo
    <2>3. \A resp \in AllResponses :
              resp.seq < next_seq => resp.seq \in 1 .. (next_seq - 1)
      BY <1>2, AllMessagesType DEF Response, SeqNo
    <2> QED BY <1>1, <1>2, <1>3, <2>1, <2>2, <2>3, AllMessagesType
            DEF HistoryInv, ServerHashInv, Response, SeqNo
  <1>9. NoMismatch'
    BY <1>1 DEF HistoryInv, NoMismatch, serverVars
  <1> QED BY <1>5, <1>6, <1>7, <1>8, <1>9 DEF HistoryInv

\* A hash on its way back is the one the client recorded for that request.
HashKnown(resp) ==
    resp.hash # NoHash => resp.seq < next_seq /\ resp.hash = c_req_hash[resp.seq]

\* While the client generates nothing, its table of hashes stands and so does
\* everything said in terms of it.
LEMMA ClientHistoryKept ==
    ASSUME HistoryInv, UNCHANGED << next_seq, c_req_hash, c_history >>
    PROVE  /\ ClientHistoryInv'
           /\ \A n : HistoryAt(n)' = HistoryAt(n)
           /\ \A req : Frozen(req) => Frozen(req)'
  <1>1. ClientHistoryInv'
    BY DEF HistoryInv, ClientHistoryInv, HistoryAt, IsPrefixOf
  <1>2. \A n : HistoryAt(n)' = HistoryAt(n)
    BY DEF HistoryAt
  <1>3. ASSUME NEW req, Frozen(req)
        PROVE  Frozen(req)'
    <2>1. EventsOf(req)' = EventsOf(req)
      BY DEF EventsOf, Committed, RspEvents, RspEvent, ReqEvent
    <2> QED BY <1>2, <1>3, <2>1 DEF Frozen
  <1> QED BY <1>1, <1>2, <1>3

\* A step that neither generates nor commits keeps the histories in agreement,
\* if every request it adds is frozen and every hash it sends back is one it recorded.
LEMMA QuietHistory ==
    ASSUME HistoryInv,
           UNCHANGED << next_seq, c_req_hash, c_history, c_mismatch, committed_upto,
                        s_history, s_req_hash, s_mismatch >>,
           \A req \in AllRequests' : req \in AllRequests \/ Frozen(req),
           \A resp \in AllResponses' : resp \in AllResponses \/ HashKnown(resp)
    PROVE  HistoryInv'
  <1>1. ClientHistoryInv' /\ \A req \in AllRequests' : Frozen(req)'
    BY ClientHistoryKept DEF HistoryInv
  <1>2. (committed_upto < next_seq)' /\ (s_history = HistoryAt(committed_upto))'
    BY DEF HistoryInv, HistoryAt
  <1>3. ServerHashInv'
    BY DEF HistoryInv, ServerHashInv, HashKnown
  <1>4. NoMismatch'
    BY DEF HistoryInv, NoMismatch
  <1> QED BY <1>1, <1>2, <1>3, <1>4 DEF HistoryInv

\* Every response on_request builds from its table carries a hash it recorded.
LEMMA ResponseHashKnown ==
    ASSUME TypeOK, HistoryInv, NEW n \in SeqNo, NEW payload, NEW no_op
    PROVE  HashKnown(make_response(n, payload, no_op, s_req_hash))
  <1>1. committed_upto \in Nat /\ next_seq \in Nat /\ n \in Nat
    BY DEF TypeOK, ServerTypeOK, ClientTypeOK, SeqNo
  <1>2. n \in DOMAIN s_req_hash => n < next_seq /\ s_req_hash[n] = c_req_hash[n]
    BY <1>1 DEF HistoryInv, ServerHashInv
  <1> QED BY <1>2 DEF HashKnown, make_response

\* Retransmitting sends a request that is frozen already.
LEMMA ResendHistory ==
    ASSUME HistoryInv, NEW n \in outstanding, Resend(n)
    PROVE  HistoryInv'
  <1>1. AllRequests' \subseteq AllRequests
    BY DEF Resend, Retransmit, SendRequest, AllRequests, clientVars, serverVars,
           outstanding
  <1> QED BY <1>1, QuietHistory
          DEF Resend, Retransmit, AllResponses, clientVars, serverVars

\* No branch of on_request before the commit loop touches a history.
LEMMA OnRequestHistory ==
    ASSUME TypeOK, HistoryInv, NEW req \in Request, Frozen(req), on_request(req),
           c2s' \subseteq c2s, UNCHANGED clientVars
    PROVE  HistoryInv'
  <1>1. req.seq \in SeqNo
    BY DEF Request
  <1>2. UNCHANGED << next_seq, c_req_hash, c_history, c_mismatch, inflight >>
    BY DEF clientVars
  <1>3. CASE AskForReplay(req)
    <2>1. HashKnown(RecoverSignal(req.seq))
      BY DEF HashKnown, RecoverSignal
    <2>2. AllRequests' \subseteq AllRequests
      BY <1>1, <1>2, <1>3 DEF AskForReplay, AllRequests, serverVars
    <2>3. AllResponses' \subseteq AllResponses \cup {RecoverSignal(req.seq)}
      BY <1>3 DEF AskForReplay, AllResponses, SendResponses, serverVars
    <2> QED BY <1>2, <1>3, <2>1, <2>2, <2>3, QuietHistory
            DEF AskForReplay, serverVars
  <1>4. CASE ResendBuffered(req)
    <2> DEFINE resp == make_response(req.seq, resp_buffer[req.seq], FALSE, s_req_hash)
    <2>1. HashKnown(resp)
      BY <1>1, ResponseHashKnown
    <2>2. AllRequests' \subseteq AllRequests
      BY <1>1, <1>2, <1>4 DEF ResendBuffered, AllRequests
    <2>3. AllResponses' \subseteq AllResponses \cup {resp}
      BY <1>4 DEF ResendBuffered, AllResponses, SendResponses
    <2>4. UNCHANGED << committed_upto, s_history, s_req_hash, s_mismatch >>
      BY <1>4 DEF ResendBuffered
    <2> QED BY <1>2, <2>1, <2>2, <2>3, <2>4, QuietHistory
  <1>5. CASE ReprocessAwaiting(req)
    <2> DEFINE resp == make_response(req.seq, AppResult(req.seq), FALSE, s_req_hash)
    <2>1. HashKnown(resp)
      BY <1>1, ResponseHashKnown
    <2>2. AllRequests' \subseteq AllRequests
      BY <1>1, <1>2, <1>5 DEF ReprocessAwaiting, AllRequests
    <2>3. AllResponses' \subseteq AllResponses \cup {resp}
      BY <1>5 DEF ReprocessAwaiting, AllResponses, SendResponses
    <2>4. UNCHANGED << committed_upto, s_history, s_req_hash, s_mismatch >>
      BY <1>5 DEF ReprocessAwaiting
    <2> QED BY <1>2, <2>1, <2>2, <2>3, <2>4, QuietHistory
  <1>6. CASE AcknowledgeOnly(req)
    <2> DEFINE resp == make_response(req.seq, NoPayload, TRUE, s_req_hash)
    <2>1. HashKnown(resp)
      BY <1>1, ResponseHashKnown
    <2>2. AllRequests' \subseteq AllRequests
      BY <1>1, <1>2, <1>6 DEF AcknowledgeOnly, AllRequests
    <2>3. AllResponses' \subseteq AllResponses \cup {resp}
      BY <1>6 DEF AcknowledgeOnly, AllResponses, SendResponses
    <2>4. UNCHANGED << committed_upto, s_history, s_req_hash, s_mismatch >>
      BY <1>6 DEF AcknowledgeOnly
    <2> QED BY <1>2, <2>1, <2>2, <2>3, <2>4, QuietHistory
  <1>7. CASE Stage(req)
    <2>1. AllRequests' \subseteq AllRequests \cup {req}
      BY <1>1, <1>2, <1>7 DEF Stage, AllRequests, Put
    <2>2. AllResponses' \subseteq AllResponses
      BY <1>7 DEF Stage, AllResponses
    <2> QED BY <1>2, <1>7, <2>1, <2>2, QuietHistory DEF Stage
  <1> QED BY <1>3, <1>4, <1>5, <1>6, <1>7 DEF on_request

\* A request reaches the server: no history changes before the commit loop.
LEMMA DeliverRequestHistory ==
    ASSUME TypeOK, HistoryInv, NEW req \in c2s, DeliverRequest(req)
    PROVE  HistoryInv'
  <1>1. req \in Request /\ Frozen(req)
    BY DEF TypeOK, NetTypeOK, HistoryInv, AllRequests
  <1>2. on_request(req) /\ c2s' \subseteq c2s /\ UNCHANGED clientVars
    BY DEF DeliverRequest, DueRequest
  <1> QED BY <1>1, <1>2, OnRequestHistory

\* The commit loop appends to the server's history what the client appended to
\* its own when it froze the request, so the hashes compared are equal.
LEMMA CommitNextHistory ==
    ASSUME TypeOK, HistoryInv, CommitNext, UNCHANGED << c2s, clientVars >>
    PROVE  HistoryInv'
  <1> DEFINE n == NextInOrder
             r == pending_reqs[n]
             h == s_history \o EventsOf(r)
  <1>1. /\ committed_upto \in Nat /\ next_seq \in Nat
        /\ n = committed_upto + 1 /\ n \in SeqNo
        /\ n \in DOMAIN pending_reqs
    BY DEF CommitNext, NextInOrder, TypeOK, ServerTypeOK, ClientTypeOK, SeqNo
  <1>2. r \in AllRequests /\ r.seq = n
    BY <1>1 DEF AllRequests, TypeOK, ServerTypeOK
  <1>3. n < next_seq /\ h = r.hash /\ h = c_req_hash[n]
    <2>1. Frozen(r)
      BY <1>2 DEF HistoryInv
    <2>2. HistoryAt(r.seq - 1) = s_history
      BY <1>1, <1>2 DEF HistoryInv
    <2> QED BY <1>2, <2>1, <2>2 DEF Frozen
  <1>4. /\ s_history' = h
        /\ s_req_hash' = Put(s_req_hash, n, h)
        /\ pending_reqs' = Erase(pending_reqs, {n})
        /\ committed_upto' = n
        /\ out' = out \cup {make_response(n, AppResult(n), FALSE, s_req_hash')}
        /\ s_mismatch' = s_mismatch
        /\ s2c' = s2c
    BY <1>3 DEF CommitNext
  <1>5. UNCHANGED << next_seq, c_req_hash, c_history, c_mismatch, inflight >>
    BY DEF clientVars
  <1> HIDE DEF n, r, h
  <1>6. ClientHistoryInv' /\ \A req \in AllRequests' : Frozen(req)'
    <2>1. AllRequests' \subseteq AllRequests
      BY <1>4, <1>5 DEF AllRequests, Erase
    <2> QED BY <1>5, <2>1, ClientHistoryKept DEF HistoryInv
  <1>7. (committed_upto < next_seq)' /\ (s_history = HistoryAt(committed_upto))'
    BY <1>1, <1>3, <1>4, <1>5 DEF HistoryAt
  <1>8. ServerHashInv'
    <2>1. \A k \in DOMAIN s_req_hash' :
              k \in 1 .. committed_upto' /\ s_req_hash'[k] = c_req_hash'[k]
      BY <1>1, <1>3, <1>4, <1>5 DEF HistoryInv, ServerHashInv, Put
    <2>2. ASSUME NEW resp, resp = make_response(n, AppResult(n), FALSE, s_req_hash')
          PROVE  resp.seq < next_seq' /\ resp.hash = c_req_hash'[resp.seq]
      BY <1>3, <1>4, <1>5, <2>2 DEF make_response, Put
    <2>3. \A resp \in AllResponses :
              resp.hash # NoHash => /\ resp.seq < next_seq'
                                    /\ resp.hash = c_req_hash'[resp.seq]
      BY <1>5 DEF HistoryInv, ServerHashInv
    <2>4. AllResponses' = AllResponses
                         \cup {make_response(n, AppResult(n), FALSE, s_req_hash')}
      BY <1>4 DEF AllResponses
    <2> QED BY <2>1, <2>2, <2>3, <2>4 DEF ServerHashInv
  <1>9. NoMismatch'
    BY <1>4, <1>5 DEF HistoryInv, NoMismatch
  <1> QED BY <1>6, <1>7, <1>8, <1>9 DEF HistoryInv

\* The commit loop and the return of on_request keep the histories in agreement.
LEMMA CommitHistory ==
    ASSUME TypeOK, HistoryInv, Commit
    PROVE  HistoryInv'
  <1>1. CASE CommitNext
    BY <1>1, CommitNextHistory DEF Commit
  <1>2. CASE CommitDone
    <2>1. AllRequests' \subseteq AllRequests
      BY <1>2 DEF Commit, CommitDone, AllRequests, clientVars
    <2>2. AllResponses' \subseteq AllResponses
      BY <1>2 DEF CommitDone, SendResponses, AllResponses
    <2>3. UNCHANGED << next_seq, c_req_hash, c_history, c_mismatch >>
      BY DEF Commit, clientVars
    <2> QED BY <1>2, <2>1, <2>2, <2>3, QuietHistory DEF CommitDone
  <1> QED BY <1>1, <1>2 DEF Commit

\* on_response finds no hash that disagrees with its own.
LEMMA DeliverResponseHistory ==
    ASSUME HistoryInv, NEW resp \in s2c, DeliverResponse(resp)
    PROVE  HistoryInv'
  <1>1. /\ UNCHANGED << c2s, serverVars >>
        /\ s2c' \subseteq s2c
    BY DEF DeliverResponse, DueResponse
  <1>2. /\ UNCHANGED << next_seq, c_req_hash, c_history, c_mismatch >>
        /\ AllRequests' \subseteq AllRequests
    <2>1. CASE on_duplicate_response(resp)
      BY <1>1, <2>1 DEF on_duplicate_response, clientVars, serverVars, AllRequests
    <2>2. CASE on_response(resp)
      <3>1. ~HashDisagrees(resp)
        BY DEF HashDisagrees, HistoryInv, ServerHashInv, AllResponses
      <3>2. AllRequests' \subseteq AllRequests
        BY <1>1, <2>2 DEF on_response, serverVars, AllRequests, Erase
      <3> QED BY <2>2, <3>1, <3>2 DEF on_response
    <2> QED BY <2>1, <2>2 DEF DeliverResponse
  <1>3. AllResponses' \subseteq AllResponses
    BY <1>1 DEF AllResponses, serverVars
  <1> QED BY <1>1, <1>2, <1>3, QuietHistory DEF serverVars

\* Losing a message changes no history, and neither does stuttering.
LEMMA LoseHistory ==
    ASSUME HistoryInv, Lose \/ UNCHANGED vars
    PROVE  HistoryInv'
  <1>1. /\ UNCHANGED << clientVars, serverVars >>
        /\ c2s' \subseteq c2s /\ s2c' \subseteq s2c
    BY DEF Lose, LoseRequest, LoseResponse, vars, netVars
  <1>2. AllRequests' \subseteq AllRequests /\ AllResponses' \subseteq AllResponses
    BY <1>1 DEF AllRequests, AllResponses, clientVars, serverVars
  <1> QED BY <1>1, <1>2, QuietHistory DEF clientVars, serverVars

\* It starts with empty histories, which agree.
LEMMA InitHistory ==
    ASSUME Init
    PROVE  HistoryInv
  <1>1. DOMAIN EmptyMap = {}
    BY DEF EmptyMap
  <1>2. ClientHistoryInv
    BY <1>1 DEF Init, ClientInit, ClientHistoryInv, HistoryAt
  <1>3. AllRequests = {} /\ AllResponses = {}
    BY <1>1 DEF Init, NetInit, ClientInit, ServerInit, AllRequests, AllResponses
  <1>4. committed_upto < next_seq /\ s_history = HistoryAt(committed_upto)
    BY DEF Init, ClientInit, ServerInit, HistoryAt
  <1>5. ServerHashInv
    BY <1>1, <1>3 DEF Init, ServerInit, ServerHashInv
  <1>6. NoMismatch
    BY DEF Init, ClientInit, ServerInit, NoMismatch
  <1> QED BY <1>2, <1>3, <1>4, <1>5, <1>6 DEF HistoryInv

\* The histories of both sides agree at every point of every conversation.
LEMMA HistoryInvariant == Spec => []HistoryInv
  <1>1. Init => HistoryInv
    BY InitHistory
  <1>2. TypeOK /\ HistoryInv /\ [Next]_vars => HistoryInv'
    BY GenerateHistory, ResendHistory, DeliverRequestHistory, CommitHistory,
       DeliverResponseHistory, LoseHistory DEF Next
  <1> QED BY <1>1, <1>2, TypeCorrect, PTL DEF Spec

\* What the invariant says about the histories is agreement.
LEMMA HistoryAgrees ==
    ASSUME TypeOK, HistoryInv
    PROVE  HistoryAgreement
  <1>1. committed_upto \in Nat /\ next_seq \in Nat /\ c_history \in Seq(Event)
    BY DEF TypeOK, ServerTypeOK, ClientTypeOK, SeqNo
  <1>2. IsPrefixOf(s_history, c_history)
    <2>1. CASE committed_upto = 0
      BY <1>1, <2>1, EmptyPrefix DEF HistoryInv, HistoryAt
    <2>2. CASE committed_upto # 0
      <3>1. committed_upto \in DOMAIN c_req_hash
        BY <1>1, <2>2 DEF HistoryInv, ClientHistoryInv
      <3> QED BY <2>2, <3>1 DEF HistoryInv, ClientHistoryInv, HistoryAt
    <2> QED BY <2>1, <2>2
  <1> QED BY <1>2 DEF HistoryInv, HistoryAgreement

\* SAFETY of checker.h for every window and any number of requests: what the
\* server has committed is the client's history up to the last request
\* committed, a prefix of the client's history, whatever the links lose,
\* duplicate or reorder.
THEOREM AgreementCorrect == Spec => []HistoryAgreement
  <1>1. TypeOK /\ HistoryInv => HistoryAgreement
    BY HistoryAgrees
  <1> QED BY <1>1, TypeCorrect, HistoryInvariant, PTL

\* HASH of checker.h for every window and any number of requests: neither the
\* commit loop of the server nor on_response of the client ever reports a
\* mismatch while the server stays up.
THEOREM NoMismatchCorrect == Spec => []NoMismatch
  <1>1. HistoryInv => NoMismatch
    BY DEF HistoryInv
  <1> QED BY <1>1, HistoryInvariant, PTL

=============================================================================
