----------------------- MODULE ConversationInvariants -----------------------
(***************************************************************************)
(* The inductive invariants behind the safety properties of Conversation,  *)
(* in four layers: the histories, the acknowledgements, the replies, and   *)
(* what the window bounds.  Each layer needs the ones before it.           *)
(***************************************************************************)
EXTENDS Conversation

\* Every copy of a request anywhere: in flight, to be sent again, staged.
AllRequests ==
    c2s \cup {inflight[n] : n \in DOMAIN inflight}
        \cup {pending_reqs[n] : n \in DOMAIN pending_reqs}

\* Every response produced and not yet lost or discarded.
AllResponses == s2c \cup out

-----------------------------------------------------------------------------
(* Histories.                                                              *)

\* A request is as it was frozen: its hash is the client's history up to it, and
\* that history extends the one up to the request before by what it carries.
Frozen(req) ==
    /\ req.seq < next_seq
    /\ req.hash = c_req_hash[req.seq]
    /\ req.hash = HistoryAt(req.seq - 1) \o EventsOf(req)

\* The client's table of hashes is complete and records prefixes of its history.
ClientHistoryInv ==
    /\ DOMAIN c_req_hash = 1 .. (next_seq - 1)
    /\ c_history = HistoryAt(next_seq - 1)
    /\ \A n \in DOMAIN c_req_hash : IsPrefixOf(c_req_hash[n], c_history)

\* The server's table of hashes agrees with the client's, and so does every hash
\* on its way back.
ServerHashInv ==
    /\ \A n \in DOMAIN s_req_hash :
           n \in 1 .. committed_upto /\ s_req_hash[n] = c_req_hash[n]
    /\ \A resp \in AllResponses :
           resp.hash # NoHash => /\ resp.seq < next_seq
                                 /\ resp.hash = c_req_hash[resp.seq]

HistoryInv ==
    /\ ClientHistoryInv
    /\ \A req \in AllRequests : Frozen(req)
    /\ committed_upto < next_seq
    /\ s_history = HistoryAt(committed_upto)
    /\ ServerHashInv
    /\ NoMismatch

-----------------------------------------------------------------------------
(* Acknowledgements.                                                       *)

\* What a request acknowledges, the client has received.
AcksReceived(req) ==
    /\ 1 .. (req.ack_base - 1) \subseteq received
    /\ Ids(req.ack_new) \subseteq received

\* Only committed requests are answered, so only committed ids are received and
\* acknowledged.
AckInv ==
    /\ received \subseteq 1 .. committed_upto
    /\ 1 .. (base - 1) \subseteq received
    /\ Ids(pending_new) \subseteq received
    /\ \A req \in AllRequests : AcksReceived(req)
    /\ \A resp \in AllResponses : resp.seq \in 1 .. committed_upto /\ ~resp.recover

-----------------------------------------------------------------------------
(* Replies.                                                                *)

\* The application ran once for each committed request, and its one answer is
\* what is buffered, in flight and delivered; a no_op reply only goes to a client
\* that has the answer.
ReplyInv ==
    /\ NoLostReply
    /\ awaiting = {}
    /\ DOMAIN app_calls = 1 .. committed_upto
    /\ DOMAIN app_runs = 1 .. committed_upto
    /\ \A n \in 1 .. committed_upto : app_calls[n] = 1 /\ app_runs[n] = 1
    /\ \A n \in DOMAIN resp_buffer : n <= committed_upto /\ resp_buffer[n] = 1
    /\ \A n \in DOMAIN received_payload : received_payload[n] = 1
    /\ \A resp \in AllResponses :
           IF resp.no_op THEN resp.seq \in received ELSE resp.payload = 1

-----------------------------------------------------------------------------
(* The window.                                                             *)

\* What was unanswered when request n was generated, n itself included, fits into
\* the window; and the history says what had been answered.
FitsWindow(n) ==
    /\ IsFiniteSet((1 .. n) \ ResponsesIn(HistoryAt(n)))
    /\ Cardinality((1 .. n) \ ResponsesIn(HistoryAt(n))) <= Window

\* The client has received what its history records and what the next request will
\* add to it, once each; the rest is outstanding.
ReceiptInv ==
    /\ outstanding = (1 .. (next_seq - 1)) \ received
    /\ received = ResponsesIn(c_history) \cup Ids(pending_new)
    /\ ResponsesIn(c_history) \cap Ids(pending_new) = {}
    /\ \A i, j \in DOMAIN pending_new : pending_new[i] = pending_new[j] => i = j

\* A response leaves the buffer before the history records it: it is released when
\* the request that acknowledges it is staged, at the latest.
ReleasedInv ==
    /\ DOMAIN resp_buffer \cap ResponsesIn(s_history) = {}
    /\ \A n \in DOMAIN pending_reqs :
           /\ n > committed_upto
           /\ DOMAIN resp_buffer \cap Ids(pending_reqs[n].ack_new) = {}

WindowInv ==
    /\ ReceiptInv
    /\ IsFiniteSet(outstanding) /\ Cardinality(outstanding) <= Window
    /\ \A n \in 0 .. (next_seq - 1) : FitsWindow(n)
    /\ ReleasedInv
    /\ ~draining => NextInOrder \notin DOMAIN pending_reqs
=============================================================================
