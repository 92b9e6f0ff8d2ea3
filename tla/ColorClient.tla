---------------------------- MODULE ColorClient ----------------------------
(***************************************************************************)
(* The client state machine (src/core/color_client.h, color_client.cc).    *)
(* It numbers requests, freezes each one with the acknowledgements it      *)
(* carries, keeps the history both endpoints must agree on, and remembers  *)
(* which responses it has received.                                        *)
(***************************************************************************)
EXTENDS SimNetwork

VARIABLES
    next_seq,           \* id of the next request
    base,               \* every id below it has been received
    received,           \* ids answered (no_op replies included)
    received_payload,   \* id -> payload handed to the application
    pending_new,        \* ids received since the last request, in receipt order
    c_req_hash,         \* id -> hash of the client history when it was issued
    inflight,           \* id -> frozen request still to be retransmitted
    c_history,          \* the client's event history
    c_mismatch          \* ids for which on_mismatch_ was called

clientVars == << next_seq, base, received, received_payload, pending_new,
                 c_req_hash, inflight, c_history, c_mismatch >>

ClientTypeOK ==
    /\ next_seq \in SeqNo
    /\ base \in SeqNo
    /\ received \subseteq SeqNo
    /\ DOMAIN received_payload \subseteq SeqNo
    /\ \A n \in DOMAIN received_payload : received_payload[n] \in Nat
    /\ pending_new \in Seq(SeqNo)
    /\ DOMAIN c_req_hash \subseteq SeqNo
    /\ \A n \in DOMAIN c_req_hash : c_req_hash[n] \in Hash
    /\ DOMAIN inflight \subseteq SeqNo
    /\ \A n \in DOMAIN inflight : inflight[n] \in Request
    /\ c_history \in Seq(Event)
    /\ c_mismatch \subseteq SeqNo

ClientInit ==
    /\ next_seq = 1
    /\ base = 1
    /\ received = {}
    /\ received_payload = EmptyMap
    /\ pending_new = << >>
    /\ c_req_hash = EmptyMap
    /\ inflight = EmptyMap
    /\ c_history = << >>
    /\ c_mismatch = {}

-----------------------------------------------------------------------------
\* Mutant: the base names the last id received, not the first one missing.
NextRequestLastReceived ==
    [seq      |-> next_seq,
     ack_base |-> base - 1,
     ack_new  |-> pending_new,
     hash     |-> c_history \o Committed(pending_new, next_seq)]

\* The request generate_request freezes.
NextRequest ==
    [seq      |-> next_seq,
     ack_base |-> base,
     ack_new  |-> pending_new,
     hash     |-> c_history \o Committed(pending_new, next_seq)]

generate_request ==
    /\ next_seq' = next_seq + 1
    /\ pending_new' = << >>
    /\ c_history' = NextRequest.hash
    /\ c_req_hash' = Put(c_req_hash, next_seq, NextRequest.hash)
    /\ inflight' = Put(inflight, next_seq, NextRequest)
    /\ SendRequest(NextRequest)
    /\ UNCHANGED << base, received, received_payload, c_mismatch >>

\* The transport sends the frozen copy of an unanswered request again.
Retransmit(n) ==
    /\ n \in DOMAIN inflight
    /\ SendRequest(inflight[n])
    /\ UNCHANGED clientVars

\* The low-water base moves over the contiguous received prefix.
AdvanceBase ==
    \E b \in base .. next_seq :
        /\ b \notin received'
        /\ base .. (b - 1) \subseteq received'
        /\ base' = b

HashDisagrees(resp) ==
    /\ resp.hash # NoHash
    /\ resp.seq \in DOMAIN c_req_hash
    /\ resp.hash # c_req_hash[resp.seq]

\* on_response for a seq received before: ignored.
on_duplicate_response(resp) ==
    /\ resp.seq \in received
    /\ UNCHANGED clientVars

\* on_response, first receipt.  A no_op reply completes the request without
\* being recorded in the receipt order or delivered.
on_response(resp) ==
    /\ resp.seq \notin received
    /\ c_mismatch' = IF HashDisagrees(resp) THEN c_mismatch \cup {resp.seq}
                                            ELSE c_mismatch
    /\ received' = received \cup {resp.seq}
    /\ IF resp.no_op
       THEN UNCHANGED << pending_new, received_payload >>
       ELSE /\ pending_new' = Append(pending_new, resp.seq)
            /\ received_payload' = Put(received_payload, resp.seq, resp.payload)
    /\ AdvanceBase
    /\ inflight' = Erase(inflight, {resp.seq})
    /\ UNCHANGED << next_seq, c_req_hash, c_history >>
=============================================================================
