---------------------------- MODULE Conversation ----------------------------
(***************************************************************************)
(* One client and one server that stays up, over the lossy links: the      *)
(* conversation the harness drives (verification/src/fuzz_main.cpp,        *)
(* run_one with no failovers) and checks (checker.h).                      *)
(*                                                                         *)
(* The harness's clock and retransmission timeout are left out: a request  *)
(* may be sent again at any moment while it is unanswered.                 *)
(***************************************************************************)
EXTENDS ColorClient, ColorServer, FiniteSets

CONSTANTS
    MaxSeq,     \* bound: how many requests the client issues
    Window      \* flow-control window: requests outstanding at once

ASSUME BoundsAssumption ==
    /\ MaxSeq \in Nat \ {0}
    /\ Window \in Nat \ {0}

vars == << netVars, clientVars, serverVars >>

Init ==
    /\ NetInit
    /\ ClientInit
    /\ ServerInit

-----------------------------------------------------------------------------
\* outstanding() of the client.
outstanding == DOMAIN inflight

\* Step 1 of the harness: a new request, if the window has room.
Generate ==
    /\ next_seq <= MaxSeq
    /\ Cardinality(outstanding) < Window
    /\ generate_request
    /\ UNCHANGED << s2c, serverVars >>

\* Step 2: an unanswered request is sent again.
Resend(n) ==
    /\ Retransmit(n)
    /\ UNCHANGED << s2c, serverVars >>

\* Step 3: a request reaches the server.
DeliverRequest(req) ==
    /\ DueRequest(req)
    /\ on_request(req)
    /\ UNCHANGED clientVars

\* The rest of on_request: its commit loop and its return.
Commit ==
    /\ CommitNext \/ CommitDone
    /\ UNCHANGED << c2s, clientVars >>

\* Step 4: a response reaches the client.  The recovery signal never gets to
\* on_response; the transport handles it (module Failover).
DeliverResponse(resp) ==
    /\ DueResponse(resp)
    /\ ~resp.recover
    /\ on_response(resp) \/ on_duplicate_response(resp)
    /\ UNCHANGED << c2s, serverVars >>

\* A copy is lost.  A request that arrives while on_request runs waits for it
\* (one thread in the harness, mu_ in the interceptor) and is lost before or after.
Lose ==
    /\ \/ ~draining /\ \E req \in c2s : LoseRequest(req)
       \/ \E resp \in s2c : LoseResponse(resp)
    /\ UNCHANGED << clientVars, serverVars >>

Next ==
    \/ Generate
    \/ \E n \in outstanding : Resend(n)
    \/ \E req \in c2s : DeliverRequest(req)
    \/ Commit
    \/ \E resp \in s2c : DeliverResponse(resp)
    \/ Lose

Spec == Init /\ [][Next]_vars

\* An unanswered request is sent again and again; a request or a response that
\* is sent again and again gets through in the end; on_request returns.
Fairness ==
    /\ WF_vars(Commit)
    /\ \A n \in 1 .. MaxSeq :
        /\ WF_vars(Resend(n))
        /\ SF_vars(\E req \in c2s : req.seq = n /\ DeliverRequest(req))
        /\ SF_vars(\E resp \in s2c : resp.seq = n /\ DeliverResponse(resp))

FairSpec == Spec /\ Fairness

-----------------------------------------------------------------------------
TypeOK ==
    /\ NetTypeOK
    /\ ClientTypeOK
    /\ ServerTypeOK

\* Hash of the client history up to and including request n.
HistoryAt(n) == IF n = 0 THEN << >> ELSE c_req_hash[n]

IsPrefixOf(s, t) == Len(s) <= Len(t) /\ s = SubSeq(t, 1, Len(s))

\* SAFETY of checker.h: the server's history is a prefix of the client's; it is
\* exactly the client's history up to the last request committed.
HistoryAgreement ==
    /\ committed_upto < next_seq
    /\ s_history = HistoryAt(committed_upto)
    /\ IsPrefixOf(s_history, c_history)

\* HASH of checker.h: no piggybacked hash is ever found to disagree, by the
\* server in the commit loop or by the client in on_response.
NoMismatch == c_mismatch = {} /\ s_mismatch = {}

\* Without a failover on_request never answers 503: what a request acknowledges
\* is always committed, however late or often the request arrives.
NeverAsksForReplay ==
    /\ \A req \in c2s : ~needs_recover(req)
    /\ \A resp \in s2c : ~resp.recover

\* release_acked never drops a response the client does not have, so a no_op
\* reply never completes a request whose response was not delivered.
NoLostReply ==
    /\ \A n \in 1 .. committed_upto : n \notin received => n \in DOMAIN resp_buffer
    /\ received = DOMAIN received_payload

\* EXACTLY-ONCE of checker.h: the application ran once for each committed
\* request and for no other, and what it answered is what the client delivered.
ExactlyOnce ==
    /\ DOMAIN app_calls = 1 .. committed_upto
    /\ \A n \in DOMAIN app_calls : app_calls[n] = 1
    /\ \A n \in DOMAIN received_payload :
           n \in DOMAIN app_runs /\ received_payload[n] = app_runs[n]

\* BOUNDED of checker.h, with the tight bound: buffered responses, staged
\* requests and the acknowledgements of one request never exceed the window.
Bounded ==
    /\ Cardinality(DOMAIN resp_buffer) <= Window
    /\ ~draining => Cardinality(DOMAIN pending_reqs) < Window
    /\ Len(pending_new) <= Window

\* checker.h after the drain: once nothing is outstanding, both histories and
\* hence both hashes are equal.
ConvergedWhenQuiet == outstanding = {} => s_history = c_history

\* LIVENESS of checker.h: every request is answered in the end, with a response
\* and not with an acknowledgement only.
EveryRequestAnswered ==
    \A n \in 1 .. MaxSeq : n < next_seq ~> n \in DOMAIN received_payload

\* The conversation implements the shared history.
Shared == INSTANCE SharedHistory WITH
    order     <- c_history,
    issued    <- next_seq - 1,
    arrivals  <- pending_new,
    agreed    <- s_history,
    answers   <- app_runs,
    delivered <- received_payload

ImplementsSharedHistory == Shared!Spec
=============================================================================
