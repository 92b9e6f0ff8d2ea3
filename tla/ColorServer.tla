---------------------------- MODULE ColorServer ----------------------------
(***************************************************************************)
(* The server state machine (src/core/color_server.h, color_server.cc).    *)
(*                                                                         *)
(* on_request is one action per branch of the code.  The branch that       *)
(* stages a request enters the commit loop; one iteration of the loop is   *)
(* one step, and `draining` keeps every other handler out until the loop   *)
(* has ended, as the interceptor's mutex does.  The responses of the call  *)
(* collect in `out` and leave only when on_request returns.                *)
(***************************************************************************)
EXTENDS SimNetwork

VARIABLES
    committed_upto,     \* highest id committed, in strict id order
    pending_reqs,       \* id -> request staged ahead of a gap
    s_req_hash,         \* id -> server history hash when it was committed
    resp_buffer,        \* id -> response payload not yet acknowledged
    awaiting,           \* replayed ids whose response the client is missing
    app_calls,          \* id -> times app_ was called by this server object
    s_history,          \* the server's committed event history
    s_mismatch,         \* ids for which on_mismatch_ was called
    draining,           \* inside the commit loop of on_request
    out,                \* responses on_request will return
    app_runs            \* the application: id -> times it ran, over all servers

serverVars == << committed_upto, pending_reqs, s_req_hash, resp_buffer,
                 awaiting, app_calls, s_history, s_mismatch, draining, out,
                 app_runs >>

ServerTypeOK ==
    /\ committed_upto \in Nat
    /\ DOMAIN pending_reqs \subseteq SeqNo
    /\ \A n \in DOMAIN pending_reqs :
           pending_reqs[n] \in Request /\ pending_reqs[n].seq = n
    /\ DOMAIN s_req_hash \subseteq Nat
    /\ \A n \in DOMAIN s_req_hash : s_req_hash[n] \in Hash
    /\ DOMAIN resp_buffer \subseteq SeqNo
    /\ \A n \in DOMAIN resp_buffer : resp_buffer[n] \in Nat
    /\ awaiting \subseteq Nat
    /\ DOMAIN app_calls \subseteq SeqNo
    /\ \A n \in DOMAIN app_calls : app_calls[n] \in Nat
    /\ s_history \in Seq(Event)
    /\ s_mismatch \subseteq SeqNo
    /\ draining \in BOOLEAN
    /\ out \subseteq Response
    /\ DOMAIN app_runs \subseteq SeqNo
    /\ \A n \in DOMAIN app_runs : app_runs[n] \in Nat

ServerInit ==
    /\ committed_upto = 0
    /\ pending_reqs = EmptyMap
    /\ s_req_hash = EmptyMap
    /\ resp_buffer = EmptyMap
    /\ awaiting = {}
    /\ app_calls = EmptyMap
    /\ s_history = << >>
    /\ s_mismatch = {}
    /\ draining = FALSE
    /\ out = {}
    /\ app_runs = EmptyMap

-----------------------------------------------------------------------------
\* ++m[n] on a map of counters.
CountOf(m, n) == IF n \in DOMAIN m THEN m[n] ELSE 0
Bump(m, n) == Put(m, n, CountOf(m, n) + 1)

\* The result of the run of the application for n that happens now.
AppResult(n) == CountOf(app_runs, n) + 1

\* Mutant: missing history is not noticed.
NeverMissing(req) == FALSE

\* Mutant: the frontier itself counts as missing.
RecoverAtFrontier(req) ==
    \/ req.ack_base > committed_upto
    \/ \E i \in Ids(req.ack_new) : i > committed_upto

\* The client acknowledges responses this server has not committed.
needs_recover(req) ==
    \/ req.ack_base > committed_upto + 1
    \/ \E i \in Ids(req.ack_new) : i > committed_upto

\* Mutant: the base itself counts as acknowledged.
ReleaseThroughBase(req) ==
    Erase(resp_buffer,
          {n \in DOMAIN resp_buffer : n <= req.ack_base \/ n \in Ids(req.ack_new)})

\* Mutant: only the cumulative part of the acknowledgement releases responses.
ReleaseBelowBase(req) ==
    Erase(resp_buffer, {n \in DOMAIN resp_buffer : n < req.ack_base})

\* The responses still to be kept once the request's acknowledgement is applied.
release_acked(req) ==
    Erase(resp_buffer,
          {n \in DOMAIN resp_buffer : n < req.ack_base \/ n \in Ids(req.ack_new)})

\* Mutant: every released request looks unanswered.
ReprocessReleased(req) == TRUE

\* A committed request without a buffered response is processed again, rather
\* than only acknowledged, when a replay left it unanswered.
LeftAwaiting(req) == req.seq \in awaiting

\* Mutant: the commit loop jumps over a gap.
LowestStaged ==
    IF DOMAIN pending_reqs = {} THEN committed_upto + 1
    ELSE CHOOSE n \in DOMAIN pending_reqs : \A m \in DOMAIN pending_reqs : n <= m

\* The id the commit loop looks for.
NextInOrder == committed_upto + 1

\* Mutant: the acknowledgements a request carries stay out of the history.
ForgetAcks(req) == << ReqEvent(req.seq) >>

\* What committing a request appends to the server's history.
EventsOf(req) == Committed(req.ack_new, req.seq)

make_response(n, payload, no_op, hashes) ==
    [seq |-> n, payload |-> payload, no_op |-> no_op, recover |-> FALSE,
     recover_from |-> 0,
     hash |-> IF n \in DOMAIN hashes THEN hashes[n] ELSE NoHash]

RecoverSignal(n) ==
    [seq |-> n, payload |-> NoPayload, no_op |-> FALSE, recover |-> TRUE,
     recover_from |-> Len(s_history), hash |-> NoHash]

-----------------------------------------------------------------------------
\* on_request, step 0: ask the client to replay the history missing here.
AskForReplay(req) ==
    /\ ~draining
    /\ needs_recover(req)
    /\ SendResponses({RecoverSignal(req.seq)})
    /\ UNCHANGED serverVars

\* on_request, step 2: committed and still buffered, so sent again.
ResendBuffered(req) ==
    /\ ~draining
    /\ ~needs_recover(req)
    /\ req.seq <= committed_upto
    /\ req.seq \in DOMAIN release_acked(req)
    /\ resp_buffer' = release_acked(req)
    /\ SendResponses({make_response(req.seq, resp_buffer[req.seq], FALSE,
                                    s_req_hash)})
    /\ UNCHANGED << committed_upto, pending_reqs, s_req_hash, awaiting, app_calls,
                    s_history, s_mismatch, draining, out, app_runs >>

\* on_request, step 2: replayed but never answered, so processed now.
ReprocessAwaiting(req) ==
    /\ ~draining
    /\ ~needs_recover(req)
    /\ req.seq <= committed_upto
    /\ req.seq \notin DOMAIN release_acked(req)
    /\ LeftAwaiting(req)
    /\ resp_buffer' = Put(release_acked(req), req.seq, AppResult(req.seq))
    /\ awaiting' = awaiting \ {req.seq}
    /\ app_calls' = Bump(app_calls, req.seq)
    /\ app_runs' = Bump(app_runs, req.seq)
    /\ SendResponses({make_response(req.seq, AppResult(req.seq), FALSE,
                                    s_req_hash)})
    /\ UNCHANGED << committed_upto, pending_reqs, s_req_hash, s_history,
                    s_mismatch, draining, out >>

\* on_request, step 2: acknowledged and released, so only acknowledged back.
AcknowledgeOnly(req) ==
    /\ ~draining
    /\ ~needs_recover(req)
    /\ req.seq <= committed_upto
    /\ req.seq \notin DOMAIN release_acked(req)
    /\ ~LeftAwaiting(req)
    /\ resp_buffer' = release_acked(req)
    /\ SendResponses({make_response(req.seq, NoPayload, TRUE, s_req_hash)})
    /\ UNCHANGED << committed_upto, pending_reqs, s_req_hash, awaiting, app_calls,
                    s_history, s_mismatch, draining, out, app_runs >>

\* on_request, step 3: stage the request and enter the commit loop.
Stage(req) ==
    /\ ~draining
    /\ ~needs_recover(req)
    /\ req.seq > committed_upto
    /\ resp_buffer' = release_acked(req)
    /\ pending_reqs' = Put(pending_reqs, req.seq, req)
    /\ draining' = TRUE
    /\ out' = {}
    /\ UNCHANGED << committed_upto, s_req_hash, awaiting, app_calls, s_history,
                    s_mismatch, app_runs, s2c >>

on_request(req) ==
    \/ AskForReplay(req)
    \/ ResendBuffered(req)
    \/ ReprocessAwaiting(req)
    \/ AcknowledgeOnly(req)
    \/ Stage(req)

\* One iteration of the commit loop, for the next id in order.
CommitNext ==
    LET n == NextInOrder
        r == pending_reqs[n]
        h == s_history \o EventsOf(r)
    IN  /\ draining
        /\ n \in DOMAIN pending_reqs
        /\ pending_reqs' = Erase(pending_reqs, {n})
        /\ s_history' = h
        /\ s_req_hash' = Put(s_req_hash, n, h)
        /\ s_mismatch' = IF r.hash # h THEN s_mismatch \cup {n} ELSE s_mismatch
        /\ committed_upto' = n
        /\ app_calls' = Bump(app_calls, n)
        /\ app_runs' = Bump(app_runs, n)
        /\ resp_buffer' = Put(resp_buffer, n, AppResult(n))
        /\ out' = out \cup {make_response(n, AppResult(n), FALSE, s_req_hash')}
        /\ UNCHANGED << awaiting, draining, s2c >>

\* The next id is not staged: the loop ends and on_request returns.
CommitDone ==
    /\ draining
    /\ NextInOrder \notin DOMAIN pending_reqs
    /\ draining' = FALSE
    /\ out' = {}
    /\ SendResponses(out)
    /\ UNCHANGED << committed_upto, pending_reqs, s_req_hash, resp_buffer,
                    awaiting, app_calls, s_history, s_mismatch, app_runs >>
=============================================================================
