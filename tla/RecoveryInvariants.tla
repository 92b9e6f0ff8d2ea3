------------------------- MODULE RecoveryInvariants -------------------------
(***************************************************************************)
(* The inductive invariants behind the properties of the modules in which  *)
(* a server is replaced, Failover and Harness: what a checkpoint and a     *)
(* replay record, and what a replacement may find committed, unanswered    *)
(* or run.                                                                 *)
(***************************************************************************)
EXTENDS ConversationInvariants, Recovery

\* Each request stands in the client's history once, at the end of the prefix that
\* its hash records, and later requests stand later.
OrderInv ==
    /\ \A a, b \in 0 .. (next_seq - 1) : a < b => Len(HistoryAt(a)) < Len(HistoryAt(b))
    /\ \A n \in 1 .. (next_seq - 1) : c_history[Len(HistoryAt(n))] = ReqEvent(n)
    /\ \A k \in DOMAIN c_history :
           ~c_history[k].is_response =>
               \E n \in 1 .. (next_seq - 1) :
                   c_history[k] = ReqEvent(n) /\ k = Len(HistoryAt(n))

\* A checkpoint records the client's history up to a request, and the hashes of the
\* responses it keeps.
GoodCheckpoint(cp) ==
    /\ cp.committed_upto < next_seq
    /\ cp.history = HistoryAt(cp.committed_upto)
    /\ \A n \in DOMAIN cp.buffer :
           n \in 1 .. cp.committed_upto /\ cp.buffer[n].hash = c_req_hash[n]

\* A replay is the rest of what was the client's history when it was built.
GoodReplay(rp) ==
    \E m \in 0 .. (next_seq - 1) :
        rp.events = SubSeq(HistoryAt(m), rp.from + 1, Len(HistoryAt(m)))

\* Ingesting the replay now would not append past a gap.
LeavesNoGap(rp) == Unseen(rp) = << >> \/ rp.from <= Len(s_history)

\* Whatever may still have to be answered has its hash in the table.
HashedInv == DOMAIN resp_buffer \cup awaiting \subseteq DOMAIN s_req_hash

\* The client acknowledges, records and delivers only what it has received.
ReceiptsInv ==
    /\ ResponsesIn(c_history) \cup Ids(pending_new) \subseteq received
    /\ DOMAIN received_payload \subseteq received
    /\ 1 .. (base - 1) \subseteq received
    /\ \A req \in AllRequests : AcksReceived(req)

\* This server ran the application at most once for a request it has committed, and
\* not at all for one that waits to be run after a replay.
OnceInv ==
    /\ awaiting \cup DOMAIN app_calls \subseteq 1 .. committed_upto
    /\ awaiting \cap DOMAIN app_calls = {}
    /\ \A n \in DOMAIN app_calls : app_calls[n] = 1

\* But for the ids in lost, a committed request that the client has no response to is
\* buffered or awaited, and only a client with the response is told no_op.
AnswerableInv(lost) ==
    /\ \A n \in 1 .. committed_upto :
           n \in DOMAIN resp_buffer \cup awaiting \cup received \cup lost
    /\ \A resp \in AllResponses : resp.no_op => resp.seq \in received \cup lost
    /\ received \ DOMAIN received_payload \subseteq lost

\* The same of the server that a checkpoint would restore.
CheckpointAnswerable(cp, lost) ==
    \A n \in 1 .. cp.committed_upto : n \in DOMAIN cp.buffer \cup received \cup lost
=============================================================================
