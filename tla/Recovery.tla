------------------------------ MODULE Recovery ------------------------------
(***************************************************************************)
(* What survives a server, and how its replacement catches up: the         *)
(* checkpoint (ColorServer::checkpoint and the constructor that restores   *)
(* it), the client's replay (ColorClient::build_replay) and its ingestion  *)
(* (ColorServer::ingest_replay).  Shared by the modules in which a server  *)
(* fails.                                                                  *)
(***************************************************************************)
EXTENDS ColorClient, ColorServer

\* The fields of Checkpoint; a history goes in as its hash and its length.
IsCheckpoint(cp) ==
    /\ cp.committed_upto \in Nat
    /\ cp.history \in Hash
    /\ DOMAIN cp.buffer \subseteq SeqNo
    /\ \A n \in DOMAIN cp.buffer : cp.buffer[n] \in [payload : Nat, hash : Hash]

\* load_checkpoint without a file, or with one that from_json_checkpoint rejects:
\* the replacement starts empty.
NoCheckpoint == [committed_upto |-> 0, history |-> << >>, buffer |-> EmptyMap]

-----------------------------------------------------------------------------
\* Mutant: the unacknowledged responses are not persisted.
SnapshotWithoutBuffer ==
    [committed_upto |-> committed_upto, history |-> s_history, buffer |-> EmptyMap]

\* ColorServer::checkpoint.
Snapshot ==
    [committed_upto |-> committed_upto,
     history        |-> s_history,
     buffer         |-> [n \in DOMAIN resp_buffer |->
                            [payload |-> resp_buffer[n], hash |-> s_req_hash[n]]]]

\* The state of a server built from a checkpoint; the rest starts empty.
RestoreFrom(cp) ==
    /\ committed_upto' = cp.committed_upto
    /\ s_history' = cp.history
    /\ resp_buffer' = [n \in DOMAIN cp.buffer |-> cp.buffer[n].payload]
    /\ s_req_hash' = [n \in DOMAIN cp.buffer |-> cp.buffer[n].hash]
    /\ pending_reqs' = EmptyMap
    /\ awaiting' = {}
    /\ app_calls' = EmptyMap
    /\ draining' = FALSE
    /\ out' = {}

\* Mutant: the replay starts one event late.
ReplayAfter(from) ==
    [from |-> from, events |-> SubSeq(c_history, from + 2, Len(c_history))]

\* ColorClient::build_replay.
build_replay(from) ==
    [from |-> from, events |-> SubSeq(c_history, from + 1, Len(c_history))]

\* Mutant: a repeated replay is appended again.
UnseenOrNot(rp) == rp.events

\* The replayed events the server does not hold yet.
Unseen(rp) ==
    LET have == Len(s_history)
        skip == IF have > rp.from THEN have - rp.from ELSE 0
    IN  SubSeq(rp.events, skip + 1, Len(rp.events))

\* The replay starts beyond what the server holds, and is appended all the same.
LeavesGap(rp) == Unseen(rp) # << >> /\ rp.from > Len(s_history)

\* Mutant: no replayed request is marked as awaiting.
NoneUnanswered(evs, n) == FALSE

\* Some R<n> of the replay is not followed by its r<n>.
LeftUnanswered(evs, n) ==
    \E i \in DOMAIN evs :
        /\ evs[i] = ReqEvent(n)
        /\ \A j \in DOMAIN evs : j > i => evs[j] # RspEvent(n)

\* Mutant: replayed requests do not count as committed.
FrontierKept(evs) == committed_upto

\* The highest id committed once the events are appended.
Frontier(evs) ==
    CHOOSE m \in RequestsIn(evs) \cup {committed_upto} :
        \A n \in RequestsIn(evs) \cup {committed_upto} : n <= m

\* Where R<n> stands for the last time.
LastAt(evs, n) ==
    CHOOSE i \in DOMAIN evs :
        /\ evs[i] = ReqEvent(n)
        /\ \A j \in DOMAIN evs : evs[j] = ReqEvent(n) => j <= i

\* The loop of ingest_replay, over all the events it appends.
ingest_replay(rp) ==
    LET evs == Unseen(rp)
    IN  /\ s_history' = s_history \o evs
        /\ s_req_hash' = [n \in DOMAIN s_req_hash \cup RequestsIn(evs) |->
                              IF n \in RequestsIn(evs)
                              THEN s_history \o SubSeq(evs, 1, LastAt(evs, n))
                              ELSE s_req_hash[n]]
        /\ committed_upto' = Frontier(evs)
        /\ awaiting' = (awaiting \ ResponsesIn(evs))
                           \cup {n \in RequestsIn(evs) : LeftUnanswered(evs, n)}
        /\ resp_buffer' = Erase(resp_buffer, ResponsesIn(evs))
        /\ UNCHANGED << pending_reqs, app_calls, s_mismatch, draining, out,
                        app_runs >>
=============================================================================
