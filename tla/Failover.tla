------------------------------ MODULE Failover ------------------------------
(***************************************************************************)
(* Conversation with server failover: the server checkpoints its active    *)
(* state, may crash at any moment, is rebuilt from the last checkpoint     *)
(* (src/core/color_server.cc, src/server/color_interceptor.cc), and asks   *)
(* the client to replay the history it lacks.                              *)
(*                                                                         *)
(* The client side of a recovery is ColorHttpClient's                      *)
(* (src/client/color_http_client.cc): one thread per outstanding request,  *)
(* which on a 503 builds a replay, posts it until the server acknowledges  *)
(* it, and then sends its request again.  The links stay those of the      *)
(* harness: messages survive a crash of the server or are lost with it.    *)
(* Module HttpFailover shows that the HTTP programs implement this.        *)
(***************************************************************************)
EXTENDS Conversation, Recovery

CONSTANTS
    MaxCrashes,     \* bound: how many times the server fails
    CutReplays,     \* a replay may be read short: ReadBody takes one block of it
    MaxTorn         \* bound: how many replays are ingested torn

ASSUME CrashAssumption == MaxCrashes \in Nat /\ CutReplays \in BOOLEAN /\ MaxTorn \in Nat

VARIABLES
    checkpoint,     \* the checkpoint file: what a replacement server restores
    recovering,     \* id -> replay that the thread of that request is posting
    served,         \* ids whose replay the server has answered with 200
    replays,        \* replays in flight
    crashes,        \* failovers so far
    strayed,        \* history variable: a replay left a gap, or was ingested torn
    torn            \* history variable: how many replays were ingested torn

failoverVars == << checkpoint, recovering, served, replays, crashes, strayed, torn >>

fvars == << vars, failoverVars >>

FailoverTypeOK ==
    /\ TypeOK
    /\ IsCheckpoint(checkpoint)
    /\ DOMAIN recovering \subseteq outstanding
    /\ \A n \in DOMAIN recovering : recovering[n] \in Replay
    /\ served \subseteq DOMAIN recovering
    /\ replays \subseteq Replay
    /\ crashes \in 0 .. MaxCrashes
    /\ strayed \in BOOLEAN
    /\ torn \in 0 .. MaxTorn

FailoverInit ==
    /\ Init
    /\ checkpoint = NoCheckpoint
    /\ recovering = EmptyMap
    /\ served = {}
    /\ replays = {}
    /\ crashes = 0
    /\ strayed = FALSE
    /\ torn = 0

-----------------------------------------------------------------------------
(* The checkpoint and the crash.                                           *)

\* The harness's periodic refresh: between two calls of on_request, at any cadence
\* (the interceptor's own is in HttpExchange).  After the last failover nothing
\* reads it.
WriteCheckpoint ==
    /\ ~draining
    /\ crashes < MaxCrashes
    /\ checkpoint' = Snapshot
    /\ UNCHANGED << vars, recovering, served, replays, crashes, strayed, torn >>

\* The interceptor's write fails, unnoticed, and the rename puts what was written
\* in the place of the last good checkpoint.
SpoilCheckpoint ==
    /\ ~draining
    /\ crashes < MaxCrashes
    /\ checkpoint' = NoCheckpoint
    /\ UNCHANGED << vars, recovering, served, replays, crashes, strayed, torn >>

\* The server fails, perhaps inside on_request, and a replacement starts.
\* What is on its connections may be lost.
Crash ==
    /\ crashes < MaxCrashes
    /\ crashes' = crashes + 1
    /\ RestoreFrom(checkpoint)
    /\ \/ UNCHANGED << s2c, replays >>
       \/ ~KeepCopies /\ s2c' \in SUBSET s2c /\ replays' \in SUBSET replays
    /\ UNCHANGED << c2s, clientVars, s_mismatch, app_runs, checkpoint,
                    recovering, served, strayed, torn >>

-----------------------------------------------------------------------------
(* Recovery.                                                               *)

\* ColorHttpClient::send gets a 503 for its request: recover() freezes a replay.
StartRecovery(resp) ==
    /\ resp \in s2c
    /\ resp.recover
    /\ resp.seq \in outstanding \ DOMAIN recovering
    /\ s2c' = {other \in s2c : ~(other.recover /\ other.seq = resp.seq)}
    /\ recovering' = Put(recovering, resp.seq, build_replay(resp.recover_from))
    /\ UNCHANGED << c2s, clientVars, serverVars, checkpoint, served, replays,
                    crashes, strayed, torn >>

\* The loop of recover() posts the replay, for the first time or again.
PostReplay(n) ==
    /\ recovering[n] \notin replays
    /\ replays' = replays \cup {recovering[n]}
    /\ UNCHANGED << vars, checkpoint, recovering, served, crashes, strayed, torn >>

\* What OnReplay gets of a replay; from_json_replay's result is not looked at.
ReadAs(rp) == IF CutReplays THEN {rp} \cup ReadShort(rp) ELSE {rp}

\* ColorInterceptor::OnReplay: under mu_, so not inside on_request.  Of the replay rp
\* it has got.
OnReplay(rp, got) ==
    /\ ~draining
    /\ ingest_replay(got)
    /\ torn' = IF got \in CleanCuts(rp) THEN torn ELSE torn + 1
    /\ torn' <= MaxTorn
    /\ strayed' = (strayed \/ got \notin CleanCuts(rp) \/ LeavesGap(got))

\* A replay reaches the server, perhaps long after its recovery has ended.
DeliverReplay(rp) ==
    /\ \E got \in ReadAs(rp) : OnReplay(rp, got)
    /\ served' = served \cup {n \in DOMAIN recovering : recovering[n] = rp}
    /\ \/ replays' = replays
       \/ ~KeepCopies /\ replays' = replays \ {rp}
    /\ UNCHANGED << netVars, clientVars, checkpoint, recovering, crashes >>

\* The 200 gets back: recover() returns and send() posts the request again.
EndRecovery(n) ==
    /\ n \in served
    /\ recovering' = Erase(recovering, {n})
    /\ served' = served \ {n}
    /\ SendRequest(inflight[n])
    /\ UNCHANGED << s2c, clientVars, serverVars, checkpoint, replays, crashes,
                    strayed, torn >>

\* A thread that is recovering does not send its request; one that posts it
\* again no longer listens for the answer to its earlier post.
FailoverResend(n) ==
    /\ n \notin DOMAIN recovering
    /\ Retransmit(n)
    /\ s2c' = {resp \in s2c : ~(resp.recover /\ resp.seq = n)}
    /\ UNCHANGED << serverVars, failoverVars >>

\* No thread waits for the answer to its request while it is recovering.
FailoverDeliverResponse(resp) ==
    /\ resp.seq \notin DOMAIN recovering
    /\ DeliverResponse(resp)
    /\ UNCHANGED failoverVars

\* A replay is lost.
LoseReplay(rp) ==
    /\ ~KeepCopies
    /\ replays' = replays \ {rp}
    /\ UNCHANGED << vars, checkpoint, recovering, served, crashes, strayed, torn >>

FailoverNext ==
    \/ Generate /\ UNCHANGED failoverVars
    \/ \E n \in outstanding : FailoverResend(n)
    \/ \E req \in c2s : DeliverRequest(req) /\ UNCHANGED failoverVars
    \/ Commit /\ UNCHANGED failoverVars
    \/ \E resp \in s2c : FailoverDeliverResponse(resp)
    \/ Lose /\ UNCHANGED failoverVars
    \/ WriteCheckpoint
    \/ SpoilCheckpoint
    \/ Crash
    \/ \E resp \in s2c : StartRecovery(resp)
    \/ \E n \in DOMAIN recovering : PostReplay(n)
    \/ \E rp \in replays : DeliverReplay(rp)
    \/ \E rp \in replays : LoseReplay(rp)
    \/ \E n \in served : EndRecovery(n)

FailoverSpec == FailoverInit /\ [][FailoverNext]_fvars

\* As in Conversation; a replay that is posted again and again gets through too,
\* and so does its 200.
FailoverFairness ==
    /\ WF_fvars(Commit /\ UNCHANGED failoverVars)
    /\ \A n \in 1 .. MaxSeq :
        /\ WF_fvars(FailoverResend(n))
        /\ SF_fvars(\E req \in c2s : /\ req.seq = n
                                     /\ DeliverRequest(req)
                                     /\ UNCHANGED failoverVars)
        /\ SF_fvars(\E resp \in s2c : resp.seq = n /\ FailoverDeliverResponse(resp))
        /\ SF_fvars(\E resp \in s2c : resp.seq = n /\ StartRecovery(resp))
        /\ WF_fvars(n \in DOMAIN recovering /\ PostReplay(n))
        /\ SF_fvars(n \in DOMAIN recovering /\ recovering[n] \in replays
                        /\ DeliverReplay(recovering[n]))
        /\ WF_fvars(n \in served /\ EndRecovery(n))

FairFailoverSpec == FailoverSpec /\ FailoverFairness

-----------------------------------------------------------------------------
\* Across failovers the server's history stays the client's history up to the
\* last request committed, unless a replay was ingested past a gap, or torn.
AgreementAcrossFailover == ~strayed => HistoryAgreement

\* No hash disagrees either, in the same case.
NoMismatchAcrossFailover == ~strayed => NoMismatch

\* One server object runs the application at most once for each request,
\* whatever is retransmitted, replayed or replayed again (checker.h).
OncePerServer == ~strayed => \A n \in DOMAIN app_calls : app_calls[n] = 1

\* One failover is survived whatever checkpoint it starts from and however late a
\* replay arrives, as long as none is torn: the server is never asked to append past a
\* gap, and no request is completed without its response.
OneFailoverIsSafe ==
    crashes <= 1 /\ torn = 0 => ~strayed /\ received = DOMAIN received_payload

\* needs_recover looks at a request when it arrives, and the commit loop records what
\* it acknowledges much later, after other commits and replays.  It still acknowledges
\* only what this server has committed.
StagedAcksCommitted ==
    \A n \in DOMAIN pending_reqs :
        /\ pending_reqs[n].ack_base <= committed_upto + 1
        /\ Ids(pending_reqs[n].ack_new) \subseteq 1 .. committed_upto

\* Request n waits behind a request the server lost and the client, which has
\* its answer, no longer sends; and nothing outstanding acknowledges that answer.
StalledBehindGap(n) ==
    /\ n \in outstanding
    /\ \E m \in received : committed_upto < m /\ m < n
    /\ \A k \in outstanding : ~needs_recover(inflight[k])

\* After a failover every request is still answered in the end, through replay
\* and reprocessing, unless it is left behind such a gap for ever.
AnsweredUnlessStalled ==
    \A n \in 1 .. MaxSeq :
        \/ <>[]StalledBehindGap(n)
        \/ n < next_seq ~> n \in DOMAIN received_payload

\* The conversation with failover implements the recoverable history; it strays when a
\* replay is ingested past a gap, or torn.
Recoverable == INSTANCE RecoverableHistory WITH
    order     <- c_history,
    issued    <- next_seq - 1,
    arrivals  <- pending_new,
    completed <- received,
    delivered <- received_payload,
    agreed    <- s_history,
    ran       <- DOMAIN app_calls,
    runs      <- app_runs,
    failures  <- crashes

ImplementsRecoverableHistory == Recoverable!Spec
=============================================================================
