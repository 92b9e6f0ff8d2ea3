---------------------------- MODULE HttpFailover ----------------------------
(***************************************************************************)
(* HttpExchange with a server that fails: the process and everything it    *)
(* holds in memory are gone, its connections break, and the replacement    *)
(* restores the checkpoint file, if that can be read                       *)
(* (src/server/color_interceptor.cc).  A thread of ColorHttpClient that    *)
(* gets a 503 posts a replay until it gets a 200, and only then posts its  *)
(* request again (src/client/color_http_client.cc).                        *)
(*                                                                         *)
(* A replay is posted like a request: its attempt is live while its thread *)
(* is inside post(), and may be run by the server long afterwards.         *)
(***************************************************************************)
EXTENDS HttpExchange

CONSTANTS
    MaxCrashes,     \* bound: how many times the server fails
    MaxTorn         \* bound: how many replays are ingested torn

ASSUME HttpCrashAssumption == MaxCrashes \in Nat /\ MaxTorn \in Nat

VARIABLES
    recovering,     \* id -> replay that the thread of that request is posting
    replay_posts,   \* attempts of replays on their way, or queued in the executor
    replay_ok,      \* ids whose live replay attempt has a 200 on its way back
    crashes,        \* failovers so far
    served,         \* history variable: ids whose replay was answered
    strayed,        \* history variable: a replay left a gap, or was ingested torn
    torn            \* history variable: how many replays were ingested torn

recoveryVars == << recovering, replay_posts, replay_ok, crashes, served, strayed, torn >>

hfvars == << hvars, recoveryVars >>

ReplayAttempt == [seq : SeqNo, rp : Replay, live : BOOLEAN]
LiveReplay(n) == [seq |-> n, rp |-> recovering[n], live |-> TRUE]
SupersededReplay(n) == [seq |-> n, rp |-> recovering[n], live |-> FALSE]

HttpFailoverTypeOK ==
    /\ HttpTypeOK
    /\ DOMAIN recovering \subseteq sending
    /\ \A n \in DOMAIN recovering : recovering[n] \in Replay
    /\ replay_posts \subseteq ReplayAttempt
    /\ \A p \in replay_posts : p.live => p.seq \in posting \cap DOMAIN recovering
    /\ replay_ok \subseteq posting \cap DOMAIN recovering
    /\ crashes \in 0 .. MaxCrashes
    /\ served \subseteq DOMAIN recovering
    /\ strayed \in BOOLEAN
    /\ torn \in 0 .. MaxTorn

HttpFailoverInit ==
    /\ HttpInit
    /\ recovering = EmptyMap
    /\ replay_posts = {}
    /\ replay_ok = {}
    /\ crashes = 0
    /\ served = {}
    /\ strayed = FALSE
    /\ torn = 0

-----------------------------------------------------------------------------
(* The server fails.                                                       *)

\* f << json fails, unnoticed.  The rename then puts a partial file in place of
\* the checkpoint; if not even the temporary file was made, the old one stays.
WriteFails ==
    /\ saving
    /\ saving' = FALSE
    /\ commits_since_ckpt_' = 0
    /\ checkpoint' \in {NoCheckpoint, checkpoint}
    /\ UNCHANGED << netVars, clientVars, serverVars, posting, posts, pending_,
                    replies, aborted, recoveryVars >>

\* Threads in post() whose exchange is neither answered nor among those that wait
\* to be run.
CutOff(ps, rps) ==
    {n \in posting : /\ n \notin DOMAIN replies \cup replay_ok
                     /\ \A p \in ps \cup rps : p.live => p.seq # n}

\* The process dies, whatever it is doing, and another starts on the same port.
\* Attempts that had not reached the old process may reach the new one, and
\* replies already written may still arrive; every other exchange is broken off.
Crash ==
    /\ crashes < MaxCrashes
    /\ crashes' = crashes + 1
    /\ RestoreFrom(checkpoint)
    /\ s2c' = {}
    /\ pending_' = EmptyMap
    /\ commits_since_ckpt_' = 0
    /\ saving' = FALSE
    /\ posts' \in SUBSET posts
    /\ replay_posts' \in SUBSET replay_posts
    /\ aborted' = CutOff(posts', replay_posts')
    /\ UNCHANGED << c2s, clientVars, s_mismatch, app_runs, posting, replies,
                    checkpoint, recovering, replay_ok, served, strayed, torn >>

-----------------------------------------------------------------------------
(* Recovery.                                                               *)

\* The 503 branch of OnRequest: no object stays held, nothing is counted.
ReplyRecover(resp) ==
    /\ ~draining
    /\ resp \in s2c
    /\ resp.recover
    /\ s2c' = {}
    /\ replies' = RepliesWith(resp)
    /\ pending_' = Released(resp.seq)
    /\ UNCHANGED << c2s, clientVars, serverVars, posting, posts, aborted,
                    checkpointVars, recoveryVars >>

\* Mutant: every status that is delivered is taken as the response.
NeverRecover(resp) == FALSE

\* send() tells a 503 with Color-Recover from a response.
AsksToRecover(resp) == resp.recover

\* send() gets the 503 and calls recover(), which freezes a replay.
ReceiveRecover(n) ==
    /\ AsksToRecover(replies[n])
    /\ recovering' = Put(recovering, n, build_replay(replies[n].recover_from))
    /\ posting' = posting \ {n}
    /\ replies' = Erase(replies, {n})
    /\ UNCHANGED << netVars, clientVars, serverVars, posts, pending_, aborted,
                    checkpointVars, replay_posts, replay_ok, crashes, served,
                    strayed, torn >>

\* The loop of recover() posts the replay, for the first time or again.
PostReplay(n) ==
    /\ n \in DOMAIN recovering \ posting
    /\ posting' = posting \cup {n}
    /\ replay_posts' = replay_posts \cup {LiveReplay(n)}
    /\ UNCHANGED << netVars, clientVars, serverVars, posts, pending_, replies,
                    aborted, checkpointVars, recovering, replay_ok, crashes,
                    served, strayed, torn >>

\* post() of a replay returns without an answer; see GiveUp.
GiveUpReplay(n) ==
    /\ n \in posting
    /\ LiveReplay(n) \in replay_posts => ~Locked
    /\ posting' = posting \ {n}
    /\ \/ replay_posts' = replay_posts \ {LiveReplay(n)}
       \/ /\ LiveReplay(n) \in replay_posts
          /\ replay_posts' = (replay_posts \ {LiveReplay(n)}) \cup {SupersededReplay(n)}
    /\ replay_ok' = replay_ok \ {n}
    /\ aborted' = aborted \ {n}
    /\ UNCHANGED << netVars, clientVars, serverVars, posts, pending_, replies,
                    checkpointVars, recovering, crashes, served, strayed, torn >>

\* OnReplay: ReadBody takes one block of the body, and whatever from_json_replay makes
\* of that, complete or not, is ingested under mu_ and answered with 200.
OnReplay(p, got) ==
    /\ ~Locked
    /\ ingest_replay(got)
    /\ \/ replay_posts' = replay_posts \ {p}
       \/ ~p.live /\ replay_posts' = replay_posts
    /\ replay_ok' = IF p.live THEN replay_ok \cup {p.seq} ELSE replay_ok
    /\ served' = served \cup {n \in DOMAIN recovering : recovering[n] = p.rp}
    /\ torn' = IF got \in CleanCuts(p.rp) THEN torn ELSE torn + 1
    /\ torn' <= MaxTorn
    /\ strayed' = (strayed \/ got \notin CleanCuts(p.rp) \/ LeavesGap(got))
    /\ UNCHANGED << netVars, clientVars, posting, posts, pending_, replies,
                    aborted, checkpointVars, recovering, crashes >>

\* recover() gets the 200 and returns; send() goes on with its own request.
EndRecovery(n) ==
    /\ n \in replay_ok
    /\ posting' = posting \ {n}
    /\ recovering' = Erase(recovering, {n})
    /\ replay_ok' = replay_ok \ {n}
    /\ served' = served \ {n}
    /\ UNCHANGED << netVars, clientVars, serverVars, posts, pending_, replies,
                    aborted, checkpointVars, replay_posts, crashes, strayed, torn >>

-----------------------------------------------------------------------------
(* The steps of HttpExchange, of threads that are not recovering.          *)

FailoverPost(n) == n \notin DOMAIN recovering /\ Post(n) /\ UNCHANGED recoveryVars

FailoverGiveUp(n) == n \notin DOMAIN recovering /\ GiveUp(n) /\ UNCHANGED recoveryVars

FailoverReceive(n) ==
    ~AsksToRecover(replies[n]) /\ Receive(n) /\ UNCHANGED recoveryVars

Serve ==
    /\ \/ \E p \in posts : OnRequest(p)
       \/ CoreCommit
       \/ \E resp \in s2c : Complete(resp)
       \/ WriteCheckpoint
    /\ UNCHANGED recoveryVars

HttpFailoverNext ==
    \/ Send /\ UNCHANGED recoveryVars
    \/ \E n \in sending : FailoverPost(n)
    \/ \E n \in posting : FailoverGiveUp(n)
    \/ \E n \in DOMAIN replies : FailoverReceive(n)
    \/ Serve
    \/ WriteFails
    \/ Crash
    \/ \E resp \in s2c : ReplyRecover(resp)
    \/ \E n \in DOMAIN replies : ReceiveRecover(n)
    \/ \E n \in DOMAIN recovering : PostReplay(n)
    \/ \E n \in DOMAIN recovering : GiveUpReplay(n)
    \/ \E p \in replay_posts : \E got \in {p.rp} \cup ReadShort(p.rp) : OnReplay(p, got)
    \/ \E n \in DOMAIN recovering : EndRecovery(n)

HttpFailoverSpec == HttpFailoverInit /\ [][HttpFailoverNext]_hfvars

-----------------------------------------------------------------------------
\* What send() delivers is a result that the application produced for that request.
\* Up to the first failover, as long as no replay is ingested torn, it delivers one
\* whenever it hands a reply to the core: never a recovery signal, an empty reply or a
\* broken exchange.
OnlyAppResultsDelivered ==
    /\ \A n \in DOMAIN received_payload :
           n \in DOMAIN app_runs /\ received_payload[n] \in 1 .. app_runs[n]
    /\ crashes <= 1 /\ torn = 0 => received = DOMAIN received_payload

\* Across a failover too the interceptor holds an object only for a request that the
\* core has staged.
HeldOnlyStaged == ~Locked => DOMAIN pending_ \subseteq DOMAIN pending_reqs

\* A thread that waits, for its request or for its replay, waits for an attempt
\* that is on its way, held, answered or broken off.
NoThreadForgotten ==
    \A n \in posting :
        \/ n \in DOMAIN recovering /\ LiveReplay(n) \in replay_posts
        \/ n \in replay_ok
        \/ Expected(n)

\* The answers that may still be received: a recovery signal is one only while its
\* thread listens for it.
answers ==
    {resp \in s2c : resp.recover => resp.seq \in DOMAIN pending_ /\ pending_[resp.seq]}
        \cup {replies[n] : n \in DOMAIN replies}

\* The replays that may still be ingested.
posted_replays == {p.rp : p \in replay_posts}

\* The HTTP programs implement the conversation with failover, over links that lose
\* messages.
Failing == INSTANCE Failover WITH
    KeepCopies <- FALSE,
    MaxCrashes <- MaxCrashes + 1,
    CutReplays <- TRUE,
    s2c <- answers,
    replays <- posted_replays

ImplementsFailover == Failing!FailoverSpec
=============================================================================
