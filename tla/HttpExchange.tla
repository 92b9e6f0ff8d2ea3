---------------------------- MODULE HttpExchange ----------------------------
(***************************************************************************)
(* The conversation over HTTP, with a server that stays up: the threads of *)
(* ColorHttpClient (src/client/color_http_client.cc), the attempts of      *)
(* CurlTransport (curl_transport.cc), and the request objects that         *)
(* ColorInterceptor holds (src/server/color_interceptor.cc).               *)
(*                                                                         *)
(* Every attempt of a request is one HTTP exchange.  An attempt is live    *)
(* while the thread of its request is inside the post() that made it, and  *)
(* superseded once that post() has returned without an answer; the server  *)
(* cannot tell.  Superseded attempts of one request are all alike.         *)
(*                                                                         *)
(* c2s holds the frozen requests of the calls of send(), and s2c the       *)
(* responses of on_request that OnRequest has yet to hand out under mu_.   *)
(***************************************************************************)
EXTENDS Recovery, FiniteSets

CONSTANTS
    MaxSeq,             \* bound: how many calls of send()
    Window,             \* client threads, each in one send() at a time
    checkpoint_every_   \* commits from one checkpoint to the next

ASSUME HttpBoundsAssumption ==
    /\ MaxSeq \in Nat \ {0}
    /\ Window \in Nat \ {0}
    /\ checkpoint_every_ \in Nat \ {0}

VARIABLES
    posting,    \* ids whose thread is inside post()
    posts,      \* attempts on their way to OnRequest, or queued in the executor
    pending_,   \* id -> whether the request object held for it is of a live attempt
    replies,    \* id -> response on its way back on the live attempt
    aborted,    \* ids whose live attempt the server has aborted
    commits_since_ckpt_,
    saving,     \* OnRequest is about to write the checkpoint
    checkpoint  \* the checkpoint file

checkpointVars == << commits_since_ckpt_, saving, checkpoint >>

httpVars == << posting, posts, pending_, replies, aborted, checkpointVars >>

hvars == << netVars, clientVars, serverVars, httpVars >>

Attempt == [seq : SeqNo, live : BOOLEAN]
Live(n) == [seq |-> n, live |-> TRUE]
Superseded(n) == [seq |-> n, live |-> FALSE]

\* The calls of send() that have not returned.
sending == DOMAIN inflight

HttpTypeOK ==
    /\ posting \subseteq sending
    /\ posts \subseteq Attempt
    /\ \A p \in posts : p.live => p.seq \in posting
    /\ DOMAIN pending_ \subseteq SeqNo
    /\ \A n \in DOMAIN pending_ : pending_[n] \in BOOLEAN /\ (pending_[n] => n \in posting)
    /\ DOMAIN replies \subseteq posting
    /\ \A n \in DOMAIN replies : replies[n] \in Response /\ replies[n].seq = n
    /\ aborted \subseteq posting
    /\ commits_since_ckpt_ \in Nat
    /\ saving \in BOOLEAN
    /\ IsCheckpoint(checkpoint)

HttpInit ==
    /\ NetInit
    /\ ClientInit
    /\ ServerInit
    /\ posting = {}
    /\ posts = {}
    /\ pending_ = EmptyMap
    /\ replies = EmptyMap
    /\ aborted = {}
    /\ commits_since_ckpt_ = 0
    /\ saving = FALSE
    /\ checkpoint = NoCheckpoint

\* mu_ of the interceptor is held from the start of OnRequest to its end.
Locked == draining \/ s2c # {} \/ saving

-----------------------------------------------------------------------------
(* The client's threads.                                                   *)

\* A thread of the program is between two calls of send(), and has one left to make.
WorkerFree == next_seq <= MaxSeq /\ Cardinality(sending) < Window

\* send(): a thread generates its request under mu_.
Send ==
    /\ WorkerFree
    /\ generate_request
    /\ UNCHANGED << s2c, serverVars, httpVars >>

\* The loop of send() posts the frozen request, for the first time or again.
Post(n) ==
    /\ n \in sending \ posting
    /\ posting' = posting \cup {n}
    /\ posts' = posts \cup {Live(n)}
    /\ UNCHANGED << netVars, clientVars, serverVars, pending_, replies, aborted,
                    checkpointVars >>

\* Mutant: an answer to an abandoned attempt is kept for the next one.
RepliesKept(n) == replies

\* A post that has returned no longer listens for its answer.
RepliesWithout(n) == Erase(replies, {n})

\* post() returns without an answer: the request was dropped, the response was
\* dropped, the exchange timed out, or the server aborted it.  An attempt that
\* waits for mu_ is given up before or after: nothing under mu_ looks at it.
GiveUp(n) ==
    /\ n \in posting
    /\ Live(n) \in posts => ~Locked
    /\ posting' = posting \ {n}
    /\ \/ posts' = posts \ {Live(n)}
       \/ /\ Live(n) \in posts
          /\ posts' = (posts \ {Live(n)}) \cup {Superseded(n)}
    /\ pending_' = [m \in DOMAIN pending_ |-> pending_[m] /\ m # n]
    /\ replies' = RepliesWithout(n)
    /\ aborted' = aborted \ {n}
    /\ UNCHANGED << netVars, clientVars, serverVars, checkpointVars >>

\* post() returns with an answer; the thread hands it to the core and returns.
Receive(n) ==
    /\ n \in DOMAIN replies
    /\ on_response(replies[n]) \/ on_duplicate_response(replies[n])
    /\ posting' = posting \ {n}
    /\ replies' = Erase(replies, {n})
    /\ UNCHANGED << netVars, serverVars, posts, pending_, aborted,
                    checkpointVars >>

-----------------------------------------------------------------------------
(* The interceptor.                                                        *)

\* Mutant: the acknowledgement list is lost in the headers.
RequestWithoutAcks(n) == [(CHOOSE req \in c2s : req.seq = n) EXCEPT !.ack_new = << >>]

\* The frozen request that an attempt carries.
RequestOf(n) == CHOOSE req \in c2s : req.seq = n

\* Mutant: a request object that is already held is kept, and the new one ignored.
HoldFirst(p) == IF p.seq \in DOMAIN pending_ THEN pending_
                                             ELSE Put(pending_, p.seq, p.live)

\* The object of this attempt replaces the one held for the same id.
Hold(p) == Put(pending_, p.seq, p.live)

\* OnRequest up to the call of the core.  The object held before is aborted.
OnRequest(p) ==
    /\ p \in posts
    /\ ~Locked
    /\ \/ posts' = posts \ {p}
       \/ ~p.live /\ posts' = posts
    /\ aborted' = IF p.seq \in DOMAIN pending_ /\ pending_[p.seq]
                  THEN aborted \cup {p.seq} ELSE aborted
    /\ pending_' = Hold(p)
    /\ on_request(RequestOf(p.seq))
    /\ UNCHANGED << c2s, clientVars, posting, replies, checkpointVars >>

\* The commit loop of the core, inside OnRequest.
CoreCommit ==
    /\ CommitNext \/ CommitDone
    /\ UNCHANGED << c2s, clientVars, httpVars >>

\* Mutant: the object stays held after its reply.
StillHeld(n) == pending_

Released(n) == Erase(pending_, {n})

\* Responses, other than no_op ones, written since the last checkpoint.
CountWith(resp) == commits_since_ckpt_ + (IF resp.no_op THEN 0 ELSE 1)

\* Mutant: one commit more than checkpoint_every_ is let through.
MaybeCheckpointLate(count, last) ==
    /\ commits_since_ckpt_' = count
    /\ saving' = (last /\ count > checkpoint_every_)

\* MaybeCheckpoint, when the loop over the responses is over: is it time to save?
MaybeCheckpoint(count, last) ==
    /\ commits_since_ckpt_' = count
    /\ saving' = (last /\ count >= checkpoint_every_)

\* WriteCheckpoint: the file is replaced in one step, by a rename.
WriteCheckpoint ==
    /\ saving
    /\ saving' = FALSE
    /\ commits_since_ckpt_' = 0
    /\ checkpoint' = Snapshot
    /\ UNCHANGED << netVars, clientVars, serverVars, posting, posts, pending_,
                    replies, aborted >>

\* Complete() writes a reply on the object held for its id; nobody listens for it
\* on a superseded attempt.
RepliesWith(resp) ==
    IF pending_[resp.seq] THEN Put(replies, resp.seq, resp) ELSE replies

\* One iteration of the loop over the responses.  A response without a held object
\* is skipped and not counted.  A recovery signal, which a server that stays up
\* never gives, takes the other branch (module HttpFailover).
Complete(resp) ==
    /\ ~draining
    /\ resp \in s2c
    /\ ~resp.recover
    /\ s2c' = s2c \ {resp}
    /\ \/ /\ resp.seq \in DOMAIN pending_
          /\ replies' = RepliesWith(resp)
          /\ pending_' = Released(resp.seq)
          /\ MaybeCheckpoint(CountWith(resp), s2c = {resp})
       \/ /\ resp.seq \notin DOMAIN pending_
          /\ UNCHANGED << replies, pending_ >>
          /\ MaybeCheckpoint(commits_since_ckpt_, s2c = {resp})
    /\ UNCHANGED << c2s, clientVars, serverVars, posting, posts, aborted,
                    checkpoint >>

HttpNext ==
    \/ Send
    \/ \E n \in sending : Post(n)
    \/ \E n \in posting : GiveUp(n)
    \/ \E n \in DOMAIN replies : Receive(n)
    \/ \E p \in posts : OnRequest(p)
    \/ CoreCommit
    \/ \E resp \in s2c : Complete(resp)
    \/ WriteCheckpoint

HttpSpec == HttpInit /\ [][HttpNext]_hvars

\* send() posts until it is answered and every post() returns; OnRequest runs to
\* its end.  An attempt that is made again and again reaches the server, and is
\* answered, before it times out.
HttpFairness ==
    /\ WF_hvars(CoreCommit)
    /\ WF_hvars(WriteCheckpoint)
    /\ WF_hvars(\E resp \in s2c : Complete(resp))
    /\ \A n \in 1 .. MaxSeq :
        /\ WF_hvars(Post(n))
        /\ WF_hvars(GiveUp(n))
        /\ SF_hvars(Live(n) \in posts /\ OnRequest(Live(n)))
        /\ SF_hvars(\E resp \in s2c : /\ resp.seq = n
                                      /\ n \in DOMAIN pending_ /\ pending_[n]
                                      /\ Complete(resp))
        /\ SF_hvars(n \in DOMAIN replies /\ Receive(n))

FairHttpSpec == HttpSpec /\ HttpFairness

-----------------------------------------------------------------------------
\* The interceptor holds a request object exactly for the requests the core has
\* staged: whoever waits can be answered, and no object is held for ever.
HeldWhileStaged == ~Locked => DOMAIN pending_ = DOMAIN pending_reqs

\* The attempt of n is on its way, held, answered or aborted.
Expected(n) ==
    \/ Live(n) \in posts
    \/ n \in DOMAIN pending_ /\ pending_[n]
    \/ n \in DOMAIN replies
    \/ n \in aborted

\* Whenever a thread waits, its attempt is on its way, held, answered or aborted:
\* no live attempt is forgotten.
NoAttemptForgotten == \A n \in posting : Expected(n)

\* Between two calls of OnRequest the checkpoint file lags behind the core by fewer
\* than checkpoint_every_ commits: MaybeCheckpoint misses no commit, whichever
\* call made it and whoever is left to answer.
CheckpointLag == ~Locked => committed_upto - checkpoint.committed_upto < checkpoint_every_

\* Every call of send() returns, with a response delivered.
EverySendReturns ==
    \A n \in 1 .. MaxSeq : n < next_seq ~> n \in DOMAIN received_payload

\* The responses still to be handed out, or on their way back.
responses == s2c \cup {replies[n] : n \in DOMAIN replies}

\* The HTTP exchange implements the conversation over links that lose messages.
Lossy == INSTANCE Conversation WITH KeepCopies <- FALSE, s2c <- responses

ImplementsConversation == Lossy!Spec
=============================================================================
