------------------------- MODULE HttpFailoverProofs -------------------------
(***************************************************************************)
(* Proofs about HttpFailover, for every number of calls, threads and       *)
(* crashes and every period of the checkpoint.  The HTTP programs with a   *)
(* server that fails implement Failover, so what FailoverProofs proves     *)
(* holds of them, replays of which only a part is read included; no thread *)
(* is left waiting for nothing, no object is held for a request that is    *)
(* not staged, and up to the first failover, as long as no replay is torn, *)
(* what a call of send() returns is a result of the application.           *)
(***************************************************************************)
EXTENDS HttpFailover, TLAPS

\* Failover with its theorems, under the refinement mapping of Failing.
Core == INSTANCE FailoverProofs WITH
    KeepCopies <- FALSE,
    MaxCrashes <- MaxCrashes + 1,
    CutReplays <- TRUE,
    s2c <- answers,
    replays <- posted_replays

\* The assumptions that the theorems of Core rest on.
LEMMA FailoverAssumptions ==
    /\ (MaxSeq \in Nat \ {0} /\ Window \in Nat \ {0}) /\ FALSE \in BOOLEAN
    /\ MaxCrashes + 1 \in Nat /\ TRUE \in BOOLEAN /\ MaxTorn \in Nat
  BY HttpBoundsAssumption, HttpCrashAssumption

-----------------------------------------------------------------------------
(* Threads and their attempts.                                             *)

\* The ids of attempts and held objects, those of the past included.
usedIds == DOMAIN pending_ \cup {p.seq : p \in posts \cup replay_posts}

\* Every id in use is that of a frozen request.
IdsInv ==
    /\ \A n \in sending : inflight[n] \in c2s /\ inflight[n].seq = n
    /\ \A n \in usedIds : \E req \in c2s : req.seq = n

\* The thread of n waits for the answer to its request.
Asks(n) == n \in posting \ DOMAIN recovering

\* The object held for n is that of the attempt its thread waits on.
HeldLive(n) == n \in DOMAIN pending_ /\ pending_[n]

\* The replay that the thread of n waits on is on its way.
ReplayLive(n) == \E p \in replay_posts : p.live /\ p.seq = n

\* Live attempts of requests are those of threads that ask, and not recover.
AskingInv ==
    /\ posting \cup DOMAIN recovering \subseteq sending
    /\ aborted \subseteq posting
    /\ \A p \in posts : /\ p.live \in BOOLEAN
                        /\ p = [seq |-> p.seq, live |-> p.live]
                        /\ p.live => Asks(p.seq)
    /\ \A n \in DOMAIN pending_ : pending_[n] \in BOOLEAN /\ (pending_[n] => Asks(n))
    /\ \A n \in DOMAIN replies : replies[n].seq = n /\ Asks(n)

\* Live attempts of replays are those of threads that recover, with the replay they
\* are for; and a 200 comes back only for a replay that was ingested.
RecoveringInv ==
    /\ \A p \in replay_posts : /\ p.live \in BOOLEAN
                               /\ p = [seq |-> p.seq, rp |-> p.rp, live |-> p.live]
                               /\ p.live => /\ p.seq \in posting \cap DOMAIN recovering
                                            /\ p.rp = recovering[p.seq]
    /\ replay_ok \subseteq posting \cap served
    /\ served \subseteq DOMAIN recovering

\* A live attempt is in one place at a time.
OnePlace(n) ==
    /\ Live(n) \in posts => ~HeldLive(n) /\ n \notin DOMAIN replies \cup aborted
    /\ HeldLive(n) => n \notin DOMAIN replies \cup aborted
    /\ n \in DOMAIN replies => n \notin aborted
    /\ ReplayLive(n) => n \notin replay_ok \cup aborted
    /\ n \in replay_ok => n \notin aborted

\* And it is in one.
SomePlace(n) ==
    \/ Live(n) \in posts
    \/ HeldLive(n)
    \/ n \in DOMAIN replies \cup aborted \cup replay_ok
    \/ ReplayLive(n)

ThreadInv ==
    /\ AskingInv
    /\ RecoveringInv
    /\ \A n \in posting : OnePlace(n) /\ SomePlace(n)

\* mu_ is held until the responses of a call of OnRequest are handed out and saved; a
\* recovery signal is the only response of its call, and its object is held.
LockInv ==
    /\ ~draining => out = {}
    /\ draining => s2c = {}
    /\ saving => s2c = {} /\ ~draining
    /\ \A resp \in out : ~resp.recover
    /\ \A resp \in s2c : resp.recover => s2c = {resp} /\ resp.seq \in DOMAIN pending_

\* A step that brings no new requests and uses no ids but those of calls of send().
LEMMA IdsKept ==
    ASSUME IdsInv, c2s' = c2s, DOMAIN inflight' \subseteq DOMAIN inflight,
           \A n \in DOMAIN inflight' : inflight'[n] = inflight[n],
           usedIds' \subseteq usedIds \cup sending
    PROVE  IdsInv'
  BY DEF IdsInv, sending

\* No step leaves an attempt without its request.
LEMMA IdsStep ==
    ASSUME IdsInv, AskingInv, [HttpFailoverNext]_hfvars
    PROVE  IdsInv'
  <1>0. \A n : Live(n).seq = n /\ Superseded(n).seq = n /\ LiveReplay(n).seq = n
               /\ SupersededReplay(n).seq = n
    BY DEF Live, Superseded, LiveReplay, SupersededReplay
  <1>1. CASE Send /\ UNCHANGED recoveryVars
    <2> DEFINE r == NextRequest
    <2>1. /\ r.seq = next_seq /\ c2s' = c2s \cup {r}
          /\ DOMAIN inflight' = DOMAIN inflight \cup {next_seq}
          /\ \A n \in DOMAIN inflight' : inflight'[n] = IF n = next_seq THEN r ELSE inflight[n]
          /\ UNCHANGED << posts, pending_, replay_posts >>
      BY <1>1 DEF Send, generate_request, SendRequest, NextRequest, Put, httpVars,
                  recoveryVars
    <2> HIDE DEF r
    <2>2. usedIds' = usedIds
      BY <2>1 DEF usedIds
    <2> QED BY <2>1, <2>2 DEF IdsInv, sending
  <1>2. ASSUME UNCHANGED << c2s, inflight >>, usedIds' \subseteq usedIds \cup sending
        PROVE  IdsInv'
    BY <1>2, IdsKept
  <1>3. ASSUME NEW n \in sending, FailoverPost(n)
        PROVE  IdsInv'
    <2>1. /\ UNCHANGED << c2s, inflight, pending_, replay_posts >>
          /\ posts' = posts \cup {Live(n)}
      BY <1>3 DEF FailoverPost, Post, netVars, clientVars, recoveryVars
    <2> QED BY <1>0, <1>2, <2>1 DEF usedIds
  <1>4. ASSUME NEW n \in posting, FailoverGiveUp(n)
        PROVE  IdsInv'
    <2>1. /\ UNCHANGED << c2s, inflight, replay_posts >>
          /\ posts' \subseteq posts \cup {Superseded(n)}
          /\ DOMAIN pending_' = DOMAIN pending_
      BY <1>4 DEF FailoverGiveUp, GiveUp, netVars, clientVars, recoveryVars
    <2>2. n \in sending
      BY DEF AskingInv
    <2> QED BY <1>0, <1>2, <2>1, <2>2 DEF usedIds
  <1>5. ASSUME NEW n \in DOMAIN replies, FailoverReceive(n)
        PROVE  IdsInv'
    <2>1. /\ UNCHANGED << c2s, posts, pending_, replay_posts >>
          /\ DOMAIN inflight' \subseteq DOMAIN inflight
          /\ \A m \in DOMAIN inflight' : inflight'[m] = inflight[m]
      BY <1>5 DEF FailoverReceive, Receive, on_response, on_duplicate_response, Erase,
                  clientVars, netVars, recoveryVars
    <2>2. usedIds' = usedIds
      BY <2>1 DEF usedIds
    <2> QED BY <2>1, <2>2, IdsKept
  <1>6. ASSUME NEW p \in posts, OnRequest(p), UNCHANGED recoveryVars
        PROVE  IdsInv'
    <2>1. /\ UNCHANGED << c2s, inflight, replay_posts >>
          /\ posts' \subseteq posts
          /\ DOMAIN pending_' = DOMAIN pending_ \cup {p.seq}
      BY <1>6 DEF OnRequest, Hold, Put, clientVars, recoveryVars
    <2> QED BY <1>2, <2>1 DEF usedIds
  <1>7. CASE Serve /\ ~\E p \in posts : OnRequest(p)
    <2>1. /\ UNCHANGED << c2s, inflight, replay_posts, posts >>
          /\ DOMAIN pending_' \subseteq DOMAIN pending_
      BY <1>7 DEF Serve, CoreCommit, Complete, WriteCheckpoint, Released, Erase, netVars,
                  clientVars, httpVars, recoveryVars
    <2> QED BY <1>2, <2>1 DEF usedIds
  <1>8. CASE WriteFails \/ Crash \/ \E resp \in s2c : ReplyRecover(resp)
    <2>1. /\ UNCHANGED << c2s, inflight >>
          /\ posts' \subseteq posts /\ replay_posts' \subseteq replay_posts
          /\ DOMAIN pending_' \subseteq DOMAIN pending_
      BY <1>8 DEF WriteFails, Crash, ReplyRecover, Released, Erase, netVars, clientVars,
                  recoveryVars, EmptyMap
    <2> QED BY <1>2, <2>1 DEF usedIds
  <1>9. ASSUME NEW n \in DOMAIN recovering, PostReplay(n) \/ GiveUpReplay(n) \/ EndRecovery(n)
        PROVE  IdsInv'
    <2>1. /\ UNCHANGED << c2s, inflight, posts, pending_ >>
          /\ replay_posts' \subseteq replay_posts \cup {LiveReplay(n), SupersededReplay(n)}
      BY <1>9 DEF PostReplay, GiveUpReplay, EndRecovery, netVars, clientVars
    <2>2. n \in sending
      BY DEF AskingInv
    <2> QED BY <1>0, <1>2, <2>1, <2>2 DEF usedIds
  <1>10. CASE \/ \E n \in DOMAIN replies : ReceiveRecover(n)
              \/ \E p \in replay_posts : \E got : OnReplay(p, got)
              \/ UNCHANGED hfvars
    <2>1. /\ UNCHANGED << c2s, inflight, posts, pending_ >>
          /\ replay_posts' \subseteq replay_posts
      BY <1>10 DEF ReceiveRecover, OnReplay, netVars, clientVars, hfvars, hvars, httpVars,
                   recoveryVars
    <2> QED BY <1>2, <2>1 DEF usedIds
  <1> QED BY <1>1, <1>3, <1>4, <1>5, <1>6, <1>7, <1>8, <1>9, <1>10
          DEF HttpFailoverNext, Serve

\* What is said of threads does not depend on the rest of the state.
LEMMA ThreadsKept ==
    ASSUME ThreadInv, sending \subseteq sending',
           UNCHANGED << posting, posts, pending_, replies, aborted, recovering,
                        replay_posts, replay_ok, served >>
    PROVE  ThreadInv'
  <1>1. AskingInv' /\ RecoveringInv'
    BY DEF ThreadInv, AskingInv, RecoveringInv, Asks
  <1>2. \A n \in posting' : OnePlace(n)' /\ SomePlace(n)'
    BY DEF ThreadInv, OnePlace, SomePlace, HeldLive, ReplayLive
  <1> QED BY <1>1, <1>2 DEF ThreadInv

\* The steps that touch no thread.
LEMMA RestThreads ==
    ASSUME ThreadInv,
           \/ Send /\ UNCHANGED recoveryVars
           \/ CoreCommit /\ UNCHANGED recoveryVars
           \/ WriteCheckpoint /\ UNCHANGED recoveryVars
           \/ WriteFails
           \/ UNCHANGED hfvars
    PROVE  ThreadInv'
  <1>1. UNCHANGED << posting, posts, pending_, replies, aborted, recovering,
                     replay_posts, replay_ok, served >>
    BY DEF Send, CoreCommit, WriteCheckpoint, WriteFails, hfvars, hvars, httpVars,
           recoveryVars
  <1>2. sending \subseteq sending'
    BY DEF Send, generate_request, Put, CoreCommit, WriteCheckpoint, WriteFails, hfvars,
           hvars, clientVars, sending
  <1> QED BY <1>1, <1>2, ThreadsKept

\* A live attempt is one record.
LEMMA LiveAttempts ==
    ASSUME AskingInv
    PROVE  /\ \A m, n : Live(m) = Live(n) => m = n
           /\ \A m, n : Live(m) # Superseded(n)
           /\ \A n : Live(n).seq = n /\ Live(n).live = TRUE
                     /\ Live(n) = [seq |-> n, live |-> TRUE]
           /\ \A n : /\ Superseded(n).seq = n /\ Superseded(n).live = FALSE
                     /\ Superseded(n) = [seq |-> n, live |-> FALSE]
           /\ \A p \in posts : p.live => p = Live(p.seq)
  BY DEF AskingInv, Live, Superseded

\* A thread posts its request, gives up, or gets its answer.
LEMMA AskingThreads ==
    ASSUME ThreadInv,
           \/ \E n \in sending : FailoverPost(n)
           \/ \E n \in posting : FailoverGiveUp(n)
           \/ \E n \in DOMAIN replies : FailoverReceive(n)
    PROVE  ThreadInv'
  <1>0. AskingInv /\ RecoveringInv /\ \A n \in posting : OnePlace(n) /\ SomePlace(n)
    BY DEF ThreadInv
  <1>1. ASSUME NEW n \in sending, FailoverPost(n)
        PROVE  ThreadInv'
    <2>1. /\ n \notin posting /\ n \notin DOMAIN recovering
          /\ posting' = posting \cup {n} /\ posts' = posts \cup {Live(n)}
          /\ UNCHANGED << inflight, pending_, replies, aborted, recovering, replay_posts,
                          replay_ok, served >>
      BY <1>1 DEF FailoverPost, Post, clientVars, recoveryVars
    <2>2. AskingInv'
      <3>1. \A p \in posts' : /\ p.live \in BOOLEAN
                              /\ p = [seq |-> p.seq, live |-> p.live]
                              /\ p.live => Asks(p.seq)'
        <4> SUFFICES ASSUME NEW p \in posts'
                     PROVE  /\ p.live \in BOOLEAN
                            /\ p = [seq |-> p.seq, live |-> p.live]
                            /\ p.live => Asks(p.seq)'
          OBVIOUS
        <4>1. CASE p = Live(n)
          BY <1>0, <2>1, <4>1, LiveAttempts DEF Asks
        <4>2. CASE p \in posts
          BY <1>0, <2>1, <4>2 DEF AskingInv, Asks
        <4> QED BY <2>1, <4>1, <4>2
      <3>2. \A m : Asks(m) => Asks(m)'
        BY <2>1 DEF Asks
      <3> QED BY <1>0, <2>1, <3>1, <3>2 DEF AskingInv, sending
    <2>3. RecoveringInv'
      BY <1>0, <2>1 DEF RecoveringInv
    <2>4. /\ n \notin DOMAIN replies \cup aborted \cup replay_ok
          /\ ~HeldLive(n) /\ ~ReplayLive(n)
      BY <1>0, <2>1 DEF AskingInv, RecoveringInv, HeldLive, ReplayLive, Asks
    <2>5. ASSUME NEW m \in posting' PROVE OnePlace(m)' /\ SomePlace(m)'
      <3>1. m # n => (Live(m) \in posts' <=> Live(m) \in posts)
        BY <1>0, <2>1, LiveAttempts
      <3>2. (HeldLive(m)' <=> HeldLive(m)) /\ (ReplayLive(m)' <=> ReplayLive(m))
        BY <2>1 DEF HeldLive, ReplayLive
      <3>3. CASE m = n
        BY <2>1, <2>4, <3>2, <3>3 DEF OnePlace, SomePlace
      <3>4. CASE m # n
        BY <1>0, <2>1, <2>5, <3>1, <3>2, <3>4 DEF OnePlace, SomePlace
      <3> QED BY <3>3, <3>4
    <2> QED BY <2>2, <2>3, <2>5 DEF ThreadInv
  <1>2. ASSUME NEW n \in posting, FailoverGiveUp(n)
        PROVE  ThreadInv'
    <2>1. /\ n \notin DOMAIN recovering
          /\ posting' = posting \ {n} /\ inflight' = inflight
          /\ \/ posts' = posts \ {Live(n)}
             \/ posts' = (posts \ {Live(n)}) \cup {Superseded(n)}
          /\ DOMAIN pending_' = DOMAIN pending_
          /\ \A m \in DOMAIN pending_ : pending_'[m] = (pending_[m] /\ m # n)
          /\ DOMAIN replies' = DOMAIN replies \ {n}
          /\ \A m \in DOMAIN replies' : replies'[m] = replies[m]
          /\ aborted' = aborted \ {n}
          /\ UNCHANGED << recovering, replay_posts, replay_ok, served >>
      BY <1>2 DEF FailoverGiveUp, GiveUp, RepliesWithout, Erase, clientVars, recoveryVars
    <2>2. /\ \A p \in posts' : (p \in posts /\ p # Live(n)) \/ p = Superseded(n)
          /\ \A m : Live(m) \in posts' <=> Live(m) \in posts /\ m # n
      BY <1>0, <2>1, LiveAttempts
    <2>3. AskingInv'
      <3>1. \A p \in posts' : /\ p.live \in BOOLEAN
                              /\ p = [seq |-> p.seq, live |-> p.live]
                              /\ p.live => Asks(p.seq)'
        <4> SUFFICES ASSUME NEW p \in posts'
                     PROVE  /\ p.live \in BOOLEAN
                            /\ p = [seq |-> p.seq, live |-> p.live]
                            /\ p.live => Asks(p.seq)'
          OBVIOUS
        <4>1. CASE p = Superseded(n)
          BY <1>0, <4>1, LiveAttempts
        <4>2. CASE p \in posts /\ p # Live(n)
          <5>1. p.live => p.seq # n
            BY <1>0, <4>2, LiveAttempts
          <5> QED BY <1>0, <2>1, <4>2, <5>1 DEF AskingInv, Asks
        <4> QED BY <2>2, <4>1, <4>2
      <3>2. \A m \in DOMAIN pending_' : pending_'[m] \in BOOLEAN /\ (pending_'[m] => Asks(m)')
        BY <1>0, <2>1 DEF AskingInv, Asks
      <3> QED BY <1>0, <2>1, <3>1, <3>2 DEF AskingInv, Asks, sending
    <2>4. n \notin replay_ok /\ ~ReplayLive(n)
      BY <1>0, <2>1 DEF RecoveringInv, ReplayLive
    <2>5. RecoveringInv'
      BY <1>0, <2>1, <2>4 DEF RecoveringInv, ReplayLive
    <2>6. \A m : HeldLive(m)' <=> HeldLive(m) /\ m # n
      BY <1>0, <2>1 DEF HeldLive, AskingInv
    <2>7. ASSUME NEW m \in posting' PROVE OnePlace(m)' /\ SomePlace(m)'
      <3>1. m \in posting /\ m # n /\ (ReplayLive(m)' <=> ReplayLive(m))
        BY <2>1, <2>7 DEF ReplayLive
      <3> QED BY <1>0, <2>1, <2>2, <2>6, <3>1 DEF OnePlace, SomePlace
    <2> QED BY <2>3, <2>5, <2>7 DEF ThreadInv
  <1>3. ASSUME NEW n \in DOMAIN replies, FailoverReceive(n)
        PROVE  ThreadInv'
    <2>1. n \in posting /\ n \notin DOMAIN recovering /\ replies[n].seq = n
      BY <1>0 DEF AskingInv, Asks
    <2>2. /\ posting' = posting \ {n}
          /\ DOMAIN replies' = DOMAIN replies \ {n}
          /\ \A m \in DOMAIN replies' : replies'[m] = replies[m]
          /\ DOMAIN inflight \ {n} \subseteq DOMAIN inflight'
          /\ UNCHANGED << posts, pending_, aborted, recovering, replay_posts, replay_ok,
                          served >>
      BY <1>3, <2>1 DEF FailoverReceive, Receive, on_response, on_duplicate_response, Erase,
                        clientVars, recoveryVars
    <2>3. /\ Live(n) \notin posts /\ ~HeldLive(n) /\ n \notin aborted
          /\ n \notin replay_ok /\ ~ReplayLive(n)
      BY <1>0, <2>1 DEF OnePlace, RecoveringInv, ReplayLive
    <2>4. AskingInv'
      <3>1. \A p \in posts : p.live => p.seq # n
        BY <1>0, <2>3, LiveAttempts
      <3>2. \A m \in DOMAIN pending_ : pending_[m] => m # n
        BY <2>3 DEF HeldLive
      <3>3. posting' \cup DOMAIN recovering' \subseteq sending'
        BY <1>0, <2>1, <2>2 DEF AskingInv, sending
      <3> QED BY <1>0, <2>2, <2>3, <3>1, <3>2, <3>3 DEF AskingInv, Asks
    <2>5. RecoveringInv'
      BY <1>0, <2>2, <2>3 DEF RecoveringInv, ReplayLive
    <2>6. ASSUME NEW m \in posting' PROVE OnePlace(m)' /\ SomePlace(m)'
      <3>1. m \in posting /\ m # n /\ (ReplayLive(m)' <=> ReplayLive(m))
            /\ (HeldLive(m)' <=> HeldLive(m))
        BY <2>2, <2>6 DEF ReplayLive, HeldLive
      <3> QED BY <1>0, <2>2, <3>1 DEF OnePlace, SomePlace
    <2> QED BY <2>4, <2>5, <2>6 DEF ThreadInv
  <1> QED BY <1>1, <1>2, <1>3

\* The interceptor takes up an attempt, answers one, or replies with a 503.
LEMMA InterceptorThreads ==
    ASSUME ThreadInv, LockInv,
           \/ \E p \in posts : OnRequest(p) /\ UNCHANGED recoveryVars
           \/ \E resp \in s2c : Complete(resp) /\ UNCHANGED recoveryVars
           \/ \E resp \in s2c : ReplyRecover(resp)
    PROVE  ThreadInv'
  <1>0. AskingInv /\ RecoveringInv /\ \A n \in posting : OnePlace(n) /\ SomePlace(n)
    BY DEF ThreadInv
  <1>1. ASSUME NEW p \in posts, OnRequest(p), UNCHANGED recoveryVars
        PROVE  ThreadInv'
    <2> DEFINE n == p.seq
    <2>1. /\ UNCHANGED << inflight, posting, replies, recovering, replay_posts, replay_ok,
                          served >>
          /\ \/ posts' = posts \ {p}
             \/ ~p.live /\ posts' = posts
          /\ aborted' = IF HeldLive(n) THEN aborted \cup {n} ELSE aborted
          /\ DOMAIN pending_' = DOMAIN pending_ \cup {n}
          /\ \A m \in DOMAIN pending_' : pending_'[m] = IF m = n THEN p.live ELSE pending_[m]
      BY <1>1 DEF OnRequest, Hold, Put, HeldLive, clientVars, recoveryVars
    <2>2. /\ p.live \in BOOLEAN /\ (p.live => p = Live(n) /\ Asks(n))
          /\ ~p.live => \A m : Live(m) # p
          /\ \A m : Live(m) = p => m = n
      BY <1>0, LiveAttempts DEF AskingInv
    <2>3. /\ \A m : m # n => (HeldLive(m)' <=> HeldLive(m))
          /\ HeldLive(n)' <=> p.live
          /\ \A m : Live(m) \in posts' <=> Live(m) \in posts /\ Live(m) # p
          /\ \A m : ReplayLive(m)' <=> ReplayLive(m)
      BY <2>1, <2>2 DEF HeldLive, ReplayLive
    <2>4. HeldLive(n) => Asks(n)
      BY <1>0 DEF AskingInv, HeldLive
    <2>5. AskingInv'
      <3>1. posts' \subseteq posts
        BY <2>1
      <3>2. \A m \in DOMAIN pending_' : pending_'[m] \in BOOLEAN /\ (pending_'[m] => Asks(m)')
        BY <1>0, <2>1, <2>2 DEF AskingInv, Asks
      <3>3. aborted' \subseteq posting
        BY <1>0, <2>1, <2>4 DEF AskingInv, Asks
      <3> QED BY <1>0, <2>1, <3>1, <3>2, <3>3 DEF AskingInv, sending, Asks
    <2>6. RecoveringInv'
      BY <1>0, <2>1 DEF RecoveringInv
    <2> HIDE DEF n
    <2>7. ASSUME NEW m \in posting' PROVE OnePlace(m)' /\ SomePlace(m)'
      <3>0. m \in posting /\ OnePlace(m) /\ SomePlace(m)
        BY <1>0, <2>1, <2>7
      <3>1. CASE m # n
        <4>1. /\ (Live(m) \in posts' <=> Live(m) \in posts)
              /\ (HeldLive(m)' <=> HeldLive(m)) /\ (m \in aborted' <=> m \in aborted)
              /\ DOMAIN replies' = DOMAIN replies
          BY <2>1, <2>2, <2>3, <3>1
        <4> QED BY <2>1, <2>3, <3>0, <4>1 DEF OnePlace, SomePlace
      <3>2. CASE m = n /\ p.live
        <4>1. Live(n) \in posts /\ ~HeldLive(n) /\ n \notin DOMAIN replies \cup aborted
          BY <2>2, <3>0, <3>2 DEF OnePlace
        <4>2. n \notin replay_ok /\ ~ReplayLive(n)
          BY <1>0, <2>2, <3>2 DEF RecoveringInv, ReplayLive, Asks
        <4>3. HeldLive(n)' /\ Live(n) \notin posts' /\ n \notin DOMAIN replies' \cup aborted'
          BY <2>1, <2>2, <2>3, <3>2, <4>1
        <4> QED BY <2>1, <2>3, <3>2, <4>2, <4>3 DEF OnePlace, SomePlace
      <3>3. CASE m = n /\ ~p.live /\ HeldLive(n)
        <4>1. Live(n) \notin posts /\ n \notin DOMAIN replies
          BY <3>0, <3>3 DEF OnePlace
        <4>2. n \notin replay_ok /\ ~ReplayLive(n)
          BY <1>0, <2>4, <3>3 DEF RecoveringInv, ReplayLive, Asks
        <4>3. ~HeldLive(n)' /\ Live(n) \notin posts' /\ n \notin DOMAIN replies' /\ n \in aborted'
          BY <2>1, <2>3, <3>3, <4>1
        <4> QED BY <2>1, <2>3, <3>3, <4>2, <4>3 DEF OnePlace, SomePlace
      <3>4. CASE m = n /\ ~p.live /\ ~HeldLive(n)
        <4>1. /\ ~HeldLive(n)' /\ (Live(n) \in posts' <=> Live(n) \in posts)
              /\ DOMAIN replies' = DOMAIN replies /\ aborted' = aborted
          BY <2>1, <2>2, <2>3, <3>4
        <4> QED BY <2>1, <2>3, <3>0, <3>4, <4>1 DEF OnePlace, SomePlace
      <3> QED BY <2>2, <3>1, <3>2, <3>3, <3>4
    <2> QED BY <2>5, <2>6, <2>7 DEF ThreadInv
  <1>2. ASSUME NEW resp \in s2c, resp.seq \in DOMAIN pending_,
               replies' = RepliesWith(resp), pending_' = Released(resp.seq),
               UNCHANGED << inflight, posting, posts, aborted, recovering, replay_posts,
                            replay_ok, served >>
        PROVE  ThreadInv'
    <2> DEFINE n == resp.seq
    <2>1. /\ DOMAIN pending_' = DOMAIN pending_ \ {n}
          /\ \A m \in DOMAIN pending_' : pending_'[m] = pending_[m]
      BY <1>2 DEF Released, Erase
    <2>2. pending_[n] \in BOOLEAN /\ (pending_[n] => Asks(n))
      BY <1>0, <1>2 DEF AskingInv
    <2>3. /\ \A m : HeldLive(m)' <=> HeldLive(m) /\ m # n
          /\ \A m : ReplayLive(m)' <=> ReplayLive(m)
      BY <1>2, <2>1 DEF HeldLive, ReplayLive
    <2>4. RecoveringInv'
      BY <1>0, <1>2 DEF RecoveringInv
    <2>5. CASE ~pending_[n]
      <3>1. replies' = replies
        BY <1>2, <2>5 DEF RepliesWith
      <3>2. AskingInv'
        BY <1>0, <1>2, <2>1, <3>1 DEF AskingInv, Asks, sending
      <3>3. \A m : HeldLive(m)' <=> HeldLive(m)
        BY <2>3, <2>5 DEF HeldLive
      <3>4. \A m \in posting' : OnePlace(m)' /\ SomePlace(m)'
        BY <1>0, <1>2, <2>3, <3>1, <3>3 DEF OnePlace, SomePlace
      <3> QED BY <2>4, <3>2, <3>4 DEF ThreadInv
    <2>6. CASE pending_[n]
      <3>1. /\ DOMAIN replies' = DOMAIN replies \cup {n}
            /\ \A m \in DOMAIN replies' : replies'[m] = IF m = n THEN resp ELSE replies[m]
        BY <1>2, <2>6 DEF RepliesWith, Put
      <3>2. AskingInv'
        <4>1. \A m \in DOMAIN replies' : replies'[m].seq = m /\ Asks(m)'
          BY <1>0, <1>2, <2>2, <2>6, <3>1 DEF AskingInv, Asks
        <4> QED BY <1>0, <1>2, <2>1, <4>1 DEF AskingInv, Asks, sending
      <3>3. HeldLive(n) /\ n \in posting /\ OnePlace(n)
        BY <1>0, <1>2, <2>2, <2>6 DEF HeldLive, Asks
      <3>4. Live(n) \notin posts /\ n \notin aborted
        BY <3>3 DEF OnePlace
      <3> HIDE DEF n
      <3>5. \A m \in posting' : OnePlace(m)' /\ SomePlace(m)'
        BY <1>0, <1>2, <2>3, <3>1, <3>4 DEF OnePlace, SomePlace
      <3> QED BY <2>4, <3>2, <3>5 DEF ThreadInv
    <2> QED BY <2>2, <2>5, <2>6
  <1>3. ASSUME NEW resp \in s2c, Complete(resp), UNCHANGED recoveryVars
        PROVE  ThreadInv'
    <2>1. UNCHANGED << inflight, posting, posts, aborted, recovering, replay_posts,
                       replay_ok, served >>
      BY <1>3 DEF Complete, clientVars, recoveryVars
    <2>2. CASE UNCHANGED << replies, pending_ >>
      BY <2>1, <2>2, ThreadsKept DEF sending
    <2> QED BY <1>2, <1>3, <2>1, <2>2 DEF Complete
  <1>4. ASSUME NEW resp \in s2c, ReplyRecover(resp)
        PROVE  ThreadInv'
    <2>1. /\ UNCHANGED << inflight, posting, posts, aborted, recovering, replay_posts,
                          replay_ok, served >>
          /\ replies' = RepliesWith(resp) /\ pending_' = Released(resp.seq)
          /\ resp.recover
      BY <1>4 DEF ReplyRecover, clientVars, recoveryVars
    <2> QED BY <1>2, <2>1 DEF LockInv
  <1> QED BY <1>1, <1>3, <1>4

\* A live attempt of a replay is one record.
LEMMA LiveReplays ==
    ASSUME RecoveringInv, NEW n \in DOMAIN recovering
    PROVE  /\ LiveReplay(n) = [seq |-> n, rp |-> recovering[n], live |-> TRUE]
           /\ SupersededReplay(n) = [seq |-> n, rp |-> recovering[n], live |-> FALSE]
           /\ \A p \in replay_posts : p.live /\ p.seq = n => p = LiveReplay(n)
           /\ ReplayLive(n) <=> LiveReplay(n) \in replay_posts
  <1>1. /\ LiveReplay(n) = [seq |-> n, rp |-> recovering[n], live |-> TRUE]
        /\ SupersededReplay(n) = [seq |-> n, rp |-> recovering[n], live |-> FALSE]
    BY DEF LiveReplay, SupersededReplay
  <1>2. ASSUME NEW p \in replay_posts, p.live, p.seq = n
        PROVE  p = LiveReplay(n)
    <2>1. /\ p = [seq |-> p.seq, rp |-> p.rp, live |-> p.live]
          /\ p.live = TRUE /\ p.rp = recovering[n]
      BY <1>2 DEF RecoveringInv
    <2> QED BY <1>1, <1>2, <2>1
  <1>3. LiveReplay(n).live /\ LiveReplay(n).seq = n
    BY <1>1
  <1> QED BY <1>1, <1>2, <1>3 DEF ReplayLive

\* A thread starts to recover, posts its replay, gives up, or gets its 200.
LEMMA RecoveringThreads ==
    ASSUME ThreadInv,
           \/ \E n \in DOMAIN replies : ReceiveRecover(n)
           \/ \E n \in DOMAIN recovering : PostReplay(n)
           \/ \E n \in DOMAIN recovering : GiveUpReplay(n)
           \/ \E n \in DOMAIN recovering : EndRecovery(n)
    PROVE  ThreadInv'
  <1>0. AskingInv /\ RecoveringInv /\ \A n \in posting : OnePlace(n) /\ SomePlace(n)
    BY DEF ThreadInv
  <1>1. ASSUME NEW n \in DOMAIN replies, ReceiveRecover(n)
        PROVE  ThreadInv'
    <2>1. n \in posting /\ n \notin DOMAIN recovering /\ n \in sending
      BY <1>0 DEF AskingInv, Asks
    <2>2. /\ posting' = posting \ {n}
          /\ DOMAIN replies' = DOMAIN replies \ {n}
          /\ \A m \in DOMAIN replies' : replies'[m] = replies[m]
          /\ DOMAIN recovering' = DOMAIN recovering \cup {n}
          /\ \A m \in DOMAIN recovering : recovering'[m] = recovering[m]
          /\ UNCHANGED << inflight, posts, pending_, aborted, replay_posts, replay_ok,
                          served >>
      BY <1>1, <2>1 DEF ReceiveRecover, Put, Erase, clientVars
    <2>3. /\ Live(n) \notin posts /\ ~HeldLive(n) /\ n \notin aborted
          /\ n \notin replay_ok /\ ~ReplayLive(n)
      BY <1>0, <2>1 DEF OnePlace, RecoveringInv, ReplayLive
    <2>4. \A m : Asks(m)' <=> Asks(m) /\ m # n
      BY <2>2 DEF Asks
    <2>5. AskingInv'
      <3>1. \A p \in posts : p.live => p.seq # n
        BY <1>0, <2>3, LiveAttempts
      <3>2. \A m \in DOMAIN pending_ : pending_[m] => m # n
        BY <2>3 DEF HeldLive
      <3>3. posting' \cup DOMAIN recovering' \subseteq sending' /\ aborted' \subseteq posting'
        BY <1>0, <2>1, <2>2, <2>3 DEF AskingInv, sending
      <3> QED BY <1>0, <2>2, <2>4, <3>1, <3>2, <3>3 DEF AskingInv
    <2>6. RecoveringInv'
      <3>1. \A p \in replay_posts : p.live => p.seq # n
        BY <2>3 DEF ReplayLive
      <3> QED BY <1>0, <2>2, <2>3, <3>1 DEF RecoveringInv
    <2>7. ASSUME NEW m \in posting' PROVE OnePlace(m)' /\ SomePlace(m)'
      <3>1. m \in posting /\ m # n /\ (ReplayLive(m)' <=> ReplayLive(m))
            /\ (HeldLive(m)' <=> HeldLive(m))
        BY <2>2, <2>7 DEF ReplayLive, HeldLive
      <3> QED BY <1>0, <2>2, <3>1 DEF OnePlace, SomePlace
    <2> QED BY <2>5, <2>6, <2>7 DEF ThreadInv
  <1>2. ASSUME NEW n \in DOMAIN recovering, PostReplay(n)
        PROVE  ThreadInv'
    <2>1. /\ n \notin posting /\ posting' = posting \cup {n} /\ n \in sending
          /\ replay_posts' = replay_posts \cup {LiveReplay(n)}
          /\ UNCHANGED << inflight, posts, pending_, replies, aborted, recovering,
                          replay_ok, served >>
      BY <1>0, <1>2 DEF PostReplay, clientVars, AskingInv
    <2>2. \A m : Asks(m)' <=> Asks(m)
      BY <2>1 DEF Asks
    <2>3. AskingInv'
      BY <1>0, <2>1, <2>2 DEF AskingInv, sending
    <2>4. RecoveringInv'
      <3>1. ASSUME NEW p \in replay_posts'
            PROVE  /\ p.live \in BOOLEAN
                   /\ p = [seq |-> p.seq, rp |-> p.rp, live |-> p.live]
                   /\ p.live => /\ p.seq \in posting' \cap DOMAIN recovering'
                                /\ p.rp = recovering'[p.seq]
        <4>1. CASE p = LiveReplay(n)
          <5>1. p = [seq |-> n, rp |-> recovering[n], live |-> TRUE]
            BY <1>0, <4>1, LiveReplays
          <5>2. p.seq = n /\ p.rp = recovering[n] /\ p.live = TRUE
            BY <5>1
          <5>3. n \in posting' \cap DOMAIN recovering' /\ recovering' = recovering
            BY <2>1
          <5> QED BY <5>1, <5>2, <5>3, Zenon
        <4>2. CASE p \in replay_posts
          BY <1>0, <2>1, <4>2 DEF RecoveringInv
        <4> QED BY <2>1, <3>1, <4>1, <4>2
      <3> QED BY <1>0, <2>1, <3>1 DEF RecoveringInv
    <2>5. n \notin replay_ok \cup aborted \cup DOMAIN replies /\ Live(n) \notin posts /\ ~HeldLive(n)
      <3>1. Live(n) \in posts => Asks(n)
        <4>1. Live(n).seq = n /\ Live(n).live
          BY <1>0, LiveAttempts
        <4> QED BY <1>0, <4>1 DEF AskingInv
      <3> QED BY <1>0, <2>1, <3>1 DEF AskingInv, RecoveringInv, Asks, HeldLive
    <2>6. /\ ReplayLive(n)'
          /\ \A m : m # n => (ReplayLive(m)' <=> ReplayLive(m))
          /\ \A m : HeldLive(m)' <=> HeldLive(m)
      BY <1>0, <2>1, LiveReplays DEF ReplayLive, HeldLive
    <2>7. ASSUME NEW m \in posting' PROVE OnePlace(m)' /\ SomePlace(m)'
      <3>1. CASE m = n
        BY <2>1, <2>5, <2>6, <3>1 DEF OnePlace, SomePlace
      <3>2. CASE m # n
        BY <1>0, <2>1, <2>6, <2>7, <3>2 DEF OnePlace, SomePlace
      <3> QED BY <3>1, <3>2
    <2> QED BY <2>3, <2>4, <2>7 DEF ThreadInv
  <1>3. ASSUME NEW n \in DOMAIN recovering, GiveUpReplay(n)
        PROVE  ThreadInv'
    <2>1. /\ n \in posting /\ posting' = posting \ {n}
          /\ \/ replay_posts' = replay_posts \ {LiveReplay(n)}
             \/ replay_posts' = (replay_posts \ {LiveReplay(n)}) \cup {SupersededReplay(n)}
          /\ replay_ok' = replay_ok \ {n} /\ aborted' = aborted \ {n}
          /\ UNCHANGED << inflight, posts, pending_, replies, recovering, served >>
      BY <1>3 DEF GiveUpReplay, clientVars
    <2>2. \A m : Asks(m)' <=> Asks(m)
      BY <2>1 DEF Asks
    <2>3. AskingInv'
      BY <1>0, <2>1, <2>2 DEF AskingInv, sending
    <2>4. ASSUME NEW p \in replay_posts'
          PROVE  \/ p = SupersededReplay(n)
                 \/ p \in replay_posts /\ (p.live => p.seq # n)
      BY <1>0, <2>1, <2>4, LiveReplays
    <2>5. RecoveringInv'
      <3>1. ASSUME NEW p \in replay_posts'
            PROVE  /\ p.live \in BOOLEAN
                   /\ p = [seq |-> p.seq, rp |-> p.rp, live |-> p.live]
                   /\ p.live => /\ p.seq \in posting' \cap DOMAIN recovering'
                                /\ p.rp = recovering'[p.seq]
        <4>1. CASE p = SupersededReplay(n)
          <5>1. p = [seq |-> n, rp |-> recovering[n], live |-> FALSE]
            BY <1>0, <4>1, LiveReplays
          <5>2. p.seq = n /\ p.rp = recovering[n] /\ p.live = FALSE
            BY <5>1
          <5> QED BY <5>1, <5>2, Zenon
        <4>2. CASE p \in replay_posts /\ (p.live => p.seq # n)
          BY <1>0, <2>1, <4>2 DEF RecoveringInv
        <4> QED BY <2>4, <3>1, <4>1, <4>2
      <3> QED BY <1>0, <2>1, <3>1 DEF RecoveringInv
    <2>6. /\ \A m : m # n => (ReplayLive(m)' <=> ReplayLive(m))
          /\ \A m : HeldLive(m)' <=> HeldLive(m)
      BY <1>0, <2>1, LiveReplays DEF ReplayLive, HeldLive
    <2>7. ASSUME NEW m \in posting' PROVE OnePlace(m)' /\ SomePlace(m)'
      <3>1. m # n /\ m \in posting
        BY <2>1, <2>7
      <3> QED BY <1>0, <2>1, <2>6, <3>1 DEF OnePlace, SomePlace
    <2> QED BY <2>3, <2>5, <2>7 DEF ThreadInv
  <1>4. ASSUME NEW n \in DOMAIN recovering, EndRecovery(n)
        PROVE  ThreadInv'
    <2>1. /\ n \in replay_ok /\ posting' = posting \ {n}
          /\ DOMAIN recovering' = DOMAIN recovering \ {n}
          /\ \A m \in DOMAIN recovering' : recovering'[m] = recovering[m]
          /\ replay_ok' = replay_ok \ {n} /\ served' = served \ {n}
          /\ UNCHANGED << inflight, posts, pending_, replies, aborted, replay_posts >>
      BY <1>4 DEF EndRecovery, Erase, clientVars
    <2>2. n \in posting /\ OnePlace(n)
      BY <1>0, <2>1 DEF RecoveringInv
    <2>3. n \notin aborted /\ ~ReplayLive(n)
      BY <2>1, <2>2 DEF OnePlace
    <2>4. \A m : Asks(m)' <=> Asks(m)
      BY <2>1 DEF Asks
    <2>5. AskingInv'
      BY <1>0, <2>1, <2>3, <2>4 DEF AskingInv, sending
    <2>6. RecoveringInv'
      <3>1. \A p \in replay_posts : p.live => p.seq # n
        BY <2>3 DEF ReplayLive
      <3> QED BY <1>0, <2>1, <3>1 DEF RecoveringInv
    <2>7. ASSUME NEW m \in posting' PROVE OnePlace(m)' /\ SomePlace(m)'
      <3>1. m \in posting /\ m # n /\ (ReplayLive(m)' <=> ReplayLive(m))
            /\ (HeldLive(m)' <=> HeldLive(m))
        BY <2>1, <2>7 DEF ReplayLive, HeldLive
      <3> QED BY <1>0, <2>1, <3>1 DEF OnePlace, SomePlace
    <2> QED BY <2>5, <2>6, <2>7 DEF ThreadInv
  <1> QED BY <1>1, <1>2, <1>3, <1>4

\* A replay is ingested, or the server dies.
LEMMA ServerThreads ==
    ASSUME ThreadInv, Crash \/ \E p \in replay_posts : \E got : OnReplay(p, got)
    PROVE  ThreadInv'
  <1>0. AskingInv /\ RecoveringInv /\ \A n \in posting : OnePlace(n) /\ SomePlace(n)
    BY DEF ThreadInv
  <1>1. ASSUME NEW p \in replay_posts, NEW got, OnReplay(p, got)
        PROVE  ThreadInv'
    <2> DEFINE n == p.seq
    <2>1. /\ \/ replay_posts' = replay_posts \ {p}
             \/ ~p.live /\ replay_posts' = replay_posts
          /\ replay_ok' = IF p.live THEN replay_ok \cup {n} ELSE replay_ok
          /\ served' = served \cup {m \in DOMAIN recovering : recovering[m] = p.rp}
          /\ UNCHANGED << inflight, posting, posts, pending_, replies, aborted, recovering >>
      BY <1>1 DEF OnReplay, clientVars
    <2>2. p.live => /\ n \in posting \cap DOMAIN recovering /\ p.rp = recovering[n]
                    /\ \A q \in replay_posts : q.live /\ q.seq = n => q = p
      BY <1>0, LiveReplays DEF RecoveringInv
    <2>3. \A m : Asks(m)' <=> Asks(m)
      BY <2>1 DEF Asks
    <2>4. AskingInv'
      BY <1>0, <2>1, <2>3 DEF AskingInv, sending
    <2>5. RecoveringInv'
      <3>1. replay_posts' \subseteq replay_posts
        BY <2>1
      <3>2. replay_ok' \subseteq posting \cap served' /\ served' \subseteq DOMAIN recovering
        BY <1>0, <2>1, <2>2 DEF RecoveringInv
      <3> QED BY <1>0, <2>1, <3>1, <3>2 DEF RecoveringInv
    <2> HIDE DEF n
    <2>6. /\ \A m : m # n => (ReplayLive(m)' <=> ReplayLive(m))
          /\ p.live => ReplayLive(n) /\ ~ReplayLive(n)'
          /\ ~p.live => (ReplayLive(n)' <=> ReplayLive(n))
          /\ \A m : HeldLive(m)' <=> HeldLive(m)
      BY <2>1, <2>2 DEF ReplayLive, HeldLive, n
    <2>7. ASSUME NEW m \in posting' PROVE OnePlace(m)' /\ SomePlace(m)'
      <3>0. m \in posting /\ OnePlace(m) /\ SomePlace(m)
        BY <1>0, <2>1, <2>7
      <3>1. CASE m = n /\ p.live
        <4>1. m \notin aborted /\ ~ReplayLive(m)' /\ m \in replay_ok'
          BY <2>1, <2>6, <3>0, <3>1 DEF OnePlace
        <4> QED BY <2>1, <2>6, <3>0, <4>1 DEF OnePlace, SomePlace
      <3>2. CASE ~(m = n /\ p.live)
        <4>1. (ReplayLive(m)' <=> ReplayLive(m)) /\ (m \in replay_ok' <=> m \in replay_ok)
          BY <2>1, <2>6, <3>2
        <4> QED BY <2>1, <2>6, <3>0, <4>1 DEF OnePlace, SomePlace
      <3> QED BY <3>1, <3>2
    <2> QED BY <2>4, <2>5, <2>7 DEF ThreadInv
  <1>2. CASE Crash
    <2>1. /\ posts' \subseteq posts /\ replay_posts' \subseteq replay_posts
          /\ aborted' = CutOff(posts', replay_posts') /\ DOMAIN pending_' = {}
          /\ UNCHANGED << inflight, posting, replies, recovering, replay_ok, served >>
      BY <1>2 DEF Crash, EmptyMap, clientVars
    <2>2. \A m : m \in aborted' <=> /\ m \in posting /\ m \notin DOMAIN replies \cup replay_ok
                                    /\ \A p \in posts' \cup replay_posts' : p.live => p.seq # m
      BY <2>1 DEF CutOff
    <2>3. \A m : Asks(m)' <=> Asks(m)
      BY <2>1 DEF Asks
    <2>4. AskingInv'
      <3>1. aborted' \subseteq posting'
        BY <2>1, <2>2
      <3> QED BY <1>0, <2>1, <2>3, <3>1 DEF AskingInv, sending
    <2>5. RecoveringInv'
      BY <1>0, <2>1 DEF RecoveringInv
    <2>6. ASSUME NEW m \in posting' PROVE OnePlace(m)' /\ SomePlace(m)'
      <3>0. m \in posting /\ OnePlace(m)
        BY <1>0, <2>1, <2>6
      <3>1. /\ ~HeldLive(m)' /\ (Live(m) \in posts' => Live(m) \in posts)
            /\ (ReplayLive(m)' => ReplayLive(m))
        BY <2>1 DEF HeldLive, ReplayLive
      <3>2. Live(m) \in posts' \/ ReplayLive(m)' => m \notin aborted'
        <4>1. Live(m).seq = m /\ Live(m).live
          BY <1>0, LiveAttempts
        <4> QED BY <2>2, <4>1 DEF ReplayLive
      <3>3. /\ \/ Live(m) \in posts' \/ ReplayLive(m)' \/ m \in aborted'
               \/ m \in DOMAIN replies \cup replay_ok
            /\ m \in DOMAIN replies \cup replay_ok => m \notin aborted'
        <4>1. ASSUME NEW p \in posts', p.live, p.seq = m
              PROVE  Live(m) \in posts'
          BY <1>0, <2>1, <4>1, LiveAttempts
        <4> QED BY <2>2, <3>0, <4>1 DEF ReplayLive
      <3> QED BY <2>1, <3>0, <3>1, <3>2, <3>3 DEF OnePlace, SomePlace
    <2> QED BY <2>4, <2>5, <2>6 DEF ThreadInv
  <1> QED BY <1>1, <1>2

-----------------------------------------------------------------------------
(* Held objects and mu_.                                                   *)

\* An object is held only for a staged request or one that is about to be answered.
HeldInv == DOMAIN pending_ \subseteq DOMAIN pending_reqs \cup {resp.seq : resp \in s2c \cup out}

\* What on_request does: it answers with one response, or it stages the request.
LEMMA OnRequestEffect ==
    ASSUME NEW req, on_request(req), s2c = {}, ~draining, out = {}
    PROVE  \/ /\ \E resp : resp.seq = req.seq /\ s2c' = {resp}
              /\ pending_reqs' = pending_reqs /\ ~draining' /\ out' = {}
           \/ /\ DOMAIN pending_reqs' = DOMAIN pending_reqs \cup {req.seq}
              /\ draining' /\ s2c' = {} /\ out' = {}
  <1>1. ASSUME NEW d, NEW b, SendResponses({make_response(req.seq, d, b, s_req_hash)})
        PROVE  \E resp : resp.seq = req.seq /\ s2c' = {resp}
    <2>1. make_response(req.seq, d, b, s_req_hash).seq = req.seq
      BY DEF make_response
    <2> QED BY <1>1, <2>1 DEF SendResponses
  <1>2. CASE AskForReplay(req)
    <2>1. RecoverSignal(req.seq).seq = req.seq
      BY DEF RecoverSignal
    <2> QED BY <1>2, <2>1 DEF AskForReplay, SendResponses, serverVars
  <1>3. CASE ResendBuffered(req)
    BY <1>1, <1>3 DEF ResendBuffered
  <1>4. CASE ReprocessAwaiting(req)
    BY <1>1, <1>4 DEF ReprocessAwaiting
  <1>5. CASE AcknowledgeOnly(req)
    BY <1>1, <1>5 DEF AcknowledgeOnly
  <1>6. CASE Stage(req)
    BY <1>6 DEF Stage, Put
  <1> QED BY <1>2, <1>3, <1>4, <1>5, <1>6 DEF on_request

\* The request that an attempt carries is one of those frozen.
LEMMA RequestFound ==
    ASSUME IdsInv, NEW p \in posts
    PROVE  RequestOf(p.seq) \in c2s /\ RequestOf(p.seq).seq = p.seq
  <1>1. \E req \in c2s : req.seq = p.seq
    BY DEF IdsInv, usedIds
  <1> QED BY <1>1 DEF RequestOf

\* The steps that mu_ does not matter to.
LEMMA LockKept ==
    ASSUME LockInv, HeldInv, DOMAIN pending_' = DOMAIN pending_, saving' => saving,
           UNCHANGED << s2c, draining, out, pending_reqs >>
    PROVE  LockInv' /\ HeldInv'
  BY DEF LockInv, HeldInv

\* No step lets an object be held that nobody will answer, or mu_ go while there is
\* something to hand out.
LEMMA LockStep ==
    ASSUME IdsInv, LockInv, HeldInv, [HttpFailoverNext]_hfvars
    PROVE  LockInv' /\ HeldInv'
  <1>1. CASE \/ Send /\ UNCHANGED recoveryVars
             \/ \E n \in sending : FailoverPost(n)
             \/ \E n \in posting : FailoverGiveUp(n)
             \/ \E n \in DOMAIN replies : FailoverReceive(n)
             \/ \E n \in DOMAIN replies : ReceiveRecover(n)
             \/ \E n \in DOMAIN recovering : PostReplay(n)
             \/ \E n \in DOMAIN recovering : GiveUpReplay(n)
             \/ \E n \in DOMAIN recovering : EndRecovery(n)
             \/ UNCHANGED hfvars
    <2>1. UNCHANGED << s2c, serverVars, saving >> /\ DOMAIN pending_' = DOMAIN pending_
      BY <1>1 DEF Send, FailoverPost, Post, FailoverGiveUp, GiveUp, FailoverReceive, Receive,
                  ReceiveRecover, PostReplay, GiveUpReplay, EndRecovery, hfvars, hvars,
                  httpVars, checkpointVars, netVars
    <2> QED BY <2>1, LockKept DEF serverVars
  <1>2. CASE \/ WriteFails \/ WriteCheckpoint
             \/ \E p \in replay_posts : \E got : OnReplay(p, got)
    <2>1. /\ UNCHANGED << s2c, draining, out, pending_reqs, pending_ >>
          /\ saving' = FALSE \/ saving' = saving
      BY <1>2 DEF WriteFails, WriteCheckpoint, OnReplay, ingest_replay, serverVars, netVars,
                  checkpointVars
    <2>2. saving' => saving
      BY <2>1, Zenon
    <2> QED BY <2>1, <2>2, LockKept
  <1>3. ASSUME NEW p \in posts, OnRequest(p)
        PROVE  LockInv' /\ HeldInv'
    <2> DEFINE req == RequestOf(p.seq)
    <2>1. /\ ~draining /\ s2c = {} /\ ~saving /\ out = {} /\ on_request(req)
          /\ DOMAIN pending_' = DOMAIN pending_ \cup {p.seq}
      BY <1>3 DEF OnRequest, Locked, Hold, Put, LockInv
    <2>2. ~saving'
      BY <1>3, <2>1, Zenon DEF OnRequest, checkpointVars
    <2>3. req.seq = p.seq
      BY RequestFound
    <2> HIDE DEF req
    <2> QED BY <2>1, <2>2, <2>3, OnRequestEffect DEF LockInv, HeldInv
  <1>4. CASE CoreCommit
    <2>1. /\ draining /\ s2c = {} /\ ~saving
          /\ UNCHANGED << pending_, saving >>
      BY <1>4 DEF CoreCommit, CommitNext, CommitDone, LockInv, httpVars, checkpointVars
    <2>2. ~saving'
      BY <2>1, Zenon
    <2>3. CASE CommitDone
      <3>1. ~draining' /\ out' = {} /\ s2c' = out /\ pending_reqs' = pending_reqs
        BY <2>1, <2>3 DEF CommitDone, SendResponses
      <3> QED BY <2>1, <2>2, <3>1 DEF LockInv, HeldInv
    <2>4. CASE CommitNext
      <3> DEFINE n == committed_upto + 1
                 r == make_response(n, AppResult(n), FALSE, s_req_hash')
      <3>1. r.seq = n /\ r.recover = FALSE
        BY DEF make_response
      <3>2. /\ draining' /\ s2c' = {} /\ out' = out \cup {r}
            /\ DOMAIN pending_reqs' = DOMAIN pending_reqs \ {n}
        BY <2>1, <2>4 DEF CommitNext, NextInOrder, Erase
      <3> HIDE DEF n, r
      <3> QED BY <2>1, <2>2, <3>1, <3>2 DEF LockInv, HeldInv
    <2> QED BY <1>4, <2>3, <2>4 DEF CoreCommit
  <1>5. ASSUME NEW resp \in s2c, Complete(resp)
        PROVE  LockInv' /\ HeldInv'
    <2>1. /\ ~draining /\ ~resp.recover /\ s2c' = s2c \ {resp}
          /\ UNCHANGED << draining, out, pending_reqs >>
          /\ \/ DOMAIN pending_' = DOMAIN pending_ \ {resp.seq}
             \/ resp.seq \notin DOMAIN pending_ /\ pending_' = pending_
      BY <1>5 DEF Complete, Released, Erase, serverVars
    <2>2. saving' => s2c = {resp}
      <3>1. \E count : MaybeCheckpoint(count, s2c = {resp})
        BY <1>5 DEF Complete
      <3>2. ASSUME NEW count, MaybeCheckpoint(count, s2c = {resp})
            PROVE  saving' => s2c = {resp}
        BY <3>2, Zenon DEF MaybeCheckpoint
      <3> QED BY <3>1, <3>2
    <2>3. \A other \in s2c : ~other.recover
      BY <2>1 DEF LockInv
    <2> QED BY <2>1, <2>2, <2>3 DEF LockInv, HeldInv
  <1>6. CASE Crash
    <2>1. s2c' = {} /\ ~draining' /\ out' = {} /\ saving' = FALSE /\ DOMAIN pending_' = {}
      BY <1>6 DEF Crash, RestoreFrom, EmptyMap
    <2> QED BY <2>1 DEF LockInv, HeldInv
  <1>7. ASSUME NEW resp \in s2c, ReplyRecover(resp)
        PROVE  LockInv' /\ HeldInv'
    <2>1. /\ ~draining /\ resp.recover /\ s2c' = {}
          /\ UNCHANGED << draining, out, pending_reqs, saving >>
          /\ DOMAIN pending_' = DOMAIN pending_ \ {resp.seq}
      BY <1>7 DEF ReplyRecover, Released, Erase, serverVars, checkpointVars
    <2>2. ~saving /\ s2c = {resp} /\ out = {}
      BY <2>1 DEF LockInv
    <2>3. ~saving'
      BY <2>1, <2>2, Zenon
    <2> QED BY <2>1, <2>2, <2>3 DEF LockInv, HeldInv
  <1> QED BY <1>1, <1>2, <1>3, <1>4, <1>5, <1>6, <1>7 DEF HttpFailoverNext, Serve

\* What the interceptor, the threads and the held objects are never without.
ProgramInv == IdsInv /\ ThreadInv /\ LockInv /\ HeldInv

\* So a thread always waits for an attempt that is somewhere, and objects are held
\* only while somebody will answer them.
LEMMA ProgramInvariant == HttpFailoverSpec => []ProgramInv
  <1>1. HttpFailoverInit => ProgramInv
    <2> SUFFICES ASSUME HttpFailoverInit PROVE ProgramInv
      OBVIOUS
    <2>1. DOMAIN EmptyMap = {}
      BY DEF EmptyMap
    <2>2. /\ posting = {} /\ posts = {} /\ DOMAIN pending_ = {} /\ DOMAIN replies = {}
          /\ aborted = {} /\ saving = FALSE /\ DOMAIN inflight = {}
          /\ s2c = {} /\ out = {} /\ draining = FALSE
          /\ DOMAIN recovering = {} /\ replay_posts = {} /\ replay_ok = {} /\ served = {}
      BY <2>1 DEF HttpFailoverInit, HttpInit, NetInit, ClientInit, ServerInit
    <2> QED BY <2>2 DEF ProgramInv, IdsInv, usedIds, sending, ThreadInv, AskingInv,
                        RecoveringInv, LockInv, HeldInv
  <1>2. ProgramInv /\ [HttpFailoverNext]_hfvars => ProgramInv'
    <2> SUFFICES ASSUME ProgramInv, [HttpFailoverNext]_hfvars PROVE ProgramInv'
      OBVIOUS
    <2>1. IdsInv /\ ThreadInv /\ LockInv /\ HeldInv /\ AskingInv
      BY DEF ProgramInv, ThreadInv
    <2>2. IdsInv' /\ LockInv' /\ HeldInv'
      BY <2>1, IdsStep, LockStep
    <2>3. ThreadInv'
      BY <2>1, RestThreads, AskingThreads, InterceptorThreads, RecoveringThreads,
         ServerThreads DEF HttpFailoverNext, Serve
    <2> QED BY <2>2, <2>3 DEF ProgramInv
  <1> QED BY <1>1, <1>2, PTL DEF HttpFailoverSpec

\* Between two calls of OnRequest, whatever crashes, replays and abandoned attempts
\* there were, an object is held only for a request that the core has staged.
THEOREM HeldForStaged == HttpFailoverSpec => []HeldOnlyStaged
  <1>1. ProgramInv => HeldOnlyStaged
    BY DEF ProgramInv, LockInv, HeldInv, HeldOnlyStaged, Locked
  <1> QED BY <1>1, ProgramInvariant, PTL

\* A thread inside post(), for its request or for its replay, always has its attempt on
\* its way, held, answered or broken off, also when the server dies under it.
THEOREM ThreadsRemembered == HttpFailoverSpec => []NoThreadForgotten
  <1>1. ProgramInv => NoThreadForgotten
    <2> SUFFICES ASSUME ProgramInv, NEW n \in posting
                 PROVE  \/ n \in DOMAIN recovering /\ LiveReplay(n) \in replay_posts
                        \/ n \in replay_ok
                        \/ Expected(n)
      BY DEF NoThreadForgotten
    <2>1. SomePlace(n) /\ RecoveringInv
      BY DEF ProgramInv, ThreadInv
    <2>2. ReplayLive(n) => n \in DOMAIN recovering
      BY <2>1 DEF ReplayLive, RecoveringInv
    <2> QED BY <2>1, <2>2, LiveReplays DEF SomePlace, Expected, HeldLive
  <1> QED BY <1>1, ProgramInvariant, PTL

-----------------------------------------------------------------------------
(* Refinement of Failover.                                                 *)

\* The variables of Failover that the conversation does not change.
restVars == << checkpoint, recovering, served, replay_posts, crashes, strayed,
               torn >>

\* What they are for Core.
LEMMA RestUnchanged ==
    ASSUME UNCHANGED restVars
    PROVE  UNCHANGED Core!failoverVars
  BY DEF restVars, Core!failoverVars, posted_replays

\* What may be received depends on these alone.
LEMMA AnswersUnchanged ==
    ASSUME UNCHANGED << s2c, pending_, replies >>
    PROVE  answers' = answers
  BY DEF answers

\* send() generates a request.
LEMMA SendCore ==
    ASSUME Send, UNCHANGED recoveryVars
    PROVE  Core!Generate /\ UNCHANGED Core!failoverVars
  <1>1. answers' = answers
    BY AnswersUnchanged DEF Send, httpVars
  <1>2. UNCHANGED Core!serverVars
    BY DEF Send, serverVars, Core!serverVars
  <1>3. Core!generate_request
    BY DEF Send, generate_request, Core!generate_request, NextRequest, Core!NextRequest,
           SendRequest, Core!SendRequest, Put, Core!Put, Committed, Core!Committed,
           RspEvents, Core!RspEvents, ReqEvent, Core!ReqEvent, RspEvent, Core!RspEvent
  <1>4. Core!Cardinality(sending) = Cardinality(sending)
    BY Zenon DEF Cardinality, Core!Cardinality
  <1>5. UNCHANGED Core!failoverVars
    BY RestUnchanged DEF Send, recoveryVars, httpVars, checkpointVars, restVars
  <1> QED BY <1>1, <1>2, <1>3, <1>4, <1>5 DEF Send, WorkerFree, sending, Core!Generate,
                                             Core!outstanding

\* The client and the server rest and at most one response disappears.
LEMMA RestCore ==
    ASSUME UNCHANGED << c2s, clientVars, serverVars, restVars >>,
           NEW x, answers' \subseteq answers, answers \subseteq answers' \cup {x}
    PROVE  Core!FailoverNext \/ UNCHANGED Core!fvars
  <1>1. UNCHANGED << Core!clientVars, Core!serverVars, Core!failoverVars >>
    BY RestUnchanged DEF clientVars, serverVars, Core!clientVars, Core!serverVars
  <1>2. CASE answers' = answers
    BY <1>1, <1>2 DEF Core!fvars, Core!vars, Core!netVars
  <1>3. CASE answers' # answers
    <2>1. x \in answers /\ answers' = answers \ {x}
      BY <1>3
    <2> QED BY <1>1, <2>1 DEF Core!FailoverNext, Core!Lose, Core!LoseResponse
  <1> QED BY <1>2, <1>3

\* post() of a request starts, or returns without an answer: what its thread listened
\* for is lost.
LEMMA PostsCore ==
    ASSUME ThreadInv, LockInv,
           \/ \E n \in sending : FailoverPost(n)
           \/ \E n \in posting : FailoverGiveUp(n)
           \/ UNCHANGED hfvars
    PROVE  Core!FailoverNext \/ UNCHANGED Core!fvars
  <1>1. CASE (\E n \in sending : FailoverPost(n)) \/ UNCHANGED hfvars
    <2>1. UNCHANGED << c2s, s2c, clientVars, serverVars, pending_, replies, restVars >>
      BY <1>1 DEF FailoverPost, Post, hfvars, hvars, httpVars, netVars, checkpointVars,
                  recoveryVars, restVars
    <2> QED BY <2>1, AnswersUnchanged, RestCore
  <1>2. ASSUME NEW n \in posting, FailoverGiveUp(n)
        PROVE  Core!FailoverNext \/ UNCHANGED Core!fvars
    <2>1. /\ UNCHANGED << c2s, s2c, clientVars, serverVars, restVars >>
          /\ DOMAIN pending_' = DOMAIN pending_
          /\ \A m \in DOMAIN pending_ : pending_'[m] = (pending_[m] /\ m # n)
          /\ DOMAIN replies' = DOMAIN replies \ {n}
          /\ \A m \in DOMAIN replies' : replies'[m] = replies[m]
      BY <1>2 DEF FailoverGiveUp, GiveUp, RepliesWithout, Erase, netVars, checkpointVars,
                  recoveryVars, restVars
    <2>2. \A m : HeldLive(m)' <=> HeldLive(m) /\ m # n
      BY <2>1 DEF HeldLive, ThreadInv, AskingInv
    <2>3. n \in DOMAIN replies => ~HeldLive(n)
      BY DEF ThreadInv, OnePlace
    <2>4. answers = {resp \in s2c : resp.recover => HeldLive(resp.seq)}
                        \cup {replies[m] : m \in DOMAIN replies}
      BY DEF answers, HeldLive
    <2>5. answers' = {resp \in s2c : resp.recover => HeldLive(resp.seq)'}
                         \cup {replies'[m] : m \in DOMAIN replies'}
      BY <2>1 DEF answers, HeldLive
    <2>6. answers' \subseteq answers
      BY <2>1, <2>2, <2>4, <2>5
    <2>7. CASE n \in DOMAIN replies
      <3>1. answers \subseteq answers' \cup {replies[n]}
        BY <2>1, <2>2, <2>3, <2>4, <2>5, <2>7
      <3> QED BY <2>1, <2>6, <3>1, RestCore
    <2>8. CASE n \notin DOMAIN replies
      <3>1. ASSUME NEW r \in answers, NEW q \in answers, r \notin answers', q \notin answers'
            PROVE  r = q
        <4>1. r \in s2c /\ q \in s2c /\ r.recover /\ q.recover
          BY <2>1, <2>4, <2>5, <2>8, <3>1
        <4> QED BY <4>1 DEF LockInv
      <3>2. \E x : answers \subseteq answers' \cup {x}
        BY <3>1
      <3> QED BY <2>1, <2>6, <3>2, RestCore
    <2> QED BY <2>7, <2>8
  <1> QED BY <1>1, <1>2

\* A response is handed out, or skipped; a 503 is written.
LEMMA HandOutCore ==
    ASSUME ThreadInv, LockInv,
           \/ \E resp \in s2c : Complete(resp) /\ UNCHANGED recoveryVars
           \/ \E resp \in s2c : ReplyRecover(resp)
    PROVE  Core!FailoverNext \/ UNCHANGED Core!fvars
  <1>0. answers = {resp \in s2c : resp.recover => HeldLive(resp.seq)}
                      \cup {replies[m] : m \in DOMAIN replies}
    BY DEF answers, HeldLive
  <1>5. answers' = {resp \in s2c' : resp.recover => HeldLive(resp.seq)'}
                        \cup {replies'[m] : m \in DOMAIN replies'}
    BY DEF answers, HeldLive
  <1>1. ASSUME NEW resp \in s2c, resp.seq \in DOMAIN pending_, replies' = RepliesWith(resp)
        PROVE  \/ HeldLive(resp.seq) /\ replies' = Put(replies, resp.seq, resp)
                  /\ resp.seq \notin DOMAIN replies
               \/ ~HeldLive(resp.seq) /\ replies' = replies
    BY <1>1 DEF RepliesWith, ThreadInv, AskingInv, Asks, OnePlace, HeldLive
  <1>2. ASSUME NEW resp \in s2c, resp.seq \notin DOMAIN replies,
               replies' = Put(replies, resp.seq, resp)
        PROVE  {replies'[m] : m \in DOMAIN replies'} = {replies[m] : m \in DOMAIN replies} \cup {resp}
    BY <1>2 DEF Put
  <1>3. ASSUME NEW resp \in s2c, Complete(resp), UNCHANGED recoveryVars
        PROVE  Core!FailoverNext \/ UNCHANGED Core!fvars
    <2>1. UNCHANGED << c2s, clientVars, serverVars, restVars >>
      BY <1>3 DEF Complete, recoveryVars, restVars
    <2>2. \A other \in s2c : ~other.recover
      BY <1>3 DEF Complete, LockInv
    <2>3. s2c' = s2c \ {resp}
      BY <1>3 DEF Complete
    <2>4. answers = s2c \cup {replies[m] : m \in DOMAIN replies}
      BY <1>0, <2>2
    <2>5. answers' = (s2c \ {resp}) \cup {replies'[m] : m \in DOMAIN replies'}
      BY <1>5, <2>2, <2>3
    <2>6. CASE replies' = replies
      BY <2>1, <2>4, <2>5, <2>6, RestCore
    <2>7. CASE replies' = Put(replies, resp.seq, resp) /\ resp.seq \notin DOMAIN replies
      BY <1>2, <2>1, <2>4, <2>5, <2>7, RestCore
    <2> QED BY <1>1, <1>3, <2>6, <2>7 DEF Complete
  <1>4. ASSUME NEW resp \in s2c, ReplyRecover(resp)
        PROVE  Core!FailoverNext \/ UNCHANGED Core!fvars
    <2>1. /\ UNCHANGED << c2s, clientVars, serverVars, restVars >>
          /\ s2c' = {} /\ replies' = RepliesWith(resp) /\ resp.recover
      BY <1>4 DEF ReplyRecover, recoveryVars, checkpointVars, restVars
    <2>2. s2c = {resp} /\ resp.seq \in DOMAIN pending_
      BY <2>1 DEF LockInv
    <2>3. CASE ~HeldLive(resp.seq) /\ replies' = replies
      BY <1>0, <1>5, <2>1, <2>2, <2>3, RestCore
    <2>4. CASE /\ HeldLive(resp.seq) /\ replies' = Put(replies, resp.seq, resp)
               /\ resp.seq \notin DOMAIN replies
      BY <1>0, <1>5, <1>2, <2>1, <2>2, <2>4, RestCore
    <2> QED BY <1>1, <2>1, <2>2, <2>3, <2>4
  <1> QED BY <1>3, <1>4

\* post() returns with the response.
LEMMA ReceiveCore ==
    ASSUME ThreadInv, NEW n \in DOMAIN replies, FailoverReceive(n)
    PROVE  \E resp \in answers : Core!FailoverDeliverResponse(resp)
  <1> DEFINE resp == replies[n]
  <1>1. /\ UNCHANGED << c2s, s2c, serverVars, pending_, restVars >>
        /\ on_response(resp) \/ on_duplicate_response(resp)
        /\ DOMAIN replies' = DOMAIN replies \ {n}
        /\ \A m \in DOMAIN replies' : replies'[m] = replies[m]
        /\ ~resp.recover
    BY DEF FailoverReceive, Receive, Erase, netVars, AsksToRecover, checkpointVars,
           recoveryVars, restVars
  <1>2. resp \in answers /\ resp.seq \notin DOMAIN recovering
    BY DEF ThreadInv, AskingInv, Asks, answers
  <1>3. answers' = answers \/ answers' = answers \ {resp}
    <2>1. answers' \subseteq answers /\ answers \subseteq answers' \cup {resp}
      BY <1>1 DEF answers
    <2> QED BY <2>1
  <1> HIDE DEF resp
  <1>4. UNCHANGED << Core!serverVars, Core!failoverVars >>
    BY <1>1, RestUnchanged DEF serverVars, Core!serverVars
  <1>5. Core!on_response(resp) \/ Core!on_duplicate_response(resp)
    <2>1. CASE on_duplicate_response(resp)
      BY <2>1 DEF on_duplicate_response, Core!on_duplicate_response, clientVars,
                  Core!clientVars
    <2>2. CASE on_response(resp)
      <3>1. HashDisagrees(resp) <=> Core!HashDisagrees(resp)
        BY DEF HashDisagrees, Core!HashDisagrees, NoHash, Core!NoHash
      <3>2. AdvanceBase <=> Core!AdvanceBase
        BY DEF AdvanceBase, Core!AdvanceBase
      <3> QED BY <2>2, <3>1, <3>2 DEF on_response, Core!on_response, Put, Core!Put,
                                     Erase, Core!Erase
    <2> QED BY <1>1, <2>1, <2>2
  <1> QED BY <1>1, <1>2, <1>3, <1>4, <1>5 DEF Core!FailoverDeliverResponse,
                                              Core!DeliverResponse, Core!DueResponse

\* OnRequest hands an attempt to the core.  The recovery signal it gets for an attempt
\* that was given up is one nobody will receive.
LEMMA OnRequestCore ==
    ASSUME IdsInv, LockInv, NEW p \in posts, OnRequest(p), UNCHANGED recoveryVars
    PROVE  \/ \E req \in c2s : Core!DeliverRequest(req) /\ UNCHANGED Core!failoverVars
           \/ UNCHANGED Core!fvars
  <1>0. /\ s2c = {} /\ UNCHANGED << c2s, clientVars, replies, restVars >>
        /\ on_request(RequestOf(p.seq)) /\ pending_' = Hold(p)
    BY DEF OnRequest, Locked, checkpointVars, recoveryVars, restVars
  <1>1. UNCHANGED << Core!clientVars, Core!failoverVars >>
    BY <1>0, RestUnchanged DEF clientVars, Core!clientVars
  <1> SUFFICES ASSUME NEW req \in c2s, on_request(req)
               PROVE  Core!on_request(req) \/ UNCHANGED << answers, Core!serverVars >>
    BY <1>0, <1>1, RequestFound DEF Core!DeliverRequest, Core!DueRequest, Core!fvars,
                                    Core!vars, Core!netVars
  <1>2. ASSUME NEW r, ~r.recover, s2c' = s2c \cup {r}
        PROVE  answers' = answers \cup {r}
    BY <1>0, <1>2 DEF answers
  <1>3. needs_recover(req) <=> Core!needs_recover(req)
    BY DEF needs_recover, Core!needs_recover, Ids, Core!Ids
  <1>4. release_acked(req) = Core!release_acked(req)
    BY DEF release_acked, Core!release_acked, Ids, Core!Ids, Erase, Core!Erase
  <1>5. \A n, d, b, h : /\ make_response(n, d, b, h) = Core!make_response(n, d, b, h)
                        /\ ~make_response(n, d, b, h).recover
    <2>1. \A n, d, b, h : make_response(n, d, b, h) = Core!make_response(n, d, b, h)
      BY Zenon DEF make_response, Core!make_response, NoHash, Core!NoHash
    <2>2. \A n, d, b, h : ~make_response(n, d, b, h).recover
      BY DEF make_response
    <2> QED BY <2>1, <2>2
  <1>6. CASE AskForReplay(req)
    <2> DEFINE r == RecoverSignal(req.seq)
    <2>1. r = Core!RecoverSignal(req.seq) /\ r.recover
      BY DEF RecoverSignal, Core!RecoverSignal, NoPayload, Core!NoPayload, NoHash, Core!NoHash
    <2>2. s2c' = {r} /\ ~draining /\ needs_recover(req) /\ UNCHANGED Core!serverVars
      BY <1>0, <1>6 DEF AskForReplay, SendResponses, serverVars, Core!serverVars
    <2> HIDE DEF r
    <2>3. answers' = answers \/ answers' = answers \cup {r}
      BY <1>0, <2>1, <2>2 DEF answers
    <2>4. CASE answers' = answers \cup {r}
      BY <1>3, <2>1, <2>2, <2>4 DEF Core!AskForReplay, Core!SendResponses, Core!on_request
    <2> QED BY <2>2, <2>3, <2>4
  <1>7. CASE ResendBuffered(req)
    <2> DEFINE r == make_response(req.seq, resp_buffer[req.seq], FALSE, s_req_hash)
    <2>1. r = Core!make_response(req.seq, resp_buffer[req.seq], FALSE, s_req_hash)
      BY <1>5
    <2>2. s2c' = s2c \cup {r}
      BY <1>7 DEF ResendBuffered, SendResponses
    <2> HIDE DEF r
    <2>3. answers' = answers \cup {r}
      BY <1>2, <1>5, <2>2 DEF r
    <2>4. Core!ResendBuffered(req)
      BY <1>3, <1>4, <1>7, <2>1, <2>3 DEF ResendBuffered, Core!ResendBuffered,
                                          Core!SendResponses
    <2> QED BY <2>4 DEF Core!on_request
  <1>8. CASE ReprocessAwaiting(req)
    <2> DEFINE a == AppResult(req.seq)
               r == make_response(req.seq, a, FALSE, s_req_hash)
    <2>1. r = Core!make_response(req.seq, a, FALSE, s_req_hash)
      BY <1>5
    <2>2. a = Core!AppResult(req.seq)
      BY DEF AppResult, Core!AppResult, CountOf, Core!CountOf
    <2>3. s2c' = s2c \cup {r} /\ resp_buffer' = Put(release_acked(req), req.seq, a)
      BY <1>8 DEF ReprocessAwaiting, SendResponses
    <2>4. \A m, n : Bump(m, n) = Core!Bump(m, n)
      BY DEF Bump, Core!Bump, Put, Core!Put, CountOf, Core!CountOf
    <2>5. \A m, n, v : Put(m, n, v) = Core!Put(m, n, v)
      BY DEF Put, Core!Put
    <2> HIDE DEF r, a
    <2>6. answers' = answers \cup {r}
      BY <1>2, <1>5, <2>3 DEF r
    <2>7. Core!ReprocessAwaiting(req)
      BY <1>3, <1>4, <1>8, <2>1, <2>2, <2>3, <2>4, <2>5, <2>6
         DEF ReprocessAwaiting, Core!ReprocessAwaiting, Core!SendResponses, LeftAwaiting,
             Core!LeftAwaiting
    <2> QED BY <2>7 DEF Core!on_request
  <1>9. CASE AcknowledgeOnly(req)
    <2> DEFINE r == make_response(req.seq, NoPayload, TRUE, s_req_hash)
    <2>1. r = Core!make_response(req.seq, Core!NoPayload, TRUE, s_req_hash)
      BY <1>5 DEF NoPayload, Core!NoPayload
    <2>2. s2c' = s2c \cup {r}
      BY <1>9 DEF AcknowledgeOnly, SendResponses
    <2> HIDE DEF r
    <2>3. answers' = answers \cup {r}
      BY <1>2, <1>5, <2>2 DEF r
    <2>4. Core!AcknowledgeOnly(req)
      BY <1>3, <1>4, <1>9, <2>1, <2>3 DEF AcknowledgeOnly, Core!AcknowledgeOnly,
                                          Core!SendResponses, LeftAwaiting, Core!LeftAwaiting
    <2> QED BY <2>4 DEF Core!on_request
  <1>10. CASE Stage(req)
    <2>1. answers' = answers
      BY <1>0, <1>10 DEF Stage, answers
    <2>2. Core!Stage(req)
      BY <1>3, <1>4, <1>10, <2>1 DEF Stage, Core!Stage, Put, Core!Put
    <2> QED BY <2>2 DEF Core!on_request
  <1> QED BY <1>6, <1>7, <1>8, <1>9, <1>10 DEF on_request

\* The commit loop of the core.
LEMMA CommitCore ==
    ASSUME LockInv, CoreCommit, UNCHANGED recoveryVars
    PROVE  Core!Commit /\ UNCHANGED Core!failoverVars
  <1>0. UNCHANGED Core!failoverVars
    BY RestUnchanged DEF CoreCommit, httpVars, checkpointVars, recoveryVars, restVars
  <1>1. UNCHANGED << c2s, Core!clientVars, replies, pending_ >>
    BY DEF CoreCommit, clientVars, Core!clientVars, httpVars
  <1>2. CASE CommitDone
    <2>1. answers' = answers \cup out
      BY <1>1, <1>2 DEF CommitDone, SendResponses, answers, LockInv
    <2>2. Core!CommitDone
      BY <1>2, <2>1 DEF CommitDone, Core!CommitDone, Core!SendResponses, NextInOrder,
                        Core!NextInOrder
    <2> QED BY <1>0, <1>1, <2>2 DEF Core!Commit
  <1>3. CASE CommitNext
    <2> DEFINE n == committed_upto + 1
               r == pending_reqs[n]
               h == s_history \o EventsOf(r)
               a == AppResult(n)
    <2>1. h = s_history \o Core!EventsOf(r)
      BY DEF EventsOf, Core!EventsOf, Committed, Core!Committed, RspEvents, Core!RspEvents,
             RspEvent, Core!RspEvent, ReqEvent, Core!ReqEvent
    <2>2. a = Core!AppResult(n)
      BY DEF AppResult, Core!AppResult, CountOf, Core!CountOf
    <2>3. \A m, k, v : Put(m, k, v) = Core!Put(m, k, v)
      BY DEF Put, Core!Put
    <2>4. \A m, k : Bump(m, k) = Core!Bump(m, k)
      BY DEF Bump, Core!Bump, Put, Core!Put, CountOf, Core!CountOf
    <2>5. \A m, k : Erase(m, k) = Core!Erase(m, k)
      BY DEF Erase, Core!Erase
    <2>6. make_response(n, a, FALSE, s_req_hash') = Core!make_response(n, a, FALSE, s_req_hash')
      BY DEF make_response, Core!make_response, NoHash, Core!NoHash
    <2>7. answers' = answers
      BY <1>1, <1>3, AnswersUnchanged DEF CommitNext
    <2>8. /\ draining /\ n \in DOMAIN pending_reqs
          /\ pending_reqs' = Erase(pending_reqs, {n})
          /\ s_history' = h
          /\ s_req_hash' = Put(s_req_hash, n, h)
          /\ s_mismatch' = IF r.hash # h THEN s_mismatch \cup {n} ELSE s_mismatch
          /\ committed_upto' = n
          /\ app_calls' = Bump(app_calls, n)
          /\ app_runs' = Bump(app_runs, n)
          /\ resp_buffer' = Put(resp_buffer, n, a)
          /\ out' = out \cup {make_response(n, a, FALSE, s_req_hash')}
          /\ UNCHANGED << awaiting, draining >>
      BY <1>3 DEF CommitNext, NextInOrder
    <2> HIDE DEF h, a
    <2>9. Core!CommitNext
      BY <2>1, <2>2, <2>3, <2>4, <2>5, <2>6, <2>7, <2>8 DEF Core!CommitNext, Core!NextInOrder
    <2> QED BY <1>0, <1>1, <2>9 DEF Core!Commit
  <1> QED BY <1>2, <1>3 DEF CoreCommit

\* The checkpoint file is written, or spoilt.
LEMMA CheckpointCore ==
    ASSUME LockInv, crashes \in 0 .. MaxCrashes,
           (WriteCheckpoint /\ UNCHANGED recoveryVars) \/ WriteFails
    PROVE  Core!FailoverNext \/ UNCHANGED Core!fvars
  <1>1. /\ saving /\ UNCHANGED << c2s, s2c, clientVars, serverVars, pending_, replies,
                                  recovering, served, replay_posts, crashes, strayed,
                                  torn >>
        /\ checkpoint' \in {checkpoint, NoCheckpoint, Snapshot}
    BY DEF WriteCheckpoint, WriteFails, netVars, recoveryVars
  <1>2. ~draining /\ crashes < MaxCrashes + 1
    BY <1>1, HttpCrashAssumption DEF LockInv
  <1>3. UNCHANGED << Core!vars, recovering, served, posted_replays, crashes, strayed,
                     torn >>
    BY <1>1, AnswersUnchanged DEF clientVars, serverVars, posted_replays, Core!vars,
                                  Core!netVars, Core!clientVars, Core!serverVars
  <1>4. CASE checkpoint' = checkpoint
    BY <1>3, <1>4 DEF Core!fvars, Core!failoverVars
  <1>5. CASE checkpoint' = NoCheckpoint
    BY <1>2, <1>3, <1>5 DEF NoCheckpoint, EmptyMap, Core!NoCheckpoint, Core!EmptyMap,
                            Core!SpoilCheckpoint, Core!FailoverNext
  <1>6. CASE checkpoint' = Snapshot
    BY <1>2, <1>3, <1>6 DEF Snapshot, Core!Snapshot, Core!WriteCheckpoint, Core!FailoverNext
  <1> QED BY <1>1, <1>4, <1>5, <1>6

\* The server dies: what it had not written is lost.
LEMMA CrashCore ==
    ASSUME Crash, crashes \in 0 .. MaxCrashes
    PROVE  Core!Crash
  <1>1. crashes < MaxCrashes + 1 /\ crashes' = crashes + 1
    BY HttpCrashAssumption DEF Crash
  <1>2. Core!RestoreFrom(checkpoint)
    BY DEF Crash, RestoreFrom, Core!RestoreFrom, EmptyMap, Core!EmptyMap
  <1>3. answers' \subseteq answers /\ posted_replays' \subseteq posted_replays
    BY DEF Crash, answers, posted_replays
  <1>4. UNCHANGED << c2s, Core!clientVars, s_mismatch, app_runs, checkpoint, recovering,
                     served, strayed, torn >>
    BY DEF Crash, clientVars, Core!clientVars
  <1> QED BY <1>1, <1>2, <1>3, <1>4 DEF Core!Crash

\* send() gets a 503.
LEMMA ReceiveRecoverCore ==
    ASSUME ThreadInv, LockInv, NEW n \in DOMAIN replies, ReceiveRecover(n)
    PROVE  \E resp \in answers : Core!StartRecovery(resp)
  <1> DEFINE resp == replies[n]
  <1>1. /\ UNCHANGED << c2s, s2c, clientVars, serverVars, pending_, checkpoint, served,
                        replay_posts, crashes, strayed, torn >>
        /\ resp.recover
        /\ recovering' = Put(recovering, n, build_replay(resp.recover_from))
        /\ DOMAIN replies' = DOMAIN replies \ {n}
        /\ \A m \in DOMAIN replies' : replies'[m] = replies[m]
    BY DEF ReceiveRecover, Erase, netVars, AsksToRecover, checkpointVars
  <1>2. /\ resp.seq = n /\ n \in sending /\ n \notin DOMAIN recovering /\ resp \in answers
        /\ ~HeldLive(n)
    BY DEF ThreadInv, AskingInv, Asks, OnePlace, answers
  <1>3. answers' = {other \in answers : ~(other.recover /\ other.seq = n)}
    <2>1. \A m \in DOMAIN replies : replies[m].seq = m
      BY DEF ThreadInv, AskingInv
    <2>2. ASSUME NEW other \in answers', other.recover
          PROVE  other \in answers /\ other.seq # n
      <3>1. CASE other \in s2c
        BY <1>1, <1>2, <2>1, <2>2, <3>1 DEF answers, HeldLive
      <3>2. CASE \E m \in DOMAIN replies' : other = replies'[m]
        BY <1>1, <2>1, <3>2 DEF answers
      <3> QED BY <1>1, <2>2, <3>1, <3>2 DEF answers
    <2>3. answers' \subseteq answers
      BY <1>1 DEF answers
    <2>4. ASSUME NEW other \in answers, ~(other.recover /\ other.seq = n)
          PROVE  other \in answers'
      <3>1. other # resp
        BY <1>1, <1>2, <2>4
      <3> QED BY <1>1, <2>4, <3>1 DEF answers
    <2> QED BY <2>2, <2>3, <2>4
  <1> HIDE DEF resp
  <1>4. recovering' = Core!Put(recovering, n, Core!build_replay(resp.recover_from))
    BY <1>1 DEF Put, Core!Put, build_replay, Core!build_replay
  <1>5. UNCHANGED << Core!clientVars, Core!serverVars, posted_replays >>
    BY <1>1 DEF clientVars, serverVars, Core!clientVars, Core!serverVars, posted_replays
  <1> QED BY <1>1, <1>2, <1>3, <1>4, <1>5 DEF Core!StartRecovery, Core!outstanding, sending

\* recover() posts its replay, gives up, or gets its 200.
LEMMA ReplayPostsCore ==
    ASSUME IdsInv, ThreadInv, NEW n \in DOMAIN recovering,
           PostReplay(n) \/ GiveUpReplay(n) \/ EndRecovery(n)
    PROVE  Core!FailoverNext \/ UNCHANGED Core!fvars
  <1>0. AskingInv /\ RecoveringInv
    BY DEF ThreadInv
  <1>1. UNCHANGED << c2s, s2c, clientVars, serverVars, pending_, replies, checkpoint,
                     crashes, strayed, torn >>
    BY DEF PostReplay, GiveUpReplay, EndRecovery, netVars, checkpointVars
  <1>2. UNCHANGED << Core!vars, checkpoint, crashes, strayed, torn >>
    BY <1>1, AnswersUnchanged DEF clientVars, serverVars, Core!vars, Core!netVars,
                                  Core!clientVars, Core!serverVars
  <1>3. CASE PostReplay(n)
    <2>1. /\ replay_posts' = replay_posts \cup {LiveReplay(n)}
          /\ UNCHANGED << recovering, served >>
      BY <1>3 DEF PostReplay
    <2>2. posted_replays' = posted_replays \cup {recovering[n]}
      <3>1. LiveReplay(n).rp = recovering[n]
        BY DEF LiveReplay
      <3> HIDE DEF LiveReplay
      <3> QED BY <2>1, <3>1 DEF posted_replays
    <2>3. CASE recovering[n] \in posted_replays
      BY <1>2, <2>1, <2>2, <2>3 DEF Core!fvars, Core!failoverVars
    <2>4. CASE recovering[n] \notin posted_replays
      BY <1>2, <2>1, <2>2, <2>4 DEF Core!PostReplay, Core!FailoverNext
    <2> QED BY <2>3, <2>4
  <1>4. CASE GiveUpReplay(n)
    <2>1. /\ \/ replay_posts' = replay_posts \ {LiveReplay(n)}
             \/ /\ LiveReplay(n) \in replay_posts
                /\ replay_posts' = (replay_posts \ {LiveReplay(n)}) \cup {SupersededReplay(n)}
          /\ UNCHANGED << recovering, served >>
      BY <1>4 DEF GiveUpReplay
    <2>2. LiveReplay(n).rp = recovering[n] /\ SupersededReplay(n).rp = recovering[n]
      BY DEF LiveReplay, SupersededReplay
    <2>3. posted_replays' = posted_replays \/ posted_replays' = posted_replays \ {recovering[n]}
      <3>1. posted_replays' \subseteq posted_replays
        BY <2>1, <2>2 DEF posted_replays
      <3>2. posted_replays \subseteq posted_replays' \cup {recovering[n]}
        BY <2>1, <2>2 DEF posted_replays
      <3> QED BY <3>1, <3>2
    <2>4. CASE posted_replays' = posted_replays
      BY <1>2, <2>1, <2>4 DEF Core!fvars, Core!failoverVars
    <2>5. CASE /\ posted_replays' = posted_replays \ {recovering[n]}
               /\ recovering[n] \in posted_replays
      BY <1>2, <2>1, <2>5 DEF Core!LoseReplay, Core!FailoverNext
    <2> QED BY <2>3, <2>4, <2>5
  <1>5. CASE EndRecovery(n)
    <2>1. /\ n \in replay_ok /\ recovering' = Erase(recovering, {n}) /\ served' = served \ {n}
          /\ UNCHANGED replay_posts
      BY <1>5 DEF EndRecovery
    <2>2. n \in served /\ inflight[n] \in c2s
      BY <1>0, <2>1 DEF RecoveringInv, AskingInv, IdsInv
    <2>3. recovering' = Core!Erase(recovering, {n}) /\ UNCHANGED posted_replays
      BY <2>1 DEF Erase, Core!Erase, posted_replays
    <2>4. Core!SendRequest(inflight[n])
      BY <1>1, <2>2 DEF Core!SendRequest
    <2>5. UNCHANGED << answers, Core!clientVars, Core!serverVars >>
      BY <1>2 DEF Core!vars, Core!netVars
    <2>6. Core!EndRecovery(n)
      BY <1>2, <2>1, <2>2, <2>3, <2>4, <2>5 DEF Core!EndRecovery
    <2> QED BY <2>2, <2>6 DEF Core!FailoverNext
  <1> QED BY <1>3, <1>4, <1>5

\* OnReplay ingests what it has got of a replay.
LEMMA OnReplayCore ==
    ASSUME NEW p \in replay_posts, NEW got \in {p.rp} \cup ReadShort(p.rp), OnReplay(p, got)
    PROVE  \E rp \in posted_replays : Core!DeliverReplay(rp)
  <1> DEFINE rp == p.rp
  <1>1. /\ ~draining /\ ingest_replay(got)
        /\ \/ replay_posts' = replay_posts \ {p}
           \/ replay_posts' = replay_posts
        /\ served' = served \cup {n \in DOMAIN recovering : recovering[n] = rp}
        /\ torn' = IF got \in CleanCuts(rp) THEN torn ELSE torn + 1
        /\ torn' <= MaxTorn
        /\ strayed' = (strayed \/ got \notin CleanCuts(rp) \/ LeavesGap(got))
        /\ UNCHANGED << c2s, s2c, clientVars, pending_, replies, checkpoint, recovering,
                        crashes >>
    BY DEF OnReplay, Locked, netVars, checkpointVars
  <1>2. rp \in posted_replays
    BY DEF posted_replays
  <1>3. posted_replays' = posted_replays \/ posted_replays' = posted_replays \ {rp}
    <2>1. posted_replays' \subseteq posted_replays
      BY <1>1 DEF posted_replays
    <2>2. posted_replays \subseteq posted_replays' \cup {rp}
      BY <1>1 DEF posted_replays
    <2> QED BY <2>1, <2>2
  <1>4. got \in {rp} \cup ReadShort(rp)
    OBVIOUS
  <1> HIDE DEF rp
  <1>5. UNCHANGED << Core!netVars, Core!clientVars >>
    BY <1>1, AnswersUnchanged DEF clientVars, Core!clientVars, Core!netVars
  <1>6. got \in Core!ReadAs(rp)
    <2>1. ReadShort(rp) = Core!ReadShort(rp)
      BY DEF ReadShort, Core!ReadShort, Damaged, Core!Damaged, ReqEvent, Core!ReqEvent
    <2> QED BY <1>4, <2>1 DEF Core!ReadAs
  <1>7. CleanCuts(rp) = Core!CleanCuts(rp)
    BY DEF CleanCuts, Core!CleanCuts
  <1>8. LeavesGap(got) <=> Core!LeavesGap(got)
    BY DEF LeavesGap, Core!LeavesGap, Unseen, Core!Unseen
  <1>9. Core!ingest_replay(got)
    BY <1>1 DEF ingest_replay, Core!ingest_replay, Unseen, Core!Unseen, RequestsIn,
                Core!RequestsIn, ResponsesIn, Core!ResponsesIn, Frontier, Core!Frontier,
                LeftUnanswered, Core!LeftUnanswered, ReqEvent, Core!ReqEvent, RspEvent,
                Core!RspEvent, Erase, Core!Erase, LastAt, Core!LastAt
  <1>10. Core!OnReplay(rp, got)
    BY <1>1, <1>7, <1>8, <1>9 DEF Core!OnReplay
  <1> QED BY <1>1, <1>2, <1>3, <1>5, <1>6, <1>10 DEF Core!DeliverReplay

\* The bound on the crashes holds.
LEMMA CrashesBounded == HttpFailoverSpec => [](crashes \in 0 .. MaxCrashes)
  <1>1. HttpFailoverInit => crashes \in 0 .. MaxCrashes
    BY HttpCrashAssumption DEF HttpFailoverInit
  <1>2. crashes \in 0 .. MaxCrashes /\ [HttpFailoverNext]_hfvars => (crashes \in 0 .. MaxCrashes)'
    <2> SUFFICES ASSUME crashes \in 0 .. MaxCrashes, [HttpFailoverNext]_hfvars
                 PROVE  crashes' \in 0 .. MaxCrashes
      OBVIOUS
    <2>1. CASE Crash
      BY <2>1, HttpCrashAssumption DEF Crash
    <2>2. CASE UNCHANGED crashes
      BY <2>2
    <2> QED BY <2>1, <2>2 DEF HttpFailoverNext, hfvars, recoveryVars, FailoverPost,
                             FailoverGiveUp, FailoverReceive, Serve, WriteFails,
                             ReplyRecover, ReceiveRecover, PostReplay, GiveUpReplay,
                             OnReplay, EndRecovery
  <1> QED BY <1>1, <1>2, PTL DEF HttpFailoverSpec

\* Every step of the programs is one of Failover, or changes nothing there.
LEMMA CoreSpec == HttpFailoverSpec => Core!FailoverSpec
  <1>1. HttpFailoverInit => Core!FailoverInit
    BY DEF HttpFailoverInit, HttpInit, NetInit, ClientInit, ServerInit, EmptyMap,
           NoCheckpoint, answers, posted_replays, Core!FailoverInit, Core!Init,
           Core!NetInit, Core!ClientInit, Core!ServerInit, Core!EmptyMap,
           Core!NoCheckpoint
  <1>2. ProgramInv /\ crashes \in 0 .. MaxCrashes /\ [HttpFailoverNext]_hfvars
            => [Core!FailoverNext]_Core!fvars
    <2> SUFFICES ASSUME ProgramInv, crashes \in 0 .. MaxCrashes, [HttpFailoverNext]_hfvars
                 PROVE  Core!FailoverNext \/ UNCHANGED Core!fvars
      OBVIOUS
    <2>0. IdsInv /\ ThreadInv /\ LockInv
      BY DEF ProgramInv
    <2>1. CASE Send /\ UNCHANGED recoveryVars
      BY <2>1, SendCore DEF Core!FailoverNext
    <2>2. CASE \E n \in DOMAIN replies : FailoverReceive(n)
      BY <2>0, <2>2, ReceiveCore DEF Core!FailoverNext
    <2>3. CASE \E p \in posts : OnRequest(p) /\ UNCHANGED recoveryVars
      BY <2>0, <2>3, OnRequestCore DEF Core!FailoverNext
    <2>4. CASE CoreCommit /\ UNCHANGED recoveryVars
      BY <2>0, <2>4, CommitCore DEF Core!FailoverNext
    <2>5. CASE \/ \E n \in sending : FailoverPost(n)
               \/ \E n \in posting : FailoverGiveUp(n)
               \/ UNCHANGED hfvars
      BY <2>0, <2>5, PostsCore
    <2>6. CASE \/ \E resp \in s2c : Complete(resp) /\ UNCHANGED recoveryVars
               \/ \E resp \in s2c : ReplyRecover(resp)
      BY <2>0, <2>6, HandOutCore
    <2>7. CASE (WriteCheckpoint /\ UNCHANGED recoveryVars) \/ WriteFails
      BY <2>0, <2>7, CheckpointCore
    <2>8. CASE Crash
      BY <2>8, CrashCore DEF Core!FailoverNext
    <2>9. CASE \E n \in DOMAIN replies : ReceiveRecover(n)
      BY <2>0, <2>9, ReceiveRecoverCore DEF Core!FailoverNext
    <2>10. CASE \E n \in DOMAIN recovering : PostReplay(n) \/ GiveUpReplay(n) \/ EndRecovery(n)
      BY <2>0, <2>10, ReplayPostsCore
    <2>11. CASE \E p \in replay_posts :
                    \E got \in {p.rp} \cup ReadShort(p.rp) : OnReplay(p, got)
      BY <2>11, OnReplayCore DEF Core!FailoverNext
    <2> QED BY <2>1, <2>2, <2>3, <2>4, <2>5, <2>6, <2>7, <2>8, <2>9, <2>10, <2>11
            DEF HttpFailoverNext, Serve
  <1> QED BY <1>1, <1>2, ProgramInvariant, CrashesBounded, PTL
          DEF HttpFailoverSpec, Core!FailoverSpec

\* Two instances of Failover, one specification.
LEMMA SameSpec == Core!FailoverSpec => Failing!FailoverSpec
  <1>1. Core!FailoverInit => Failing!FailoverInit
    BY DEF Core!FailoverInit, Core!Init, Core!NetInit, Core!ClientInit, Core!ServerInit,
           Core!EmptyMap, Core!NoCheckpoint, Failing!FailoverInit, Failing!Init,
           Failing!NetInit, Failing!ClientInit, Failing!ServerInit, Failing!EmptyMap,
           Failing!NoCheckpoint
  <1>2. [Core!FailoverNext]_Core!fvars => [Failing!FailoverNext]_Failing!fvars
    BY DEF Core!vars, Failing!vars, Core!netVars, Failing!netVars, Core!clientVars,
           Failing!clientVars, Core!serverVars, Failing!serverVars, Core!Generate,
           Failing!Generate, Core!outstanding, Failing!outstanding,
           Core!generate_request, Failing!generate_request, Core!NextRequest,
           Failing!NextRequest, Core!Committed, Failing!Committed, Core!RspEvents,
           Failing!RspEvents, Core!RspEvent, Failing!RspEvent, Core!ReqEvent,
           Failing!ReqEvent, Core!Put, Failing!Put, Core!SendRequest,
           Failing!SendRequest, Core!Cardinality, Failing!Cardinality, Core!Retransmit,
           Failing!Retransmit, Core!DeliverRequest, Failing!DeliverRequest,
           Core!DueRequest, Failing!DueRequest, Core!on_request, Failing!on_request,
           Core!AskForReplay, Failing!AskForReplay, Core!needs_recover,
           Failing!needs_recover, Core!Ids, Failing!Ids, Core!SendResponses,
           Failing!SendResponses, Core!RecoverSignal, Failing!RecoverSignal,
           Core!NoPayload, Failing!NoPayload, Core!NoHash, Failing!NoHash,
           Core!ResendBuffered, Failing!ResendBuffered, Core!release_acked,
           Failing!release_acked, Core!Erase, Failing!Erase, Core!make_response,
           Failing!make_response, Core!ReprocessAwaiting, Failing!ReprocessAwaiting,
           Core!LeftAwaiting, Failing!LeftAwaiting, Core!AppResult, Failing!AppResult,
           Core!CountOf, Failing!CountOf, Core!Bump, Failing!Bump, Core!AcknowledgeOnly,
           Failing!AcknowledgeOnly, Core!Stage, Failing!Stage, Core!Commit,
           Failing!Commit, Core!CommitNext, Failing!CommitNext, Core!CommitDone,
           Failing!CommitDone, Core!NextInOrder, Failing!NextInOrder, Core!EventsOf,
           Failing!EventsOf, Core!DeliverResponse, Failing!DeliverResponse,
           Core!DueResponse, Failing!DueResponse, Core!on_response, Failing!on_response,
           Core!HashDisagrees, Failing!HashDisagrees, Core!AdvanceBase,
           Failing!AdvanceBase, Core!on_duplicate_response,
           Failing!on_duplicate_response, Core!Lose, Failing!Lose, Core!LoseRequest,
           Failing!LoseRequest, Core!LoseResponse, Failing!LoseResponse, Core!fvars,
           Failing!fvars, Core!failoverVars, Failing!failoverVars, Core!FailoverNext,
           Failing!FailoverNext, Core!FailoverResend, Failing!FailoverResend,
           Core!FailoverDeliverResponse, Failing!FailoverDeliverResponse,
           Core!WriteCheckpoint, Failing!WriteCheckpoint, Core!SpoilCheckpoint,
           Failing!SpoilCheckpoint, Core!Snapshot, Failing!Snapshot, Core!NoCheckpoint,
           Failing!NoCheckpoint, Core!EmptyMap, Failing!EmptyMap, Core!Crash,
           Failing!Crash, Core!RestoreFrom, Failing!RestoreFrom, Core!StartRecovery,
           Failing!StartRecovery, Core!build_replay, Failing!build_replay,
           Core!PostReplay, Failing!PostReplay, Core!DeliverReplay,
           Failing!DeliverReplay, Core!OnReplay, Failing!OnReplay, Core!ingest_replay,
           Failing!ingest_replay, Core!Unseen, Failing!Unseen, Core!RequestsIn,
           Failing!RequestsIn, Core!ResponsesIn, Failing!ResponsesIn, Core!Frontier,
           Failing!Frontier, Core!LeftUnanswered, Failing!LeftUnanswered,
           Core!LastAt, Failing!LastAt, Core!LeavesGap, Failing!LeavesGap, Core!ReadAs,
           Failing!ReadAs, Core!ReadShort, Failing!ReadShort, Core!Damaged,
           Failing!Damaged, Core!CleanCuts, Failing!CleanCuts, Core!LoseReplay,
           Failing!LoseReplay, Core!EndRecovery, Failing!EndRecovery
  <1> QED BY <1>1, <1>2, PTL DEF Core!FailoverSpec, Failing!FailoverSpec

\* The HTTP programs with a server that fails implement Failover: a process that dies
\* takes with it what it had not written, an answer that no thread listens for is
\* lost, the posts of a replay are copies of it on a lossy link, and what OnReplay
\* ingests is what may be read of one of them, whole, cut or torn.
THEOREM RefinesFailover == HttpFailoverSpec => ImplementsFailover
  BY CoreSpec, SameSpec, PTL DEF ImplementsFailover

\* So what is proved of Failover holds of the HTTP programs: until a replay is ingested
\* past a gap, or torn, the histories agree, no hash does not, and no server runs a
\* request twice; up to the first failover, as long as none is torn, none is ingested
\* past a gap and no reply is lost; and the commit loop never records an answer that
\* the server has not committed, torn replays or not.
THEOREM FailoverOverHttp ==
    HttpFailoverSpec => [](/\ Failing!AgreementAcrossFailover
                           /\ Failing!NoMismatchAcrossFailover
                           /\ Failing!OncePerServer
                           /\ Failing!OneFailoverIsSafe
                           /\ Failing!StagedAcksCommitted)
  <1>1. Core!FailoverSpec => []Core!AgreementAcrossFailover
    BY Core!AgreementSurvives, FailoverAssumptions
  <1>2. Core!FailoverSpec => []Core!NoMismatchAcrossFailover
    BY Core!HashesSurvive, FailoverAssumptions
  <1>3. Core!FailoverSpec => []Core!OncePerServer
    BY Core!OncePerServerCorrect, FailoverAssumptions
  <1>4. Core!FailoverSpec => []Core!OneFailoverIsSafe
    BY Core!OneFailoverSafe, FailoverAssumptions
  <1>5. Core!AgreementAcrossFailover => Failing!AgreementAcrossFailover
    BY DEF Core!AgreementAcrossFailover, Failing!AgreementAcrossFailover,
           Core!HistoryAgreement, Failing!HistoryAgreement, Core!HistoryAt,
           Failing!HistoryAt, Core!IsPrefixOf, Failing!IsPrefixOf
  <1>6. /\ Core!NoMismatchAcrossFailover => Failing!NoMismatchAcrossFailover
        /\ Core!OncePerServer => Failing!OncePerServer
        /\ Core!OneFailoverIsSafe => Failing!OneFailoverIsSafe
    BY DEF Core!NoMismatchAcrossFailover, Failing!NoMismatchAcrossFailover,
           Core!NoMismatch, Failing!NoMismatch, Core!OncePerServer,
           Failing!OncePerServer, Core!OneFailoverIsSafe, Failing!OneFailoverIsSafe
  <1>7. Core!FailoverSpec => []Core!StagedAcksCommitted
    BY Core!StagedAcksCorrect, FailoverAssumptions
  <1>8. Core!StagedAcksCommitted => Failing!StagedAcksCommitted
    BY DEF Core!StagedAcksCommitted, Failing!StagedAcksCommitted, Core!Ids, Failing!Ids
  <1> QED BY <1>1, <1>2, <1>3, <1>4, <1>5, <1>6, <1>7, <1>8, CoreSpec, PTL

\* And so the two programs keep what the recoverable history promises, whatever HTTP
\* loses, repeats or delays, however often the server process dies and whatever part of
\* a replay it reads: the server strays from the history, and requests are completed
\* without their response, only once a replay was ingested past a gap, or torn, or
\* after a second failover.
THEOREM HttpRecovers == HttpFailoverSpec => Core!ImplementsRecoverableHistory
  <1>1. Core!FailoverSpec => Core!ImplementsRecoverableHistory
    BY Core!RefinesRecoverableHistory, FailoverAssumptions
  <1> QED BY <1>1, CoreSpec, PTL

-----------------------------------------------------------------------------
(* Types.                                                                  *)

\* The cores and what they exchange are well typed.
CoreTypes ==
    /\ ClientTypeOK
    /\ ServerTypeOK
    /\ c2s \subseteq Request
    /\ \A n \in DOMAIN replies : replies[n] \in Response
    /\ IsCheckpoint(checkpoint)
    /\ \A n \in DOMAIN recovering : recovering[n] \in Replay
    /\ posted_replays \subseteq Replay
    /\ strayed \in BOOLEAN
    /\ torn \in 0 .. MaxTorn

\* What the types of Failover say of the HTTP programs.
LEMMA CoreTypesInvariant == HttpFailoverSpec => []CoreTypes
  <1>1. Core!FailoverSpec => []Core!FailoverTypeOK
    BY Core!FailoverTypeCorrect, FailoverAssumptions
  <1>2. Core!FailoverTypeOK => CoreTypes
    <2> SUFFICES ASSUME Core!FailoverTypeOK PROVE CoreTypes
      OBVIOUS
    <2>1. /\ Event = Core!Event /\ Hash = Core!Hash /\ SeqNo = Core!SeqNo
          /\ Request = Core!Request /\ Response = Core!Response /\ Replay = Core!Replay
      BY DEF Event, Hash, SeqNo, Request, Response, Replay, Core!Event, Core!Hash,
             Core!SeqNo, Core!Request, Core!Response, Core!Replay
    <2>2. /\ Core!NetTypeOK /\ Core!ClientTypeOK /\ Core!ServerTypeOK
          /\ Core!IsCheckpoint(checkpoint)
          /\ \A n \in DOMAIN recovering : recovering[n] \in Replay
          /\ posted_replays \subseteq Replay
          /\ strayed \in BOOLEAN
          /\ torn \in 0 .. MaxTorn
      BY <2>1 DEF Core!FailoverTypeOK, Core!TypeOK
    <2>3. ClientTypeOK
      BY <2>1, <2>2 DEF Core!ClientTypeOK, ClientTypeOK
    <2>4. ServerTypeOK
      BY <2>1, <2>2 DEF Core!ServerTypeOK, ServerTypeOK
    <2>5. c2s \subseteq Request /\ \A n \in DOMAIN replies : replies[n] \in Response
      BY <2>1, <2>2 DEF Core!NetTypeOK, answers
    <2>6. IsCheckpoint(checkpoint)
      BY <2>1, <2>2 DEF Core!IsCheckpoint, IsCheckpoint
    <2> QED BY <2>2, <2>3, <2>4, <2>5, <2>6 DEF CoreTypes
  <1> QED BY <1>1, <1>2, CoreSpec, PTL

\* The counter of commits and the flag of the interceptor keep their types.
LEMMA CounterInvariant == HttpFailoverSpec => [](commits_since_ckpt_ \in Nat /\ saving \in BOOLEAN)
  <1> DEFINE C == commits_since_ckpt_ \in Nat /\ saving \in BOOLEAN
  <1>1. HttpFailoverInit => C
    <2>1. HttpFailoverInit => commits_since_ckpt_ = 0 /\ saving = FALSE
      BY DEF HttpFailoverInit, HttpInit
    <2>2. 0 \in Nat
      OBVIOUS
    <2> QED BY <2>1, <2>2, Zenon
  <1>2. C /\ [HttpFailoverNext]_hfvars => C'
    <2> SUFFICES ASSUME C, [HttpFailoverNext]_hfvars PROVE C'
      OBVIOUS
    <2>1. CASE UNCHANGED checkpointVars
      BY <2>1, Zenon DEF checkpointVars
    <2>2. CASE commits_since_ckpt_' = 0 /\ saving' = FALSE
      BY <2>2
    <2>3. ASSUME NEW resp \in s2c, Complete(resp)
          PROVE  C'
      <3>1. CountWith(resp) \in Nat /\ commits_since_ckpt_ \in Nat
        BY DEF CountWith
      <3>2. ASSUME NEW count \in Nat, NEW last, MaybeCheckpoint(count, last)
            PROVE  C'
        BY <3>2, Zenon DEF MaybeCheckpoint
      <3>3. \E count \in Nat : MaybeCheckpoint(count, s2c = {resp})
        BY <2>3, <3>1 DEF Complete
      <3> QED BY <3>2, <3>3
    <2>4. \/ UNCHANGED checkpointVars
          \/ commits_since_ckpt_' = 0 /\ saving' = FALSE
          \/ \E resp \in s2c : Complete(resp)
      BY DEF HttpFailoverNext, Serve, hfvars, hvars, httpVars, Send, FailoverPost, Post,
             FailoverGiveUp, GiveUp, FailoverReceive, Receive, OnRequest, CoreCommit,
             WriteCheckpoint, WriteFails, Crash, ReplyRecover, ReceiveRecover, PostReplay,
             GiveUpReplay, OnReplay, EndRecovery
    <2> QED BY <2>1, <2>2, <2>3, <2>4
  <1> QED BY <1>1, <1>2, PTL DEF HttpFailoverSpec

\* Every variable of the HTTP programs keeps its type when the server fails; in
\* particular whatever is live, for a request or for a replay, has a thread inside
\* post() waiting for it.
THEOREM HttpFailoverTypeCorrect == HttpFailoverSpec => []HttpFailoverTypeOK
  <1>1. /\ ProgramInv /\ CoreTypes /\ crashes \in 0 .. MaxCrashes
        /\ commits_since_ckpt_ \in Nat /\ saving \in BOOLEAN
        => HttpFailoverTypeOK
    <2> SUFFICES ASSUME ProgramInv, CoreTypes, crashes \in 0 .. MaxCrashes,
                        commits_since_ckpt_ \in Nat, saving \in BOOLEAN
                 PROVE  HttpFailoverTypeOK
      OBVIOUS
    <2>1. IdsInv /\ AskingInv /\ RecoveringInv
      BY DEF ProgramInv, ThreadInv
    <2>2. usedIds \subseteq SeqNo
      BY <2>1 DEF IdsInv, CoreTypes, Request
    <2>3. posts \subseteq Attempt /\ DOMAIN pending_ \subseteq SeqNo
      <3>1. ASSUME NEW p \in posts PROVE p \in Attempt
        <4>1. p = [seq |-> p.seq, live |-> p.live] /\ p.seq \in SeqNo /\ p.live \in BOOLEAN
          BY <2>1, <2>2 DEF AskingInv, usedIds
        <4> QED BY <4>1 DEF Attempt
      <3> QED BY <2>2, <3>1 DEF usedIds
    <2>4. replay_posts \subseteq ReplayAttempt
      <3>1. ASSUME NEW p \in replay_posts PROVE p \in ReplayAttempt
        <4>1. /\ p = [seq |-> p.seq, rp |-> p.rp, live |-> p.live]
              /\ p.seq \in SeqNo /\ p.rp \in Replay /\ p.live \in BOOLEAN
          BY <2>1, <2>2 DEF RecoveringInv, usedIds, CoreTypes, posted_replays
        <4> QED BY <4>1 DEF ReplayAttempt
      <3> QED BY <3>1
    <2>5. HttpTypeOK
      BY <2>1, <2>3 DEF AskingInv, Asks, CoreTypes, HttpTypeOK
    <2>6. /\ DOMAIN recovering \subseteq sending /\ served \subseteq DOMAIN recovering
          /\ \A p \in replay_posts : p.live => p.seq \in posting \cap DOMAIN recovering
          /\ replay_ok \subseteq posting \cap DOMAIN recovering
      BY <2>1 DEF AskingInv, RecoveringInv
    <2> QED BY <2>4, <2>5, <2>6 DEF HttpFailoverTypeOK, CoreTypes
  <1> QED BY <1>1, ProgramInvariant, CoreTypesInvariant, CrashesBounded, CounterInvariant, PTL

-----------------------------------------------------------------------------
(* Results of the application.                                             *)

\* However often the server fails and whatever it reads of a replay, what send() delivers
\* is a result of the application; and up to the first failover, as long as no replay is
\* torn, every call of send() that returns delivers one.
THEOREM AppResultsDelivered == HttpFailoverSpec => []OnlyAppResultsDelivered
  <1>1. Core!FailoverSpec => []Core!OneFailoverIsSafe
    BY Core!OneFailoverSafe, FailoverAssumptions
  <1>2. Core!FailoverSpec => []Core!LedgerInv
    BY Core!LedgerInvariant, FailoverAssumptions
  <1>3. Core!LedgerInv => \A n \in DOMAIN received_payload :
            n \in DOMAIN app_runs /\ received_payload[n] \in 1 .. app_runs[n]
    BY DEF Core!LedgerInv, Core!ResultsInv, Core!Ran
  <1>4. Core!LedgerInv /\ Core!OneFailoverIsSafe => OnlyAppResultsDelivered
    BY <1>3 DEF Core!OneFailoverIsSafe, OnlyAppResultsDelivered
  <1> QED BY <1>1, <1>2, <1>4, CoreSpec, PTL
=============================================================================
