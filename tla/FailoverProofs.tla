--------------------------- MODULE FailoverProofs ---------------------------
(***************************************************************************)
(* Proofs about Failover: that every variable keeps its type, that the     *)
(* histories and their hashes agree across any number of failovers as long *)
(* as no replay is ingested past a gap or torn, that a server object never *)
(* runs a request twice, and that a first failover is survived without     *)
(* loss if no replay is torn.                                              *)
(***************************************************************************)
EXTENDS Failover, RecoveryProofs

\* Every replay that may still reach the server.
AllReplays == replays \cup {recovering[n] : n \in DOMAIN recovering}

\* Only requests that were generated are recorded, by the client and in replays.
KnownInv ==
    /\ RequestsIn(c_history) \subseteq 1 .. (next_seq - 1)
    /\ \A rp \in AllReplays : RequestsIn(rp.events) \subseteq 1 .. (next_seq - 1)

\* Only where replays may be read short are they torn, and then the server strays.
TornInv == torn > 0 => strayed /\ CutReplays

\* What the types of a step depend on.
TypeInv == FailoverTypeOK /\ HashedInv /\ KnownInv /\ TornInv

\* Until the server strays, both sides, the checkpoint and the replays agree.
RecordsInv ==
    ~strayed => /\ HistoryInv
                /\ OrderInv
                /\ GoodCheckpoint(checkpoint)
                /\ \A rp \in AllReplays : GoodReplay(rp)

\* Until then, too, a server runs once what it has committed.
RunsInv == ~strayed => OnceInv /\ ReceiptsInv

\* The first server is never asked for a replay.  The second one asks for what it
\* lacks, and only commits more, so a replay never starts past what it holds; and it
\* has, or will have, the answer to whatever the client still lacks one for, unless it
\* ingests a torn replay.
OneCrashInv ==
    /\ crashes = 0 => /\ AckInv
                      /\ AllReplays = {}
                      /\ awaiting = {}
                      /\ torn = 0
                      /\ CheckpointAnswerable(checkpoint, {})
    /\ crashes <= 1 /\ torn = 0 =>
           /\ ~strayed
           /\ \A rp \in AllReplays : rp.from <= Len(s_history)
           /\ \A resp \in AllResponses :
                  resp.recover => resp.recover_from <= Len(s_history)
           /\ AnswerableInv({})

-----------------------------------------------------------------------------
(* The steps.                                                              *)

\* The steps that leave both endpoints alone.  A checkpoint may be written, and a
\* replay built for a request that was answered with a 503.
QuietStep ==
    /\ QuietLinks
    /\ checkpoint' \in {checkpoint, Snapshot, NoCheckpoint}
    /\ \A rp \in AllReplays' :
           \/ rp \in AllReplays
           \/ \E resp \in s2c : resp.recover /\ rp = build_replay(resp.recover_from)
    /\ DOMAIN recovering' \subseteq outstanding
    /\ served' \subseteq DOMAIN recovering'
    /\ UNCHANGED << crashes, strayed, torn >>

\* Every step is one of the conversation, a quiet one, a crash or an ingestion.
LEMMA FailoverSteps ==
    ASSUME FailoverTypeOK, FailoverNext \/ UNCHANGED fvars
    PROVE  \/ Generate /\ UNCHANGED failoverVars
           \/ \E req \in c2s : DeliverRequest(req) /\ UNCHANGED failoverVars
           \/ Commit /\ UNCHANGED failoverVars
           \/ \E resp \in s2c : /\ resp.seq \notin DOMAIN recovering
                                /\ DeliverResponse(resp) /\ UNCHANGED failoverVars
           \/ QuietStep
           \/ Crash
           \/ \E rp \in replays : DeliverReplay(rp)
  <1>0. DOMAIN recovering \subseteq outstanding /\ served \subseteq DOMAIN recovering
    BY DEF FailoverTypeOK
  <1> USE <1>0 DEF QuietStep, QuietLinks, AllReplays
  <1>1. ASSUME NEW n \in outstanding, FailoverResend(n)
        PROVE  QuietStep
    BY <1>1 DEF FailoverResend, Retransmit, SendRequest, failoverVars, outstanding
  <1>2. ASSUME NEW resp \in s2c, FailoverDeliverResponse(resp)
        PROVE  /\ resp.seq \notin DOMAIN recovering
               /\ DeliverResponse(resp) /\ UNCHANGED failoverVars
    BY <1>2 DEF FailoverDeliverResponse
  <1>3. ASSUME Lose /\ UNCHANGED failoverVars
        PROVE  QuietStep
    BY <1>3 DEF Lose, LoseRequest, LoseResponse, failoverVars
  <1>4. ASSUME WriteCheckpoint \/ SpoilCheckpoint
        PROVE  QuietStep
    BY <1>4 DEF WriteCheckpoint, SpoilCheckpoint, vars, netVars
  <1>5. ASSUME NEW resp \in s2c, StartRecovery(resp)
        PROVE  QuietStep
    <2>1. /\ UNCHANGED << c2s, clientVars, serverVars, checkpoint, replays, crashes,
                          strayed, torn >>
          /\ s2c' \subseteq s2c
      BY <1>5 DEF StartRecovery
    <2>2. \A rp \in AllReplays' :
              rp \in AllReplays \/ rp = build_replay(resp.recover_from)
      BY <1>5, <2>1 DEF StartRecovery, Put
    <2>3. resp.recover
      BY <1>5 DEF StartRecovery
    <2>4. DOMAIN recovering' \subseteq outstanding /\ served' \subseteq DOMAIN recovering'
      BY <1>5 DEF StartRecovery, Put
    <2> HIDE DEF AllReplays
    <2> QED BY <2>1, <2>2, <2>3, <2>4
  <1>6. ASSUME NEW n \in DOMAIN recovering, PostReplay(n)
        PROVE  QuietStep
    BY <1>6 DEF PostReplay, vars, netVars
  <1>7. ASSUME NEW rp \in replays, LoseReplay(rp)
        PROVE  QuietStep
    BY <1>7 DEF LoseReplay, vars, netVars
  <1>8. ASSUME NEW n \in served, EndRecovery(n)
        PROVE  QuietStep
    <2>1. n \in DOMAIN inflight
      BY DEF FailoverTypeOK, outstanding
    <2>2. c2s' = c2s \cup {inflight[n]}
      BY <1>8 DEF EndRecovery, SendRequest
    <2>3. /\ UNCHANGED << s2c, clientVars, serverVars, checkpoint, replays, crashes,
                          strayed, torn >>
          /\ DOMAIN recovering' \subseteq DOMAIN recovering
          /\ \A k \in DOMAIN recovering' : recovering'[k] = recovering[k]
      BY <1>8 DEF EndRecovery, Erase
    <2>4. served' \subseteq DOMAIN recovering'
      BY <1>8 DEF EndRecovery, Erase
    <2> QED BY <2>1, <2>2, <2>3, <2>4
  <1>9. ASSUME UNCHANGED fvars
        PROVE  QuietStep
    BY <1>9 DEF fvars, failoverVars, vars, netVars
  <1> HIDE DEF QuietStep, QuietLinks, AllReplays
  <1>10. CASE UNCHANGED fvars
    BY <1>9, <1>10
  <1>11. CASE FailoverNext
    BY <1>1, <1>2, <1>3, <1>4, <1>5, <1>6, <1>7, <1>8, <1>11 DEF FailoverNext
  <1> QED BY <1>10, <1>11

-----------------------------------------------------------------------------
(* Type correctness.                                                       *)

\* What is ingested of a replay: a replay.  It is torn, or a part that ends behind a
\* request, and unless the server strays it leaves no gap.
Ingests(rp, got) ==
    /\ got \in Replay /\ RequestsIn(got.events) \subseteq 0 .. (next_seq - 1)
    /\ ingest_replay(got)
    /\ \/ torn' = torn /\ got \in CleanCuts(rp)
       \/ torn' = torn + 1 /\ CutReplays /\ strayed'
    /\ ~strayed' => ~strayed /\ LeavesNoGap(got)
    /\ strayed' => strayed \/ torn' = torn + 1 \/ ~LeavesNoGap(got)

\* The replay rp as it was, and what was ingested of it.
IngestsOf(rp) ==
    /\ \E got : Ingests(rp, got)
    /\ UNCHANGED << netVars, clientVars, checkpoint, recovering, crashes >>
    /\ replays' \subseteq replays
    /\ served' \subseteq served \cup DOMAIN recovering
    /\ strayed' \in BOOLEAN /\ torn' \in 0 .. MaxTorn

\* Well-formed replays and 503s keep what a recovery holds well formed.
LEMMA ReplaysType ==
    ASSUME FailoverTypeOK
    PROVE  /\ AllReplays \subseteq Replay
           /\ \A resp \in s2c : build_replay(resp.recover_from) \in Replay
           /\ TypeOK /\ outstanding = DOMAIN inflight
  <1>1. AllReplays \subseteq Replay /\ TypeOK
    BY DEF FailoverTypeOK, AllReplays
  <1>2. \A resp \in s2c : resp.recover_from \in Nat
    BY <1>1 DEF TypeOK, NetTypeOK, Response
  <1> QED BY <1>1, <1>2, BuiltReplay DEF outstanding

\* Every delivery of a replay ingests some of it.
LEMMA DeliveryIngests ==
    ASSUME FailoverTypeOK, KnownInv, NEW rp \in replays, DeliverReplay(rp)
    PROVE  IngestsOf(rp) /\ rp \in Replay /\ rp \in AllReplays
  <1>1. rp \in Replay /\ rp \in AllReplays /\ TypeOK
    BY ReplaysType DEF AllReplays
  <1>2. PICK got \in ReadAs(rp) : OnReplay(rp, got)
    BY DEF DeliverReplay
  <1>3. got \in {rp} \cup ReadShort(rp) /\ (got # rp => CutReplays)
    BY DEF ReadAs
  <1>4. RequestsIn(rp.events) \subseteq 0 .. (next_seq - 1) /\ next_seq - 1 \in Nat
    <2>1. RequestsIn(rp.events) \subseteq 1 .. (next_seq - 1)
      BY <1>1 DEF KnownInv
    <2>2. next_seq \in Nat \ {0}
      BY <1>1 DEF TypeOK, ClientTypeOK, SeqNo
    <2>3. \A k \in 1 .. (next_seq - 1) : k \in 0 .. (next_seq - 1)
      BY <2>2
    <2> QED BY <2>1, <2>2, <2>3
  <1>5. got \in Replay /\ RequestsIn(got.events) \subseteq 0 .. (next_seq - 1)
    BY <1>1, <1>3, <1>4, ReadShortType
  <1>6. LeavesGap(got) <=> ~LeavesNoGap(got)
    <2>1. Len(s_history) \in Nat /\ got.from \in Nat
      BY <1>1, <1>5 DEF TypeOK, ServerTypeOK, Replay
    <2>2. got.from > Len(s_history) <=> ~(got.from <= Len(s_history))
      BY <2>1
    <2> QED BY <2>2 DEF LeavesGap, LeavesNoGap
  <1>7. /\ ingest_replay(got) /\ torn' <= MaxTorn
        /\ torn' = IF got \in CleanCuts(rp) THEN torn ELSE torn + 1
        /\ strayed' = (strayed \/ got \notin CleanCuts(rp) \/ LeavesGap(got))
    BY <1>2 DEF OnReplay
  <1>8. rp \in CleanCuts(rp)
    BY DEF CleanCuts
  <1>9. torn' \in 0 .. MaxTorn
    BY <1>7, CrashAssumption DEF FailoverTypeOK
  <1>10. Ingests(rp, got)
    <2>1. CASE got \in CleanCuts(rp)
      BY <1>5, <1>6, <1>7, <2>1 DEF Ingests
    <2>2. CASE got \notin CleanCuts(rp)
      BY <1>3, <1>5, <1>7, <1>8, <2>2 DEF Ingests
    <2> QED BY <2>1, <2>2
  <1>11. strayed' \in BOOLEAN
    BY <1>7
  <1> QED BY <1>1, <1>9, <1>10, <1>11 DEF IngestsOf, DeliverReplay

\* A step of the conversation that leaves the recoveries alone keeps their types.
LEMMA RecoveriesKept ==
    ASSUME FailoverTypeOK, KnownInv, TypeOK', UNCHANGED failoverVars,
           DOMAIN recovering \subseteq outstanding',
           next_seq \in Nat, next_seq' \in Nat, next_seq <= next_seq',
           RequestsIn(c_history') \subseteq 1 .. (next_seq' - 1)
    PROVE  FailoverTypeOK' /\ KnownInv' /\ (TornInv => TornInv')
  <1>0. TornInv => TornInv'
    BY DEF TornInv, failoverVars
  <1>1. FailoverTypeOK'
    BY DEF FailoverTypeOK, failoverVars
  <1>2. AllReplays' = AllReplays
    BY DEF AllReplays, failoverVars
  <1>3. \A M, N \in Nat : M <= N => 1 .. (M - 1) \subseteq 1 .. (N - 1)
    OBVIOUS
  <1> QED BY <1>0, <1>1, <1>2, <1>3 DEF KnownInv

\* Every step keeps the types, and what they depend on.
LEMMA TypeStep ==
    ASSUME TypeInv, FailoverNext \/ UNCHANGED fvars
    PROVE  TypeInv'
  <1>1. FailoverTypeOK /\ HashedInv /\ KnownInv /\ TornInv /\ TypeOK
    BY DEF TypeInv, FailoverTypeOK
  <1>2. next_seq \in Nat \ {0} /\ c_history \in Seq(Event) /\ pending_new \in Seq(SeqNo)
    BY <1>1 DEF TypeOK, ClientTypeOK, SeqNo
  <1>3. DOMAIN recovering \subseteq DOMAIN inflight
    BY <1>1 DEF FailoverTypeOK, outstanding
  <1>4. CASE Generate /\ UNCHANGED failoverVars
    <2>1. TypeOK'
      BY <1>1, <1>4, GenerateType
    <2>2. HashedInv'
      BY <1>1, <1>4 DEF Generate, HashedInv, serverVars
    <2>3. /\ next_seq' = next_seq + 1
          /\ DOMAIN inflight' = DOMAIN inflight \cup {next_seq}
          /\ c_history' = c_history \o Committed(pending_new, next_seq)
      BY <1>4 DEF Generate, generate_request, NextRequest, Put
    <2>4. RequestsIn(c_history') = RequestsIn(c_history) \cup {next_seq}
      <3>1. next_seq \in SeqNo
        BY <1>2 DEF SeqNo
      <3>2. /\ Committed(pending_new, next_seq) \in Seq(Event)
            /\ RequestsIn(Committed(pending_new, next_seq)) = {next_seq}
        BY <1>2, <3>1, CommittedShape, EventsCommitted
      <3> QED BY <1>2, <2>3, <3>2, EventsConcat
    <2>5. RequestsIn(c_history') \subseteq 1 .. (next_seq' - 1)
      <3>1. RequestsIn(c_history) \subseteq 1 .. (next_seq - 1)
        BY <1>1 DEF KnownInv
      <3>2. \A k : k \in 1 .. (next_seq - 1) \/ k = next_seq => k \in 1 .. (next_seq' - 1)
        BY <1>2, <2>3
      <3> QED BY <2>4, <3>1, <3>2
    <2>6. next_seq' \in Nat /\ next_seq <= next_seq' /\ next_seq \in Nat
      BY <1>2, <2>3
    <2>7. DOMAIN recovering \subseteq outstanding'
      BY <1>3, <2>3 DEF outstanding
    <2>8. FailoverTypeOK' /\ KnownInv' /\ TornInv'
      BY <1>1, <1>4, <2>1, <2>5, <2>6, <2>7, RecoveriesKept
    <2> QED BY <2>2, <2>8 DEF TypeInv
  <1>5. ASSUME TypeOK', HashedInv', UNCHANGED failoverVars,
               UNCHANGED << next_seq, c_history >>, DOMAIN recovering \subseteq DOMAIN inflight'
        PROVE  TypeInv'
    <2>1. next_seq' \in Nat /\ next_seq <= next_seq' /\ next_seq \in Nat
      BY <1>2, <1>5
    <2>2. RequestsIn(c_history') \subseteq 1 .. (next_seq' - 1)
      BY <1>1, <1>5 DEF KnownInv
    <2>3. DOMAIN recovering \subseteq outstanding'
      BY <1>5 DEF outstanding
    <2>4. FailoverTypeOK' /\ KnownInv' /\ TornInv'
      BY <1>1, <1>5, <2>1, <2>2, <2>3, RecoveriesKept
    <2> QED BY <1>5, <2>4 DEF TypeInv
  <1>6. ASSUME NEW req \in c2s, DeliverRequest(req), UNCHANGED failoverVars
        PROVE  TypeInv'
    <2>1. TypeOK'
      BY <1>1, <1>6, DeliverRequestType
    <2>2. HashedInv'
      <3>1. req \in Request /\ on_request(req)
        BY <1>1, <1>6 DEF TypeOK, NetTypeOK, DeliverRequest
      <3> QED BY <1>1, <3>1, OnRequestOnce
    <2>3. UNCHANGED << next_seq, c_history, inflight >>
      BY <1>6 DEF DeliverRequest, clientVars
    <2> QED BY <1>3, <1>5, <1>6, <2>1, <2>2, <2>3
  <1>7. CASE Commit /\ UNCHANGED failoverVars
    <2>1. TypeOK' /\ HashedInv'
      BY <1>1, <1>7, CommitType, CommitOnce
    <2>2. UNCHANGED << next_seq, c_history, inflight >>
      BY <1>7 DEF Commit, clientVars
    <2> QED BY <1>3, <1>5, <1>7, <2>1, <2>2
  <1>8. ASSUME NEW resp \in s2c, resp.seq \notin DOMAIN recovering,
               DeliverResponse(resp), UNCHANGED failoverVars
        PROVE  TypeInv'
    <2>1. TypeOK'
      BY <1>1, <1>8, DeliverResponseType
    <2>2. HashedInv'
      BY <1>1, <1>8 DEF DeliverResponse, HashedInv, serverVars
    <2>3. /\ UNCHANGED << next_seq, c_history >>
          /\ DOMAIN inflight \subseteq DOMAIN inflight' \cup {resp.seq}
      BY <1>8 DEF DeliverResponse, on_response, on_duplicate_response, clientVars, Erase
    <2> QED BY <1>3, <1>5, <1>8, <2>1, <2>2, <2>3
  <1>9. CASE QuietStep
    <2>1. TypeOK' /\ HashedInv'
      BY <1>1, <1>9, QuietKeeps DEF QuietStep
    <2>2. UNCHANGED << next_seq, c_history, inflight, crashes, strayed, torn >>
      BY <1>9 DEF QuietStep, QuietLinks, clientVars
    <2>3. AllReplays' \subseteq Replay
      BY <1>1, <1>9, ReplaysType DEF QuietStep
    <2>4. IsCheckpoint(checkpoint')
      BY <1>1, <1>2, <1>9, SnapshotGood, NoCheckpointGood DEF QuietStep, FailoverTypeOK
    <2>5. /\ DOMAIN recovering' \subseteq outstanding'
          /\ served' \subseteq DOMAIN recovering'
      BY <1>9, <2>2 DEF QuietStep, outstanding
    <2>6. FailoverTypeOK'
      BY <1>1, <2>1, <2>2, <2>3, <2>4, <2>5 DEF FailoverTypeOK, AllReplays
    <2>7. \A rp \in AllReplays' : RequestsIn(rp.events) \subseteq 1 .. (next_seq - 1)
      <3> SUFFICES ASSUME NEW rp \in AllReplays'
                   PROVE  RequestsIn(rp.events) \subseteq 1 .. (next_seq - 1)
        OBVIOUS
      <3>1. CASE rp \in AllReplays
        BY <1>1, <3>1 DEF KnownInv
      <3>2. CASE rp \notin AllReplays
        <4>1. PICK resp \in s2c : rp = build_replay(resp.recover_from)
          BY <1>9, <3>2 DEF QuietStep
        <4>2. resp.recover_from \in Nat
          BY <1>1 DEF TypeOK, NetTypeOK, Response
        <4>3. RequestsIn(rp.events) \subseteq RequestsIn(c_history)
          BY <1>1, <4>1, <4>2, BuiltReplay
        <4> QED BY <1>1, <4>3 DEF KnownInv
      <3> QED BY <3>1, <3>2
    <2>8. KnownInv'
      BY <1>1, <2>2, <2>7 DEF KnownInv
    <2>9. TornInv'
      BY <1>1, <2>2 DEF TornInv
    <2> QED BY <2>1, <2>6, <2>8, <2>9 DEF TypeInv
  <1>10. CASE Crash
    <2>1. /\ RestoreFrom(checkpoint) /\ c2s' = c2s /\ s2c' \subseteq s2c
          /\ UNCHANGED << clientVars, s_mismatch, app_runs >>
          /\ replays' \subseteq replays
          /\ UNCHANGED << checkpoint, recovering, served, strayed, torn >>
          /\ crashes < MaxCrashes /\ crashes' = crashes + 1
      BY <1>10 DEF Crash
    <2>2. TypeOK' /\ HashedInv'
      BY <1>1, <2>1, RestoreType DEF FailoverTypeOK
    <2>3. UNCHANGED << next_seq, c_history, inflight >>
      BY <2>1 DEF clientVars
    <2>4. crashes' \in 0 .. MaxCrashes
      BY <1>1, <2>1, CrashAssumption DEF FailoverTypeOK
    <2>5. FailoverTypeOK'
      BY <1>1, <2>1, <2>2, <2>3, <2>4 DEF FailoverTypeOK, outstanding
    <2>6. AllReplays' \subseteq AllReplays
      BY <2>1 DEF AllReplays
    <2>7. KnownInv'
      BY <1>1, <2>3, <2>6 DEF KnownInv
    <2>8. TornInv'
      BY <1>1, <2>1 DEF TornInv
    <2> QED BY <2>2, <2>5, <2>7, <2>8 DEF TypeInv
  <1>11. ASSUME NEW rp \in replays, DeliverReplay(rp)
         PROVE  TypeInv'
    <2>1. IngestsOf(rp)
      BY <1>1, <1>11, DeliveryIngests
    <2>2. /\ UNCHANGED << netVars, clientVars, checkpoint, recovering, crashes >>
          /\ replays' \subseteq replays
          /\ served' \subseteq served \cup DOMAIN recovering
          /\ strayed' \in BOOLEAN /\ torn' \in 0 .. MaxTorn
      BY <2>1 DEF IngestsOf
    <2>3. PICK got : Ingests(rp, got)
      BY <2>1 DEF IngestsOf
    <2>4. TypeOK'
      <3>1. next_seq - 1 \in Nat
        BY <1>2
      <3> QED BY <1>1, <2>2, <2>3, <3>1, IngestType DEF Ingests
    <2>5. HashedInv'
      BY <1>1, <2>3, IngestHashed DEF Ingests
    <2>6. UNCHANGED << next_seq, c_history, inflight >>
      BY <2>2 DEF clientVars
    <2>7. TornInv'
      <3>1. CASE torn' = torn /\ ~strayed'
        BY <1>1, <2>3, <3>1 DEF TornInv, Ingests
      <3>2. CASE torn' = torn /\ strayed'
        BY <1>1, <3>2 DEF TornInv
      <3>3. CASE torn' = torn + 1 /\ CutReplays /\ strayed'
        BY <3>3 DEF TornInv
      <3> QED BY <2>3, <3>1, <3>2, <3>3 DEF Ingests
    <2>8. FailoverTypeOK'
      BY <1>1, <2>2, <2>4, <2>6 DEF FailoverTypeOK, outstanding
    <2>9. AllReplays' \subseteq AllReplays
      BY <2>2 DEF AllReplays
    <2>10. KnownInv'
      BY <1>1, <2>6, <2>9 DEF KnownInv
    <2> QED BY <2>5, <2>7, <2>8, <2>10 DEF TypeInv
  <1> QED BY <1>1, <1>4, <1>6, <1>7, <1>8, <1>9, <1>10, <1>11, FailoverSteps

\* What the types depend on holds throughout.
LEMMA TypeInvariant == FailoverSpec => []TypeInv
  <1>1. FailoverInit => TypeInv
    <2> SUFFICES ASSUME FailoverInit PROVE TypeInv
      OBVIOUS
    <2>1. DOMAIN EmptyMap = {}
      BY DEF EmptyMap
    <2>2. TypeOK
      BY InitType DEF FailoverInit
    <2>3. next_seq = 1 /\ c_history = << >>
      BY DEF FailoverInit, Init, ClientInit
    <2>4. AllReplays = {}
      BY <2>1 DEF AllReplays, FailoverInit
    <2>5. KnownInv
      <3>1. RequestsIn(c_history) = {}
        BY <2>3 DEF RequestsIn
      <3> QED BY <2>4, <3>1 DEF KnownInv
    <2>6. HashedInv
      BY <2>1 DEF HashedInv, FailoverInit, Init, ServerInit
    <2>7. IsCheckpoint(checkpoint)
      BY <2>3, NoCheckpointGood DEF FailoverInit
    <2>8. FailoverTypeOK
      <3>1. crashes \in 0 .. MaxCrashes
        BY CrashAssumption DEF FailoverInit
      <3>2. torn \in 0 .. MaxTorn
        BY CrashAssumption DEF FailoverInit
      <3> QED BY <2>1, <2>2, <2>7, <3>1, <3>2, Zenon DEF FailoverTypeOK, FailoverInit
    <2>9. TornInv
      BY DEF FailoverInit, TornInv
    <2> QED BY <2>5, <2>6, <2>8, <2>9 DEF TypeInv
  <1>2. TypeInv /\ [FailoverNext]_fvars => TypeInv'
    BY TypeStep
  <1> QED BY <1>1, <1>2, PTL DEF FailoverSpec

\* Across crashes, restored checkpoints and ingested replays every variable keeps
\* its type: what a replacement server is built from is always a server.
THEOREM FailoverTypeCorrect == FailoverSpec => []FailoverTypeOK
  <1>1. TypeInv => FailoverTypeOK
    BY DEF TypeInv
  <1> QED BY <1>1, TypeInvariant, PTL

-----------------------------------------------------------------------------
(* Agreement across failovers.                                             *)

\* A step of the conversation keeps what its checkpoints and replays record.
LEMMA RecordsOfConversation ==
    ASSUME TypeInv, RecordsInv, UNCHANGED failoverVars, ~strayed => HistoryInv',
           Generate \/ UNCHANGED << next_seq, c_req_hash, c_history >>
    PROVE  RecordsInv'
  <1> SUFFICES ASSUME ~strayed PROVE RecordsInv'
    BY DEF RecordsInv, failoverVars
  <1>1. /\ TypeOK /\ HistoryInv /\ OrderInv /\ ClientHistoryInv
        /\ IsCheckpoint(checkpoint) /\ GoodCheckpoint(checkpoint)
        /\ \A rp \in AllReplays : GoodReplay(rp)
    BY DEF TypeInv, FailoverTypeOK, RecordsInv, HistoryInv
  <1>2. OrderInv'
    BY <1>1, GenerateOrder, OrderKept
  <1>3. /\ \A cp : IsCheckpoint(cp) /\ GoodCheckpoint(cp) => GoodCheckpoint(cp)'
        /\ \A rp : GoodReplay(rp) => GoodReplay(rp)'
    <2>1. Generate \/ UNCHANGED << next_seq, c_req_hash >>
      OBVIOUS
    <2> QED BY <1>1, <2>1, RecordsKept
  <1> SUFFICES ASSUME NEW cp, cp = checkpoint PROVE RecordsInv'
    OBVIOUS
  <1>4. cp = checkpoint' /\ GoodCheckpoint(cp)'
    BY <1>1, <1>3 DEF failoverVars
  <1>5. GoodCheckpoint(checkpoint)'
    BY <1>4 DEF GoodCheckpoint
  <1>6. AllReplays' = AllReplays
    BY DEF AllReplays, failoverVars
  <1>7. \A rp \in AllReplays' : GoodReplay(rp)'
    BY <1>1, <1>3, <1>6
  <1> QED BY <1>2, <1>5, <1>7 DEF RecordsInv

\* While the client generates nothing, a checkpoint and a replay record what they did.
LEMMA RecordsStand ==
    ASSUME UNCHANGED << next_seq, c_req_hash >>
    PROVE  /\ \A cp : GoodCheckpoint(cp) => GoodCheckpoint(cp)'
           /\ \A rp : GoodReplay(rp) => GoodReplay(rp)'
  BY DEF GoodCheckpoint, GoodReplay, HistoryAt

\* Until the server strays, what is ingested of a replay is good and leaves no gap.
LEMMA DeliveredReplay ==
    ASSUME TypeInv, RecordsInv, NEW rp \in replays, DeliverReplay(rp), ~strayed'
    PROVE  /\ ~strayed /\ TypeOK /\ HistoryInv /\ OrderInv
           /\ \E got \in Replay :
                  GoodReplay(got) /\ LeavesNoGap(got) /\ ingest_replay(got)
  <1>1. IngestsOf(rp) /\ rp \in Replay /\ rp \in AllReplays /\ TypeOK
    BY DeliveryIngests DEF TypeInv, FailoverTypeOK
  <1>2. PICK got : Ingests(rp, got)
    BY <1>1 DEF IngestsOf
  <1>3. /\ got \in Replay /\ ingest_replay(got) /\ got \in CleanCuts(rp)
        /\ ~strayed /\ LeavesNoGap(got)
    BY <1>2 DEF Ingests
  <1>4. HistoryInv /\ OrderInv /\ GoodReplay(rp)
    BY <1>1, <1>3 DEF RecordsInv
  <1>5. GoodReplay(got)
    BY <1>1, <1>3, <1>4, CleanCutGood DEF HistoryInv
  <1> QED BY <1>1, <1>3, <1>4, <1>5

\* Every step keeps both histories in agreement, until the server strays.
LEMMA RecordsStep ==
    ASSUME TypeInv, RecordsInv, FailoverNext \/ UNCHANGED fvars
    PROVE  RecordsInv'
  <1>1. TypeOK /\ FailoverTypeOK /\ HashedInv
    BY DEF TypeInv, FailoverTypeOK
  <1>2. CASE Generate /\ UNCHANGED failoverVars
    <2>1. ~strayed => HistoryInv'
      BY <1>1, <1>2, GenerateHistory DEF RecordsInv
    <2> QED BY <1>2, <2>1, RecordsOfConversation
  <1>3. ASSUME NEW req \in c2s, DeliverRequest(req), UNCHANGED failoverVars
        PROVE  RecordsInv'
    <2>1. ~strayed => HistoryInv'
      BY <1>1, <1>3, DeliverRequestHistory DEF RecordsInv
    <2>2. UNCHANGED << next_seq, c_req_hash, c_history >>
      BY <1>3 DEF DeliverRequest, clientVars
    <2> QED BY <1>3, <2>1, <2>2, RecordsOfConversation
  <1>4. CASE Commit /\ UNCHANGED failoverVars
    <2>1. ~strayed => HistoryInv'
      BY <1>1, <1>4, CommitHistory DEF RecordsInv
    <2>2. UNCHANGED << next_seq, c_req_hash, c_history >>
      BY <1>4 DEF Commit, clientVars
    <2> QED BY <1>4, <2>1, <2>2, RecordsOfConversation
  <1>5. ASSUME NEW resp \in s2c, DeliverResponse(resp), UNCHANGED failoverVars
        PROVE  RecordsInv'
    <2>1. ~strayed => HistoryInv'
      BY <1>5, DeliverResponseHistory DEF RecordsInv
    <2>2. UNCHANGED << next_seq, c_req_hash, c_history >>
      BY <1>5 DEF DeliverResponse, on_response, on_duplicate_response, clientVars
    <2> QED BY <1>5, <2>1, <2>2, RecordsOfConversation
  <1>6. CASE QuietStep
    <2> SUFFICES ASSUME ~strayed PROVE RecordsInv'
      BY <1>6 DEF RecordsInv, QuietStep
    <2>1. /\ HistoryInv /\ OrderInv /\ GoodCheckpoint(checkpoint)
          /\ \A rp \in AllReplays : GoodReplay(rp)
          /\ ClientHistoryInv
      BY DEF RecordsInv, HistoryInv
    <2>2. HistoryInv' /\ OrderInv'
      BY <1>1, <1>6, <2>1, QuietKeeps DEF QuietStep
    <2>3. UNCHANGED << next_seq, c_req_hash >>
      BY <1>6 DEF QuietStep, QuietLinks, clientVars
    <2>4. \A cp \in {checkpoint, Snapshot, NoCheckpoint} : GoodCheckpoint(cp)
      <3>1. next_seq \in Nat \ {0}
        BY <1>1 DEF TypeOK, ClientTypeOK, SeqNo
      <3> QED BY <1>1, <2>1, <3>1, SnapshotGood, NoCheckpointGood
    <2>5. GoodCheckpoint(checkpoint)'
      <3>1. GoodCheckpoint(checkpoint')
        BY <1>6, <2>4 DEF QuietStep
      <3> QED BY <2>3, <3>1 DEF GoodCheckpoint, HistoryAt
    <2>6. \A rp \in AllReplays' : GoodReplay(rp)
      <3> SUFFICES ASSUME NEW rp \in AllReplays', rp \notin AllReplays
                   PROVE  GoodReplay(rp)
        BY <2>1
      <3>1. PICK resp \in s2c : rp = build_replay(resp.recover_from)
        BY <1>6 DEF QuietStep
      <3>2. resp.recover_from \in Nat
        BY <1>1 DEF TypeOK, NetTypeOK, Response
      <3> QED BY <1>1, <2>1, <3>1, <3>2, BuiltReplay
    <2>7. \A rp \in AllReplays' : GoodReplay(rp)'
      BY <2>3, <2>6, RecordsStand
    <2> QED BY <2>2, <2>5, <2>7 DEF RecordsInv
  <1>7. CASE Crash
    <2>1. /\ RestoreFrom(checkpoint) /\ c2s' = c2s /\ s2c' \subseteq s2c
          /\ UNCHANGED << clientVars, s_mismatch, app_runs >>
          /\ replays' \subseteq replays
          /\ UNCHANGED << checkpoint, recovering, strayed >>
      BY <1>7 DEF Crash
    <2> SUFFICES ASSUME ~strayed PROVE RecordsInv'
      BY <2>1 DEF RecordsInv
    <2>2. /\ HistoryInv /\ OrderInv /\ GoodCheckpoint(checkpoint)
          /\ \A rp \in AllReplays : GoodReplay(rp)
      BY DEF RecordsInv
    <2>3. HistoryInv'
      BY <2>1, <2>2, RestoreHistory
    <2>4. UNCHANGED << next_seq, c_req_hash, c_history >>
      BY <2>1 DEF clientVars
    <2>5. OrderInv'
      BY <2>2, <2>4, OrderKept
    <2>6. GoodCheckpoint(checkpoint)'
      BY <2>1, <2>2, <2>4 DEF GoodCheckpoint, HistoryAt
    <2>7. AllReplays' \subseteq AllReplays
      BY <2>1 DEF AllReplays
    <2>8. \A rp \in AllReplays' : GoodReplay(rp)'
      BY <2>2, <2>4, <2>7, RecordsStand
    <2> QED BY <2>3, <2>5, <2>6, <2>8 DEF RecordsInv
  <1>8. ASSUME NEW rp \in replays, DeliverReplay(rp)
        PROVE  RecordsInv'
    <2> SUFFICES ASSUME ~strayed' PROVE RecordsInv'
      BY DEF RecordsInv
    <2>1. /\ UNCHANGED << netVars, clientVars, checkpoint, recovering >>
          /\ replays' \subseteq replays
      BY <1>8 DEF DeliverReplay
    <2>2. ~strayed /\ HistoryInv /\ OrderInv
      BY <1>8, DeliveredReplay
    <2>3. PICK got \in Replay : GoodReplay(got) /\ LeavesNoGap(got) /\ ingest_replay(got)
      BY <1>8, DeliveredReplay
    <2>4. GoodCheckpoint(checkpoint) /\ \A r \in AllReplays : GoodReplay(r)
      BY <2>2 DEF RecordsInv
    <2>5. HistoryInv'
      BY <1>1, <2>1, <2>2, <2>3, IngestHistory
    <2>6. UNCHANGED << next_seq, c_req_hash, c_history >>
      BY <2>1 DEF clientVars
    <2>7. OrderInv'
      BY <2>2, <2>6, OrderKept
    <2>8. GoodCheckpoint(checkpoint)'
      BY <2>1, <2>4, <2>6 DEF GoodCheckpoint, HistoryAt
    <2>9. AllReplays' \subseteq AllReplays
      BY <2>1 DEF AllReplays
    <2>10. \A r \in AllReplays' : GoodReplay(r)'
      BY <2>4, <2>6, <2>9, RecordsStand
    <2> QED BY <2>5, <2>7, <2>8, <2>10 DEF RecordsInv
  <1> QED BY <1>1, <1>2, <1>3, <1>4, <1>5, <1>6, <1>7, <1>8, FailoverSteps

\* Checkpoints, replays and both histories agree until the server strays.
LEMMA RecordsInvariant == FailoverSpec => []RecordsInv
  <1>1. FailoverInit => RecordsInv
    <2> SUFFICES ASSUME FailoverInit PROVE RecordsInv
      OBVIOUS
    <2>1. DOMAIN EmptyMap = {}
      BY DEF EmptyMap
    <2>2. HistoryInv /\ next_seq = 1 /\ c_history = << >>
      BY InitHistory DEF FailoverInit, Init, ClientInit
    <2>3. AllReplays = {}
      BY <2>1 DEF AllReplays, FailoverInit
    <2>4. GoodCheckpoint(checkpoint)
      BY <2>2, NoCheckpointGood DEF FailoverInit
    <2>5. OrderInv
      <3>1. 1 .. (next_seq - 1) = {} /\ 0 .. (next_seq - 1) = {0} /\ DOMAIN c_history = {}
        BY <2>2
      <3> QED BY <3>1 DEF OrderInv
    <2> QED BY <2>2, <2>3, <2>4, <2>5 DEF RecordsInv
  <1>2. TypeInv /\ RecordsInv /\ [FailoverNext]_fvars => RecordsInv'
    BY RecordsStep
  <1> QED BY <1>1, <1>2, TypeInvariant, PTL DEF FailoverSpec

\* However often the server fails, and whatever checkpoint its replacement starts
\* from, its history is the client's history up to the last request it committed, by
\* itself or from a replay or a part of one, unless a replay was ingested past a gap
\* or torn.
THEOREM AgreementSurvives == FailoverSpec => []AgreementAcrossFailover
  <1>1. TypeInv /\ RecordsInv => AgreementAcrossFailover
    BY HistoryAgrees DEF TypeInv, FailoverTypeOK, RecordsInv, AgreementAcrossFailover
  <1> QED BY <1>1, TypeInvariant, RecordsInvariant, PTL

\* Nor does either side ever find a hash to disagree, in the same case: hashes that
\* were checkpointed or rebuilt from a replay are those the client recorded.
THEOREM HashesSurvive == FailoverSpec => []NoMismatchAcrossFailover
  <1>1. RecordsInv => NoMismatchAcrossFailover
    BY DEF RecordsInv, HistoryInv, NoMismatchAcrossFailover
  <1> QED BY <1>1, RecordsInvariant, PTL

-----------------------------------------------------------------------------
(* Runs of the application.                                                *)

\* Every step keeps it that a server runs once what it has committed.
LEMMA RunsStep ==
    ASSUME TypeInv, RecordsInv, RunsInv, FailoverNext \/ UNCHANGED fvars
    PROVE  RunsInv'
  <1>1. TypeOK /\ FailoverTypeOK
    BY DEF TypeInv, FailoverTypeOK
  <1>2. CASE Generate /\ UNCHANGED failoverVars
    <2>1. ASSUME OnceInv PROVE OnceInv'
      BY <1>2, <2>1 DEF Generate, OnceInv, serverVars
    <2> QED BY <1>1, <1>2, <2>1, GenerateReceipts DEF RunsInv, failoverVars
  <1>3. ASSUME NEW req \in c2s, DeliverRequest(req), UNCHANGED failoverVars
        PROVE  RunsInv'
    <2>1. req \in Request /\ on_request(req)
      BY <1>1, <1>3 DEF TypeOK, NetTypeOK, DeliverRequest
    <2>2. c2s' \subseteq c2s /\ UNCHANGED clientVars
      BY <1>3 DEF DeliverRequest, DueRequest
    <2>3. ReceiptsInv => AcksReceived(req)
      BY DEF ReceiptsInv, AllRequests
    <2> QED BY <1>1, <1>3, <2>1, <2>2, <2>3, OnRequestOnce, OnRequestReceipts
            DEF RunsInv, failoverVars
  <1>4. CASE Commit /\ UNCHANGED failoverVars
    BY <1>1, <1>4, CommitOnce, CommitReceipts DEF RunsInv, failoverVars
  <1>5. ASSUME NEW resp \in s2c, DeliverResponse(resp), UNCHANGED failoverVars
        PROVE  RunsInv'
    <2>1. /\ resp \in Response
          /\ on_response(resp) \/ on_duplicate_response(resp)
          /\ UNCHANGED << c2s, serverVars >>
      BY <1>1, <1>5 DEF TypeOK, NetTypeOK, DeliverResponse
    <2>2. ASSUME OnceInv PROVE OnceInv'
      BY <2>1, <2>2 DEF OnceInv, serverVars
    <2>3. UNCHANGED << c2s, pending_reqs >>
      BY <2>1 DEF serverVars
    <2>4. ASSUME ReceiptsInv PROVE ReceiptsInv'
      BY <1>1, <2>1, <2>3, <2>4, OnResponseReceipts
    <2> QED BY <1>5, <2>2, <2>4 DEF RunsInv, failoverVars
  <1>6. CASE QuietStep
    BY <1>1, <1>6, QuietKeeps DEF QuietStep, RunsInv
  <1>7. CASE Crash
    <2>1. /\ RestoreFrom(checkpoint) /\ c2s' = c2s /\ UNCHANGED clientVars
          /\ UNCHANGED strayed
      BY <1>7 DEF Crash
    <2> QED BY <2>1, RestoreOnce DEF RunsInv
  <1>8. ASSUME NEW rp \in replays, DeliverReplay(rp)
        PROVE  RunsInv'
    <2> SUFFICES ASSUME ~strayed' PROVE OnceInv' /\ ReceiptsInv'
      BY DEF RunsInv
    <2>1. /\ ~strayed /\ HistoryInv /\ OrderInv /\ UNCHANGED << netVars, clientVars >>
      BY <1>8, DeliveredReplay DEF DeliverReplay
    <2>2. PICK got \in Replay : GoodReplay(got) /\ LeavesNoGap(got) /\ ingest_replay(got)
      BY <1>8, DeliveredReplay
    <2>3. OnceInv /\ ReceiptsInv
      BY <2>1 DEF RunsInv
    <2>4. OnceInv'
      BY <1>1, <2>1, <2>2, <2>3, IngestOnce
    <2>5. ReceiptsInv'
      BY <2>1, <2>2, <2>3, IngestReceipts
    <2> QED BY <2>4, <2>5
  <1> QED BY <1>1, <1>2, <1>3, <1>4, <1>5, <1>6, <1>7, <1>8, FailoverSteps

\* A server runs once what it has committed, until it strays.
LEMMA RunsInvariant == FailoverSpec => []RunsInv
  <1>1. FailoverInit => RunsInv
    <2> SUFFICES ASSUME FailoverInit PROVE RunsInv
      OBVIOUS
    <2>1. DOMAIN EmptyMap = {}
      BY DEF EmptyMap
    <2>2. OnceInv
      BY <2>1 DEF FailoverInit, Init, ServerInit, OnceInv
    <2>3. AllRequests = {}
      BY <2>1 DEF FailoverInit, Init, NetInit, ClientInit, ServerInit, AllRequests
    <2>4. /\ ResponsesIn(c_history) = {} /\ Ids(pending_new) = {}
          /\ 1 .. (base - 1) = {} /\ DOMAIN received_payload = {}
      BY <2>1 DEF FailoverInit, Init, ClientInit, ResponsesIn, Ids
    <2> QED BY <2>2, <2>3, <2>4 DEF RunsInv, ReceiptsInv
  <1>2. TypeInv /\ RecordsInv /\ RunsInv /\ [FailoverNext]_fvars => RunsInv'
    BY RunsStep
  <1> QED BY <1>1, <1>2, TypeInvariant, RecordsInvariant, PTL DEF FailoverSpec

\* Whatever is retransmitted, replayed or replayed again, on a server restored from
\* any checkpoint, one server object runs the application at most once for each
\* request: what a replay marks as awaiting it has never run, and runs once.
THEOREM OncePerServerCorrect == FailoverSpec => []OncePerServer
  <1>1. RunsInv => OncePerServer
    BY DEF RunsInv, OnceInv, OncePerServer
  <1> QED BY <1>1, RunsInvariant, PTL

-----------------------------------------------------------------------------
(* The first failover.                                                     *)

\* The server's history only grows, but for a crash.
LEMMA HistoryGrows ==
    ASSUME TypeInv, \/ \E req \in c2s : DeliverRequest(req)
                    \/ Commit
                    \/ UNCHANGED s_history
                    \/ \E rp \in Replay : ingest_replay(rp)
    PROVE  Len(s_history) \in Nat /\ Len(s_history') \in Nat /\ Len(s_history) <= Len(s_history')
  <1>1. TypeOK /\ s_history \in Seq(Event) /\ Len(s_history) \in Nat
    BY DEF TypeInv, FailoverTypeOK, TypeOK, ServerTypeOK
  <1>2. CASE UNCHANGED s_history
    BY <1>1, <1>2
  <1>3. ASSUME NEW evs \in Seq(Event), s_history' = s_history \o evs
        PROVE  Len(s_history') \in Nat /\ Len(s_history) <= Len(s_history')
    <2>1. Len(s_history') = Len(s_history) + Len(evs) /\ Len(evs) \in Nat
      BY <1>1, <1>3, ConcatProperties
    <2> QED BY <1>1, <2>1
  <1>4. ASSUME NEW req \in c2s, DeliverRequest(req)
        PROVE  UNCHANGED s_history
    BY <1>4 DEF DeliverRequest, on_request, AskForReplay, ResendBuffered,
                ReprocessAwaiting, AcknowledgeOnly, Stage, serverVars
  <1>5. CASE Commit
    <2>1. CASE CommitDone
      BY <1>2, <2>1 DEF CommitDone
    <2>2. CASE CommitNext
      <3> DEFINE r == pending_reqs[NextInOrder]
      <3>1. s_history' = s_history \o EventsOf(r) /\ NextInOrder \in DOMAIN pending_reqs
        BY <2>2 DEF CommitNext
      <3>2. r.ack_new \in Seq(SeqNo) /\ r.seq \in SeqNo
        BY <1>1, <3>1 DEF TypeOK, ServerTypeOK, Request
      <3> HIDE DEF r
      <3>3. EventsOf(r) \in Seq(Event)
        BY <3>2, CommittedShape DEF EventsOf
      <3> QED BY <1>1, <1>3, <3>1, <3>3
    <2> QED BY <1>5, <2>1, <2>2 DEF Commit
  <1>6. ASSUME NEW rp \in Replay, ingest_replay(rp)
        PROVE  Len(s_history') \in Nat /\ Len(s_history) <= Len(s_history')
    <2>1. s_history' = s_history \o Unseen(rp)
      BY <1>6 DEF ingest_replay
    <2> QED BY <1>1, <1>3, <2>1, UnseenType
  <1> QED BY <1>1, <1>2, <1>4, <1>5, <1>6

\* A 503 asks for what this server lacks; no other answer asks for anything.
LEMMA AskedFor ==
    ASSUME NEW req, on_request(req)
    PROVE  \A resp \in AllResponses' :
               \/ resp \in AllResponses
               \/ ~resp.recover
               \/ resp.recover_from = Len(s_history)
  <1>1. \A n, p, b, h : make_response(n, p, b, h).recover = FALSE
    BY DEF make_response
  <1>2. \A n : RecoverSignal(n).recover_from = Len(s_history)
    BY DEF RecoverSignal
  <1>3. CASE AskForReplay(req)
    <2>1. out' = out /\ s2c' = s2c \cup {RecoverSignal(req.seq)}
      BY <1>3 DEF AskForReplay, SendResponses, serverVars
    <2> QED BY <1>2, <2>1 DEF AllResponses
  <1>4. CASE ResendBuffered(req)
    <2> DEFINE new == make_response(req.seq, resp_buffer[req.seq], FALSE, s_req_hash)
    <2>1. new.recover = FALSE
      BY <1>1
    <2>2. out' = out /\ s2c' = s2c \cup {new}
      BY <1>4 DEF ResendBuffered, SendResponses
    <2> HIDE DEF new
    <2> QED BY <2>1, <2>2 DEF AllResponses
  <1>5. CASE ReprocessAwaiting(req)
    <2> DEFINE new == make_response(req.seq, AppResult(req.seq), FALSE, s_req_hash)
    <2>1. new.recover = FALSE
      BY <1>1
    <2>2. out' = out /\ s2c' = s2c \cup {new}
      BY <1>5 DEF ReprocessAwaiting, SendResponses
    <2> HIDE DEF new
    <2> QED BY <2>1, <2>2 DEF AllResponses
  <1>6. CASE AcknowledgeOnly(req)
    <2> DEFINE new == make_response(req.seq, NoPayload, TRUE, s_req_hash)
    <2>1. new.recover = FALSE
      BY <1>1
    <2>2. out' = out /\ s2c' = s2c \cup {new}
      BY <1>6 DEF AcknowledgeOnly, SendResponses
    <2> HIDE DEF new
    <2> QED BY <2>1, <2>2 DEF AllResponses
  <1>7. CASE Stage(req)
    BY <1>7 DEF Stage, AllResponses
  <1> QED BY <1>3, <1>4, <1>5, <1>6, <1>7 DEF on_request

\* The commit loop answers no request with a 503.
LEMMA CommitAsksNothing ==
    ASSUME Commit
    PROVE  \A resp \in AllResponses' : resp \in AllResponses \/ ~resp.recover
  <1>1. \A n, p, b, h : make_response(n, p, b, h).recover = FALSE
    BY DEF make_response
  <1>2. CASE CommitNext
    BY <1>1, <1>2 DEF CommitNext, AllResponses
  <1>3. CASE CommitDone
    BY <1>3 DEF CommitDone, SendResponses, AllResponses
  <1> QED BY <1>2, <1>3 DEF Commit

\* A step of the conversation: what it has to keep of each part of the invariant.
LEMMA OneCrashOfConversation ==
    ASSUME TypeInv, OneCrashInv, UNCHANGED failoverVars,
           crashes = 0 => AckInv' /\ awaiting' = {},
           crashes <= 1 /\ torn = 0 => AnswerableInv({})',
           received \subseteq received',
           Len(s_history) \in Nat, Len(s_history') \in Nat,
           Len(s_history) <= Len(s_history'),
           \A resp \in AllResponses' : \/ resp \in AllResponses
                                       \/ ~resp.recover
                                       \/ resp.recover_from = Len(s_history)
    PROVE  OneCrashInv'
  <1>1. AllReplays' = AllReplays /\ UNCHANGED << checkpoint, crashes, strayed, torn >>
    BY DEF AllReplays, failoverVars
  <1>2. ASSUME crashes = 0
        PROVE  /\ AckInv' /\ AllReplays' = {} /\ awaiting' = {} /\ torn = 0
               /\ CheckpointAnswerable(checkpoint, {})'
    <2>1. AllReplays = {} /\ CheckpointAnswerable(checkpoint, {}) /\ torn = 0
      BY <1>2 DEF OneCrashInv
    <2>2. CheckpointAnswerable(checkpoint, {})'
      BY <1>1, <2>1 DEF CheckpointAnswerable
    <2> QED BY <1>1, <1>2, <2>1, <2>2
  <1>3. ASSUME crashes <= 1, torn = 0
        PROVE  /\ ~strayed
               /\ \A rp \in AllReplays' : rp.from <= Len(s_history')
               /\ \A resp \in AllResponses' :
                      resp.recover => resp.recover_from <= Len(s_history')
    <2>1. /\ ~strayed
          /\ \A rp \in AllReplays : rp.from <= Len(s_history)
          /\ \A resp \in AllResponses :
                 resp.recover => resp.recover_from <= Len(s_history)
      BY <1>3 DEF OneCrashInv
    <2>2. TypeOK /\ AllReplays \subseteq Replay
      BY ReplaysType DEF TypeInv
    <2>3. /\ \A rp \in AllReplays : rp.from \in Nat
          /\ \A resp \in AllResponses : resp.recover_from \in Nat
      BY <2>2, AllMessagesType DEF Replay, Response
    <2>4. \A k \in Nat : k <= Len(s_history) => k <= Len(s_history')
      OBVIOUS
    <2>5. \A rp \in AllReplays' : rp.from <= Len(s_history')
      BY <1>1, <2>1, <2>3, <2>4
    <2>6. \A resp \in AllResponses' :
              resp.recover => resp.recover_from <= Len(s_history')
      BY <2>1, <2>3, <2>4
    <2> QED BY <2>1, <2>5, <2>6
  <1> QED BY <1>1, <1>2, <1>3 DEF OneCrashInv

\* Without a crash nothing is awaited, whatever request is handled.
LEMMA NothingAwaited ==
    ASSUME NEW req, on_request(req), awaiting = {}
    PROVE  awaiting' = {}
  BY DEF on_request, AskForReplay, ResendBuffered, ReprocessAwaiting, AcknowledgeOnly,
         Stage, serverVars

\* Every step keeps the first failover safe.
LEMMA OneCrashStep ==
    ASSUME TypeInv, RecordsInv, RunsInv, OneCrashInv, FailoverNext \/ UNCHANGED fvars
    PROVE  OneCrashInv'
  <1>1. TypeOK /\ FailoverTypeOK /\ crashes \in Nat
    BY CrashAssumption DEF TypeInv, FailoverTypeOK
  <1>2. crashes <= 1 /\ torn = 0 => ~strayed /\ HistoryInv /\ OrderInv /\ ReceiptsInv
    BY DEF OneCrashInv, RecordsInv, RunsInv
  <1>3. CASE Generate /\ UNCHANGED failoverVars
    <2>1. crashes = 0 => AckInv' /\ awaiting' = {}
      BY <1>1, <1>3, GenerateAcks DEF OneCrashInv, Generate, serverVars
    <2>2. UNCHANGED << received, received_payload, s2c, serverVars >>
      BY <1>3 DEF Generate, generate_request
    <2>3. AllResponses' = AllResponses /\ UNCHANGED s_history
      BY <2>2 DEF AllResponses, serverVars
    <2>4. crashes <= 1 /\ torn = 0 => AnswerableInv({})'
      BY <2>2, <2>3 DEF OneCrashInv, AnswerableInv, serverVars
    <2>5. /\ Len(s_history) \in Nat /\ Len(s_history') \in Nat
          /\ Len(s_history) <= Len(s_history')
      BY <2>3, HistoryGrows
    <2> QED BY <1>3, <2>1, <2>2, <2>3, <2>4, <2>5, OneCrashOfConversation
  <1>4. ASSUME NEW req \in c2s, DeliverRequest(req), UNCHANGED failoverVars
        PROVE  OneCrashInv'
    <2>1. req \in Request /\ on_request(req) /\ UNCHANGED clientVars
      BY <1>1, <1>4 DEF TypeOK, NetTypeOK, DeliverRequest
    <2>2. crashes = 0 => AckInv' /\ awaiting' = {}
      BY <1>1, <1>4, <2>1, DeliverRequestAcks, NothingAwaited DEF OneCrashInv
    <2>3. crashes <= 1 /\ torn = 0 => AnswerableInv({})'
      <3>1. crashes <= 1 /\ torn = 0 => AcksReceived(req) /\ AnswerableInv({})
        BY <1>2 DEF ReceiptsInv, AllRequests, OneCrashInv
      <3> QED BY <1>1, <2>1, <3>1, OnRequestAnswerable
    <2>4. received \subseteq received'
      BY <2>1 DEF clientVars
    <2>5. /\ Len(s_history) \in Nat /\ Len(s_history') \in Nat
          /\ Len(s_history) <= Len(s_history')
      BY <1>4, HistoryGrows
    <2>6. \A resp \in AllResponses' : \/ resp \in AllResponses
                                      \/ ~resp.recover
                                      \/ resp.recover_from = Len(s_history)
      BY <2>1, AskedFor
    <2> QED BY <1>4, <2>2, <2>3, <2>4, <2>5, <2>6, OneCrashOfConversation
  <1>5. CASE Commit /\ UNCHANGED failoverVars
    <2>1. crashes = 0 => AckInv' /\ awaiting' = {}
      BY <1>1, <1>5, CommitAcks DEF OneCrashInv, Commit, CommitNext, CommitDone
    <2>2. crashes <= 1 /\ torn = 0 => AnswerableInv({})'
      BY <1>1, <1>5, CommitAnswerable DEF OneCrashInv
    <2>3. received \subseteq received'
      BY <1>5 DEF Commit, clientVars
    <2>4. /\ Len(s_history) \in Nat /\ Len(s_history') \in Nat
          /\ Len(s_history) <= Len(s_history')
      BY <1>5, HistoryGrows
    <2>5. \A resp \in AllResponses' : resp \in AllResponses \/ ~resp.recover
      BY <1>5, CommitAsksNothing
    <2> QED BY <1>5, <2>1, <2>2, <2>3, <2>4, <2>5, OneCrashOfConversation
  <1>6. ASSUME NEW resp \in s2c, DeliverResponse(resp), UNCHANGED failoverVars
        PROVE  OneCrashInv'
    <2>1. /\ on_response(resp) \/ on_duplicate_response(resp)
          /\ UNCHANGED serverVars /\ s2c' \subseteq s2c
      BY <1>6 DEF DeliverResponse, DueResponse
    <2>2. crashes = 0 => AckInv' /\ awaiting' = {}
      BY <1>1, <1>6, <2>1, DeliverResponseAcks DEF OneCrashInv, serverVars
    <2>3. crashes <= 1 /\ torn = 0 => AnswerableInv({})'
      BY <1>1, <2>1, OnResponseAnswerable DEF OneCrashInv
    <2>4. received \subseteq received'
      BY <2>1 DEF on_response, on_duplicate_response, clientVars
    <2>5. AllResponses' \subseteq AllResponses /\ UNCHANGED s_history
      BY <2>1 DEF AllResponses, serverVars
    <2>6. /\ Len(s_history) \in Nat /\ Len(s_history') \in Nat
          /\ Len(s_history) <= Len(s_history')
      BY <2>5, HistoryGrows
    <2> QED BY <1>6, <2>2, <2>3, <2>4, <2>5, <2>6, OneCrashOfConversation
  <1>7. CASE QuietStep
    <2>1. /\ QuietLinks /\ UNCHANGED << crashes, strayed, torn >>
          /\ UNCHANGED << received, s_history, awaiting >>
          /\ AllResponses' \subseteq AllResponses
      BY <1>7 DEF QuietStep, QuietLinks, clientVars, serverVars, AllResponses
    <2>2. ASSUME crashes = 0
          PROVE  /\ AckInv' /\ AllReplays' = {} /\ awaiting' = {} /\ torn' = 0
                 /\ CheckpointAnswerable(checkpoint, {})'
      <3>1. /\ AckInv /\ AllReplays = {} /\ awaiting = {} /\ AnswerableInv({})
            /\ torn = 0
            /\ CheckpointAnswerable(checkpoint, {})
        BY <2>2 DEF OneCrashInv
      <3>2. AckInv'
        BY <1>1, <2>1, <3>1, QuietKeeps
      <3>3. AllReplays' = {}
        <4>1. \A resp \in s2c : ~resp.recover
          BY <3>1 DEF AckInv, AllResponses
        <4> QED BY <1>7, <3>1, <4>1 DEF QuietStep
      <3>4. CheckpointAnswerable(Snapshot, {})
        BY <3>1, SnapshotAnswerable
      <3>5. CheckpointAnswerable(NoCheckpoint, {})
        <4>1. next_seq \in Nat \ {0}
          BY <1>1 DEF TypeOK, ClientTypeOK, SeqNo
        <4> QED BY <4>1, NoCheckpointGood
      <3>6. CheckpointAnswerable(checkpoint', {})
        BY <1>7, <3>1, <3>4, <3>5 DEF QuietStep
      <3>7. CheckpointAnswerable(checkpoint, {})'
        BY <2>1, <3>6 DEF CheckpointAnswerable
      <3> QED BY <2>1, <3>1, <3>2, <3>3, <3>7
    <2>3. ASSUME crashes <= 1, torn = 0
          PROVE  /\ ~strayed'
                 /\ \A rp \in AllReplays' : rp.from <= Len(s_history')
                 /\ \A resp \in AllResponses' :
                        resp.recover => resp.recover_from <= Len(s_history')
                 /\ AnswerableInv({})'
      <3>1. /\ ~strayed
            /\ \A rp \in AllReplays : rp.from <= Len(s_history)
            /\ \A resp \in AllResponses :
                   resp.recover => resp.recover_from <= Len(s_history)
            /\ AnswerableInv({})
        BY <2>3 DEF OneCrashInv
      <3>2. AnswerableInv({})'
        BY <1>1, <2>1, <3>1, QuietKeeps
      <3>3. ASSUME NEW rp \in AllReplays'
            PROVE  rp.from <= Len(s_history)
        <4>1. CASE rp \in AllReplays
          BY <3>1, <4>1
        <4>2. CASE rp \notin AllReplays
          <5>1. PICK resp \in s2c : resp.recover /\ rp = build_replay(resp.recover_from)
            BY <1>7, <4>2 DEF QuietStep
          <5>2. rp.from = resp.recover_from
            BY <5>1 DEF build_replay
          <5> QED BY <3>1, <5>1, <5>2 DEF AllResponses
        <4> QED BY <4>1, <4>2
      <3> QED BY <2>1, <3>1, <3>2, <3>3
    <2> QED BY <2>1, <2>2, <2>3 DEF OneCrashInv
  <1>8. CASE Crash
    <2>1. /\ RestoreFrom(checkpoint) /\ s2c' \subseteq s2c /\ UNCHANGED clientVars
          /\ replays' \subseteq replays
          /\ UNCHANGED << recovering, strayed, torn >> /\ crashes' = crashes + 1
          /\ out' = {}
      BY <1>8 DEF Crash, RestoreFrom
    <2> SUFFICES ASSUME crashes = 0 PROVE OneCrashInv'
      <3>1. crashes # 0 => crashes' # 0 /\ ~(crashes' <= 1)
        BY <1>1, <2>1
      <3>2. crashes' # 0
        BY <1>1, <2>1
      <3> QED BY <3>1, <3>2 DEF OneCrashInv
    <2>2. /\ AckInv /\ AllReplays = {} /\ CheckpointAnswerable(checkpoint, {})
          /\ ~strayed /\ AnswerableInv({})
      BY DEF OneCrashInv
    <2>3. AllReplays' = {}
      BY <2>1, <2>2 DEF AllReplays
    <2>4. \A resp \in AllResponses' : ~resp.recover
      BY <2>1, <2>2 DEF AckInv, AllResponses
    <2>5. AnswerableInv({})'
      BY <2>1, <2>2, RestoreAnswerable
    <2>6. crashes' # 0
      BY <2>1
    <2> QED BY <2>1, <2>2, <2>3, <2>4, <2>5, <2>6 DEF OneCrashInv
  <1>9. ASSUME NEW rp \in replays, DeliverReplay(rp)
        PROVE  OneCrashInv'
    <2>1. IngestsOf(rp) /\ rp \in Replay /\ rp \in AllReplays
      BY <1>1, <1>9, DeliveryIngests DEF TypeInv
    <2>2. /\ UNCHANGED << netVars, clientVars, crashes, recovering >>
          /\ AllReplays' \subseteq AllReplays /\ AllReplays \subseteq Replay
      BY <1>1, <2>1, ReplaysType DEF IngestsOf, AllReplays
    <2>3. crashes # 0 /\ crashes' # 0
      BY <2>1, <2>2 DEF OneCrashInv
    <2> SUFFICES ASSUME crashes <= 1, torn' = 0 PROVE OneCrashInv'
      BY <2>2, <2>3 DEF OneCrashInv
    <2>4. PICK got : Ingests(rp, got)
      BY <2>1 DEF IngestsOf
    <2>5. got \in Replay /\ ingest_replay(got) /\ got \in CleanCuts(rp) /\ torn = 0
      <3>1. torn \in Nat
        BY <1>1, CrashAssumption DEF FailoverTypeOK
      <3>2. ~(torn' = torn + 1)
        BY <3>1
      <3> QED BY <2>4, <3>2 DEF Ingests
    <2>6. /\ ~strayed
          /\ \A r \in AllReplays : r.from <= Len(s_history)
          /\ \A resp \in AllResponses :
                 resp.recover => resp.recover_from <= Len(s_history)
          /\ AnswerableInv({})
      BY <2>5 DEF OneCrashInv
    <2>7. Len(s_history) \in Nat /\ Len(s_history') \in Nat /\ Len(s_history) <= Len(s_history')
      BY <2>5, HistoryGrows
    <2>8. LeavesNoGap(got) /\ ~strayed'
      <3>1. LeavesNoGap(rp)
        BY <2>1, <2>6 DEF LeavesNoGap
      <3>2. LeavesNoGap(got)
        BY <1>1, <2>1, <2>5, <3>1, CleanCutNoGap DEF TypeOK, ServerTypeOK
      <3>3. ~(torn' = torn + 1)
        BY <2>5
      <3> QED BY <2>4, <2>6, <3>2, <3>3 DEF Ingests
    <2>9. AnswerableInv({})'
      <3>1. HistoryInv /\ OrderInv /\ ReceiptsInv
        BY <1>2, <2>5
      <3>2. GoodReplay(got)
        <4>1. GoodReplay(rp)
          BY <2>1, <2>6 DEF RecordsInv
        <4> QED BY <1>1, <2>1, <2>5, <3>1, <4>1, CleanCutGood DEF HistoryInv
      <3> QED BY <1>1, <2>2, <2>5, <2>6, <2>8, <3>1, <3>2, IngestAnswerable
    <2>10. AllResponses' = AllResponses
      BY <2>2, <2>5 DEF AllResponses, ingest_replay, netVars
    <2>11. /\ \A r \in AllReplays : r.from \in Nat
           /\ \A resp \in AllResponses : resp.recover_from \in Nat
      BY <1>1, <2>2, AllMessagesType DEF Replay, Response
    <2>12. \A k \in Nat : k <= Len(s_history) => k <= Len(s_history')
      BY <2>7
    <2>13. /\ \A r \in AllReplays' : r.from <= Len(s_history')
           /\ \A resp \in AllResponses' :
                  resp.recover => resp.recover_from <= Len(s_history')
      BY <2>2, <2>6, <2>10, <2>11, <2>12
    <2> QED BY <2>3, <2>8, <2>9, <2>13 DEF OneCrashInv
  <1> QED BY <1>1, <1>3, <1>4, <1>5, <1>6, <1>7, <1>8, <1>9, FailoverSteps

\* Two crashes, or a torn replay, come first.
LEMMA OneCrashInvariant == FailoverSpec => []OneCrashInv
  <1>1. FailoverInit => OneCrashInv
    <2> SUFFICES ASSUME FailoverInit PROVE OneCrashInv
      OBVIOUS
    <2>1. DOMAIN EmptyMap = {}
      BY DEF EmptyMap
    <2>2. AckInv /\ next_seq = 1 /\ awaiting = {} /\ committed_upto = 0 /\ received = {}
      BY InitAcks DEF FailoverInit, Init, ClientInit, ServerInit
    <2>3. AllReplays = {} /\ AllResponses = {}
      BY <2>1 DEF AllReplays, AllResponses, FailoverInit, Init, NetInit, ServerInit
    <2>4. CheckpointAnswerable(checkpoint, {})
      BY <2>2, NoCheckpointGood DEF FailoverInit
    <2>5. AnswerableInv({})
      <3>1. 1 .. committed_upto = {}
        BY <2>2
      <3> QED BY <2>2, <2>3, <3>1 DEF AnswerableInv
    <2>6. ~strayed /\ torn = 0
      BY DEF FailoverInit
    <2> QED BY <2>2, <2>3, <2>4, <2>5, <2>6 DEF OneCrashInv
  <1>2. TypeInv /\ RecordsInv /\ RunsInv /\ OneCrashInv /\ [FailoverNext]_fvars => OneCrashInv'
    BY OneCrashStep
  <1> QED BY <1>1, <1>2, TypeInvariant, RecordsInvariant, RunsInvariant, PTL
          DEF FailoverSpec

\* The first failover of any conversation is survived: whatever checkpoint the
\* replacement starts from, even an older or a spoilt one, it is never asked to append
\* past a gap, however late a replay arrives, and no request is completed without its
\* response, even if replays are read short, as long as none is torn.
THEOREM OneFailoverSafe == FailoverSpec => []OneFailoverIsSafe
  <1>1. RunsInv /\ OneCrashInv => OneFailoverIsSafe
    BY DEF RunsInv, OneCrashInv, ReceiptsInv, AnswerableInv, OneFailoverIsSafe
  <1> QED BY <1>1, RunsInvariant, OneCrashInvariant, PTL

-----------------------------------------------------------------------------
(* Staged requests.                                                        *)

\* A replay never takes the frontier back, torn or not.
LEMMA IngestAdvances ==
    ASSUME TypeInv, NEW rp \in Replay, ingest_replay(rp),
           RequestsIn(rp.events) \subseteq 0 .. (next_seq - 1)
    PROVE  committed_upto' \in Nat /\ committed_upto <= committed_upto'
  <1> DEFINE S == RequestsIn(Unseen(rp)) \cup {committed_upto}
             B == next_seq - 1
  <1>1. /\ committed_upto \in Nat /\ B \in Nat /\ s_history \in Seq(Event)
        /\ RequestsIn(rp.events) \subseteq 0 .. B
    BY DEF TypeInv, FailoverTypeOK, TypeOK, ServerTypeOK, ClientTypeOK, SeqNo
  <1>2. RequestsIn(Unseen(rp)) \subseteq 0 .. B
    <2> HIDE DEF B
    <2> QED BY <1>1, UnseenType
  <1>3. PICK C \in Nat : S \subseteq 0 .. C
    <2>1. CASE B < committed_upto
      BY <1>1, <1>2, <2>1
    <2>2. CASE ~(B < committed_upto)
      BY <1>1, <1>2, <2>2
    <2> QED BY <2>1, <2>2
  <1>4. \E m \in S : \A n \in S : n <= m
    <2>1. S # {}
      OBVIOUS
    <2> HIDE DEF S
    <2> QED BY <1>3, <2>1, GreatestExists
  <1>5. Frontier(Unseen(rp)) \in S /\ \A n \in S : n <= Frontier(Unseen(rp))
    BY <1>4 DEF Frontier
  <1>6. committed_upto' = Frontier(Unseen(rp))
    BY DEF ingest_replay
  <1> QED BY <1>3, <1>5, <1>6

\* Requests stay staged, or leave, and the frontier does not move back.
LEMMA StagedKept ==
    ASSUME StagedAcksCommitted, TypeInv,
           committed_upto' \in Nat, committed_upto <= committed_upto',
           \A n \in DOMAIN pending_reqs' :
               n \in DOMAIN pending_reqs /\ pending_reqs'[n] = pending_reqs[n]
    PROVE  StagedAcksCommitted'
  <1>1. committed_upto \in Nat /\ \A n \in DOMAIN pending_reqs : pending_reqs[n].ack_base \in Nat
    BY DEF TypeInv, FailoverTypeOK, TypeOK, ServerTypeOK, Request, SeqNo
  <1>2. 1 .. committed_upto \subseteq 1 .. committed_upto'
    BY <1>1
  <1> SUFFICES ASSUME NEW n \in DOMAIN pending_reqs'
               PROVE  /\ pending_reqs'[n].ack_base <= committed_upto' + 1
                      /\ Ids(pending_reqs'[n].ack_new) \subseteq 1 .. committed_upto'
    BY DEF StagedAcksCommitted, Ids
  <1>3. n \in DOMAIN pending_reqs /\ pending_reqs'[n] = pending_reqs[n]
    OBVIOUS
  <1>4. /\ pending_reqs[n].ack_base <= committed_upto + 1
        /\ Ids(pending_reqs[n].ack_new) \subseteq 1 .. committed_upto
    BY <1>3 DEF StagedAcksCommitted
  <1> QED BY <1>1, <1>2, <1>3, <1>4

\* Every step keeps what is staged within what is committed.
LEMMA StagedStep ==
    ASSUME TypeInv, StagedAcksCommitted, FailoverNext \/ UNCHANGED fvars
    PROVE  StagedAcksCommitted'
  <1>1. FailoverTypeOK /\ TypeOK /\ committed_upto \in Nat
    BY DEF TypeInv, FailoverTypeOK, TypeOK, ServerTypeOK
  <1>2. CASE UNCHANGED << pending_reqs, committed_upto >>
    BY <1>1, <1>2, StagedKept
  <1>3. ASSUME NEW req \in c2s, DeliverRequest(req)
        PROVE  StagedAcksCommitted'
    <2>1. /\ req \in Request /\ on_request(req)
      BY <1>1, <1>3 DEF TypeOK, NetTypeOK, DeliverRequest
    <2>2. CASE Stage(req)
      <3>1. /\ req.ack_base <= committed_upto + 1
            /\ Ids(req.ack_new) \subseteq 1 .. committed_upto
        <4>1. /\ req.ack_base \in Nat /\ req.ack_new \in Seq(SeqNo)
          BY <2>1 DEF Request, SeqNo
        <4>2. Ids(req.ack_new) \subseteq SeqNo
          BY <4>1 DEF Ids
        <4>3. /\ ~(req.ack_base > committed_upto + 1)
              /\ \A i \in Ids(req.ack_new) : ~(i > committed_upto)
          BY <2>2 DEF Stage, needs_recover
        <4>4. \A i \in SeqNo : ~(i > committed_upto) => i \in 1 .. committed_upto
          BY <1>1 DEF SeqNo
        <4> QED BY <1>1, <4>1, <4>2, <4>3, <4>4
      <3>2. committed_upto' = committed_upto /\ pending_reqs' = Put(pending_reqs, req.seq, req)
        BY <2>2 DEF Stage
      <3>3. ASSUME NEW n \in DOMAIN pending_reqs'
            PROVE  \/ pending_reqs'[n] = req
                   \/ n \in DOMAIN pending_reqs /\ pending_reqs'[n] = pending_reqs[n]
        BY <3>2 DEF Put
      <3>4. ASSUME NEW n \in DOMAIN pending_reqs'
            PROVE  /\ pending_reqs'[n].ack_base <= committed_upto' + 1
                   /\ Ids(pending_reqs'[n].ack_new) \subseteq 1 .. committed_upto'
        BY <3>1, <3>2, <3>3 DEF StagedAcksCommitted
      <3> QED BY <3>4 DEF StagedAcksCommitted, Ids
    <2>3. CASE ~Stage(req)
      BY <1>2, <2>1, <2>3 DEF on_request, AskForReplay, ResendBuffered, ReprocessAwaiting,
                              AcknowledgeOnly, serverVars
    <2> QED BY <2>2, <2>3
  <1>4. CASE Commit
    <2>1. CASE CommitDone
      BY <1>2, <2>1 DEF CommitDone
    <2>2. CASE CommitNext
      <3>1. /\ committed_upto' = committed_upto + 1
            /\ pending_reqs' = Erase(pending_reqs, {NextInOrder})
        BY <2>2 DEF CommitNext, NextInOrder
      <3> QED BY <1>1, <3>1, StagedKept DEF Erase
    <2> QED BY <1>4, <2>1, <2>2 DEF Commit
  <1>5. CASE Crash
    <2>1. pending_reqs' = EmptyMap
      BY <1>5 DEF Crash, RestoreFrom
    <2> QED BY <2>1 DEF StagedAcksCommitted, EmptyMap
  <1>6. ASSUME NEW rp \in replays, DeliverReplay(rp)
        PROVE  StagedAcksCommitted'
    <2>1. PICK got : Ingests(rp, got)
      BY <1>1, <1>6, DeliveryIngests DEF IngestsOf, TypeInv
    <2>2. pending_reqs' = pending_reqs
      BY <2>1 DEF Ingests, ingest_replay
    <2>3. committed_upto' \in Nat /\ committed_upto <= committed_upto'
      BY <2>1, IngestAdvances DEF Ingests
    <2> QED BY <2>2, <2>3, StagedKept
  <1>7. CASE Generate \/ QuietStep \/ \E resp \in s2c : DeliverResponse(resp)
    BY <1>2, <1>7 DEF Generate, QuietStep, QuietLinks, DeliverResponse, serverVars
  <1> QED BY <1>1, <1>3, <1>4, <1>5, <1>6, <1>7, FailoverSteps

\* However many servers fail and replays are ingested, past a gap or torn, the commit
\* loop never records the answer to a request that the server has not committed.
THEOREM StagedAcksCorrect == FailoverSpec => []StagedAcksCommitted
  <1>1. FailoverInit => StagedAcksCommitted
    BY DEF FailoverInit, Init, ServerInit, StagedAcksCommitted, EmptyMap
  <1>2. TypeInv /\ StagedAcksCommitted /\ [FailoverNext]_fvars => StagedAcksCommitted'
    BY StagedStep
  <1> QED BY <1>1, <1>2, TypeInvariant, PTL DEF FailoverSpec

-----------------------------------------------------------------------------
(* Failover implements the recoverable history.                            *)

\* Even from a server that has strayed only results of the application are kept, sent
\* or delivered, and the checkpoint is not ahead of the server.
LedgerInv ==
    /\ ResultsInv
    /\ CheckpointResults(checkpoint)
    /\ IssuedInv
    /\ checkpoint.committed_upto <= committed_upto

\* Every step keeps it so.
LEMMA LedgerStep ==
    ASSUME TypeInv, LedgerInv, FailoverNext \/ UNCHANGED fvars
    PROVE  LedgerInv'
  <1>1. /\ FailoverTypeOK /\ TypeOK /\ ServerTypeOK /\ committed_upto \in Nat
        /\ checkpoint.committed_upto \in Nat
    BY DEF TypeInv, FailoverTypeOK, TypeOK, ServerTypeOK, IsCheckpoint
  <1>2. ResultsInv /\ CheckpointResults(checkpoint) /\ IssuedInv
    BY DEF LedgerInv
  <1>3. ASSUME ResultsStand, checkpoint' = checkpoint
        PROVE  CheckpointResults(checkpoint)'
    BY <1>2, <1>3 DEF CheckpointResults, ResultsStand
  <1>4. ASSUME Generate, UNCHANGED failoverVars
        PROVE  LedgerInv'
    <2>1. UNCHANGED << serverVars, s2c, received_payload, checkpoint >>
      BY <1>4 DEF Generate, generate_request, failoverVars
    <2>2. ResultsInv' /\ ResultsStand
      BY <1>2, <2>1, ResultsKept DEF serverVars, AllResponses
    <2> QED BY <1>1, <1>2, <1>3, <1>4, <2>1, <2>2, GenerateIssued DEF LedgerInv, serverVars
  <1>5. ASSUME NEW req \in c2s, DeliverRequest(req), UNCHANGED failoverVars
        PROVE  LedgerInv'
    <2>1. /\ on_request(req) /\ c2s' \subseteq c2s
          /\ UNCHANGED << clientVars, received_payload, checkpoint >>
      BY <1>5 DEF DeliverRequest, DueRequest, failoverVars, clientVars
    <2>2. req.seq < next_seq
      BY <1>2 DEF IssuedInv, AllRequests
    <2>3. committed_upto' = committed_upto
      BY <2>1 DEF on_request, AskForReplay, ResendBuffered, ReprocessAwaiting,
                  AcknowledgeOnly, Stage, serverVars
    <2>4. ResultsInv' /\ ResultsStand
      BY <1>1, <1>2, <2>1, OnRequestResults
    <2>5. IssuedInv'
      BY <1>2, <2>1, <2>2, OnRequestIssued
    <2> QED BY <1>3, <2>1, <2>3, <2>4, <2>5 DEF LedgerInv
  <1>6. ASSUME Commit, UNCHANGED failoverVars
        PROVE  LedgerInv'
    <2>1. /\ CommitNext \/ CommitDone
          /\ UNCHANGED << received_payload, checkpoint >>
      BY <1>6 DEF Commit, failoverVars, clientVars
    <2>2. committed_upto' \in {committed_upto, committed_upto + 1}
      BY <2>1 DEF CommitNext, CommitDone, NextInOrder
    <2>3. checkpoint'.committed_upto <= committed_upto'
      BY <1>1, <2>1, <2>2 DEF LedgerInv
    <2>4. ResultsInv' /\ ResultsStand
      BY <1>1, <1>2, <2>1, CommitResults
    <2>5. IssuedInv'
      BY <1>1, <1>2, <1>6, CommitIssued
    <2> QED BY <1>3, <2>1, <2>3, <2>4, <2>5 DEF LedgerInv
  <1>7. ASSUME NEW resp \in s2c, DeliverResponse(resp), UNCHANGED failoverVars
        PROVE  LedgerInv'
    <2>1. /\ on_response(resp) \/ on_duplicate_response(resp)
          /\ ~resp.recover /\ s2c' \subseteq s2c
          /\ UNCHANGED << c2s, serverVars, checkpoint, committed_upto >>
      BY <1>7 DEF DeliverResponse, DueResponse, failoverVars, serverVars
    <2>2. ResultsInv' /\ ResultsStand
      BY <1>2, <2>1, OnResponseResults
    <2>3. IssuedInv'
      BY <1>2, <2>1, OnResponseIssued
    <2> QED BY <1>3, <2>1, <2>2, <2>3 DEF LedgerInv
  <1>8. ASSUME QuietStep
        PROVE  LedgerInv'
    <2>1. /\ UNCHANGED << clientVars, serverVars >>
          /\ checkpoint' \in {checkpoint, Snapshot, NoCheckpoint}
          /\ AllRequests' \subseteq AllRequests /\ AllResponses' \subseteq AllResponses
      BY <1>8 DEF QuietStep, QuietLinks, AllRequests, AllResponses, clientVars, serverVars
    <2>2. ResultsInv' /\ ResultsStand
      BY <1>2, <2>1, ResultsKept DEF clientVars, serverVars
    <2>3. IssuedInv'
      BY <1>2, <2>1, IssuedKept
    <2>4. CheckpointResults(checkpoint')
      BY <1>2, <2>1, SnapshotResults DEF CheckpointResults, NoCheckpoint, EmptyMap
    <2>5. CheckpointResults(checkpoint)'
      BY <2>2, <2>4 DEF CheckpointResults, ResultsStand
    <2>6. checkpoint'.committed_upto <= committed_upto
      BY <1>1, <2>1 DEF LedgerInv, Snapshot, NoCheckpoint
    <2> QED BY <2>1, <2>2, <2>3, <2>5, <2>6 DEF LedgerInv, serverVars
  <1>9. ASSUME Crash
        PROVE  LedgerInv'
    <2>1. /\ RestoreFrom(checkpoint) /\ checkpoint' = checkpoint
          /\ s2c' \subseteq s2c /\ c2s' = c2s
          /\ UNCHANGED << clientVars, app_runs, received_payload >>
      BY <1>9 DEF Crash, clientVars
    <2>2. /\ committed_upto' = checkpoint.committed_upto
          /\ pending_reqs' = EmptyMap /\ out' = {}
      BY <2>1 DEF RestoreFrom
    <2>3. ResultsInv' /\ ResultsStand
      BY <1>2, <2>1, RestoreResults
    <2>4. AllRequests' \subseteq AllRequests /\ AllResponses' \subseteq AllResponses
      BY <2>1, <2>2 DEF AllRequests, AllResponses, EmptyMap, clientVars
    <2>5. IssuedInv'
      BY <1>2, <2>1, <2>4, IssuedKept
    <2> QED BY <1>1, <1>3, <2>1, <2>2, <2>3, <2>5 DEF LedgerInv
  <1>10. ASSUME NEW rp \in replays, DeliverReplay(rp)
         PROVE  LedgerInv'
    <2>1. PICK got : Ingests(rp, got)
      BY <1>1, <1>10, DeliveryIngests DEF IngestsOf, TypeInv
    <2>2. /\ ingest_replay(got) /\ checkpoint' = checkpoint
          /\ UNCHANGED << c2s, s2c, clientVars, received_payload, pending_reqs, out >>
      BY <1>10, <2>1 DEF Ingests, DeliverReplay, netVars, clientVars, ingest_replay
    <2>3. ResultsInv' /\ ResultsStand
      BY <1>2, <2>2, IngestResults
    <2>4. IssuedInv'
      BY <1>2, <2>2, IssuedKept DEF AllRequests, AllResponses, clientVars
    <2>5. committed_upto' \in Nat /\ committed_upto <= committed_upto'
      BY <2>1, IngestAdvances DEF Ingests
    <2>6. checkpoint'.committed_upto <= committed_upto'
      BY <1>1, <2>2, <2>5 DEF LedgerInv
    <2> QED BY <1>3, <2>2, <2>3, <2>4, <2>6 DEF LedgerInv
  <1> QED BY <1>1, <1>4, <1>5, <1>6, <1>7, <1>8, <1>9, <1>10, FailoverSteps

LEMMA LedgerInvariant == FailoverSpec => []LedgerInv
  <1>1. FailoverInit => LedgerInv
    <2> SUFFICES ASSUME FailoverInit PROVE LedgerInv
      OBVIOUS
    <2>1. DOMAIN EmptyMap = {}
      BY DEF EmptyMap
    <2>2. AllRequests = {} /\ AllResponses = {}
      BY <2>1 DEF FailoverInit, Init, NetInit, ClientInit, ServerInit, AllRequests,
                  AllResponses
    <2>3. ResultsInv
      BY <2>1, <2>2 DEF FailoverInit, Init, ClientInit, ServerInit, ResultsInv
    <2>4. IssuedInv
      BY <2>1, <2>2 DEF FailoverInit, Init, ClientInit, IssuedInv
    <2>5. CheckpointResults(checkpoint) /\ checkpoint.committed_upto <= committed_upto
      BY <2>1 DEF FailoverInit, Init, ServerInit, NoCheckpoint, CheckpointResults
    <2> QED BY <2>3, <2>4, <2>5 DEF LedgerInv
  <1>2. TypeInv /\ LedgerInv /\ [FailoverNext]_fvars => LedgerInv'
    BY LedgerStep
  <1> QED BY <1>1, <1>2, TypeInvariant, PTL DEF FailoverSpec

\* Both specifications build events and maps, and read histories, alike.
LEMMA RecoverableData ==
    /\ Recoverable!EmptyMap = EmptyMap
    /\ \A ids, n : Recoverable!Committed(ids, n) = Committed(ids, n)
    /\ \A map, key, value : Recoverable!Put(map, key, value) = Put(map, key, value)
    /\ \A h : Recoverable!RequestsIn(h) = RequestsIn(h)
    /\ \A h, n : Recoverable!EndsWith(h, n) <=> ReachedIn(h, n)
  BY DEF Recoverable!EmptyMap, EmptyMap, Recoverable!Committed, Committed,
     Recoverable!RspEvents, RspEvents, Recoverable!RspEvent, RspEvent,
     Recoverable!ReqEvent, ReqEvent, Recoverable!Put, Put, Recoverable!RequestsIn,
     RequestsIn, Recoverable!EndsWith, ReachedIn

\* A run by this server, for the first time, is Run.
LEMMA RunIsRun ==
    ASSUME NEW n, RunsHere(n)
    PROVE  Recoverable!Run(n)
  <1>1. CountOf(app_runs, n) + 1 = IF n \in DOMAIN app_runs THEN app_runs[n] + 1 ELSE 1
    BY DEF CountOf
  <1> QED BY <1>1, RecoverableData DEF RunsHere, Bump, Recoverable!Run

\* The client's side does not move, nor are there crashes, gaps or torn replays.
LEMMA ClientSideRests ==
    ASSUME UNCHANGED << clientVars, crashes, strayed >>
    PROVE  UNCHANGED << Recoverable!clientSide, crashes, strayed >>
  BY DEF clientVars, Recoverable!clientSide

\* The server strays after the second crash, or after the first if replays are cut.
MayStray == crashes > (IF CutReplays THEN 0 ELSE 1)

\* A server that has strayed may do what it likes but take back a run.
LEMMA StraysOn ==
    ASSUME TypeOK, crashes \in Nat, crashes' \in Nat, MayStray, crashes' >= crashes,
           strayed' = TRUE, UNCHANGED clientVars,
           app_runs' = app_runs \/ \E n \in SeqNo : app_runs' = Bump(app_runs, n)
    PROVE  Recoverable!Stray
  <1>1. \A n \in DOMAIN app_runs : n \in DOMAIN app_runs' /\ app_runs'[n] >= app_runs[n]
    <2>1. \A n \in DOMAIN app_runs : app_runs[n] \in Nat
      BY DEF TypeOK, ServerTypeOK
    <2>2. CASE app_runs' = app_runs
      BY <2>1, <2>2
    <2>3. ASSUME NEW m \in SeqNo, app_runs' = Bump(app_runs, m)
          PROVE  \A n \in DOMAIN app_runs : n \in DOMAIN app_runs' /\ app_runs'[n] >= app_runs[n]
      BY <2>1, <2>3 DEF Bump, Put, CountOf
    <2> QED BY <2>2, <2>3
  <1> QED BY <1>1 DEF MayStray, Recoverable!Stray, Recoverable!clientSide, clientVars

\* No server strays before.
LEMMA StraysLate ==
    ASSUME TypeInv, OneCrashInv, strayed
    PROVE  MayStray
  <1>1. crashes \in Nat /\ torn \in Nat
    BY CrashAssumption DEF TypeInv, FailoverTypeOK
  <1>2. crashes # 0
    BY DEF OneCrashInv
  <1>3. CASE torn = 0
    BY <1>1, <1>3 DEF OneCrashInv, MayStray
  <1>4. CASE torn # 0
    BY <1>1, <1>2, <1>4 DEF TypeInv, TornInv, MayStray
  <1> QED BY <1>3, <1>4

\* generate_request is Issue.
LEMMA GenerateIsIssue ==
    ASSUME TypeOK, Generate, UNCHANGED failoverVars
    PROVE  Recoverable!Issue
  <1>1. next_seq \in Nat
    BY DEF TypeOK, ClientTypeOK, SeqNo
  <1>2. /\ next_seq' - 1 = (next_seq - 1) + 1
        /\ (next_seq - 1) + 1 = next_seq
        /\ c_history' = c_history \o Committed(pending_new, next_seq)
        /\ pending_new' = << >>
        /\ UNCHANGED << received, received_payload, s_history, app_calls, app_runs,
                        crashes, strayed >>
    BY <1>1 DEF Generate, generate_request, NextRequest, serverVars, failoverVars
  <1> QED BY <1>2, RecoverableData DEF Recoverable!Issue, Recoverable!serverSide

\* The first receipt of a response is Receive, or, without a payload, GoWithout.
LEMMA ReceiptIsReceipt ==
    ASSUME TypeOK, TornInv, torn \in Nat, LedgerInv, OneFailoverIsSafe', crashes \in Nat,
           NEW resp \in s2c,
           on_response(resp), ~resp.recover, UNCHANGED << serverVars, failoverVars >>
    PROVE  \E n \in (1 .. (next_seq - 1)) \ received :
               Recoverable!Receive(n) \/ Recoverable!GoWithout(n)
  <1> DEFINE n == resp.seq
  <1>1. /\ resp \in AllResponses /\ n \notin received /\ resp \in Response
    BY DEF AllResponses, on_response, TypeOK, NetTypeOK
  <1>2. /\ n < next_seq /\ n \notin DOMAIN received_payload
        /\ resp.no_op \/ Ran(n, resp.payload)
    BY <1>1 DEF LedgerInv, IssuedInv, ResultsInv, Genuine
  <1>3. n \in (1 .. (next_seq - 1)) \ received
    <2>1. n \in Nat \ {0} /\ next_seq \in Nat
      BY <1>1 DEF Response, SeqNo, TypeOK, ClientTypeOK
    <2> QED BY <1>1, <1>2, <2>1
  <1>4. /\ UNCHANGED << c_history, next_seq, s_history, app_calls, app_runs, crashes,
                        strayed, torn >>
        /\ received' = received \cup {n}
    BY DEF on_response, serverVars, failoverVars
  <1>5. CASE resp.no_op
    <2>1. UNCHANGED << pending_new, received_payload >>
      BY <1>5 DEF on_response
    <2>2. strayed \/ crashes > 1
      <3>1. received' # DOMAIN received_payload'
        BY <1>2, <1>4, <2>1
      <3>2. ~(crashes <= 1 /\ torn = 0)
        BY <1>4, <3>1 DEF OneFailoverIsSafe
      <3> QED BY <3>2 DEF TornInv
    <2>3. Recoverable!GoWithout(n)
      BY <1>4, <2>1, <2>2 DEF Recoverable!GoWithout, Recoverable!serverSide
    <2> QED BY <1>3, <2>3
  <1>6. CASE ~resp.no_op
    <2>1. /\ pending_new' = Append(pending_new, n)
          /\ received_payload' = Put(received_payload, n, resp.payload)
      BY <1>6 DEF on_response
    <2>2. n \in DOMAIN app_runs /\ resp.payload \in 1 .. app_runs[n]
      BY <1>2, <1>6 DEF Ran
    <2>3. Recoverable!Receive(n)
      BY <1>4, <2>1, <2>2, RecoverableData DEF Recoverable!Receive, Recoverable!serverSide
    <2> QED BY <1>3, <2>3
  <1> QED BY <1>5, <1>6

\* A step is one of the recoverable history, or changes nothing of it.
LEMMA RecoverableStep ==
    ASSUME TypeInv, TypeInv', RecordsInv, RecordsInv', RunsInv, LedgerInv, OneCrashInv,
           OneCrashInv', OneFailoverIsSafe', FailoverNext \/ UNCHANGED fvars
    PROVE  [Recoverable!Next]_(Recoverable!vars)
  <1>1. /\ FailoverTypeOK /\ TypeOK /\ crashes \in Nat /\ crashes' \in Nat
        /\ committed_upto \in Nat /\ committed_upto' \in Nat
        /\ strayed \in BOOLEAN /\ TornInv /\ torn \in Nat
    BY CrashAssumption DEF TypeInv, FailoverTypeOK, TypeOK, ServerTypeOK
  <1>2. strayed => MayStray
    BY StraysLate
  <1>3. ~strayed => HistoryInv /\ OrderInv /\ OnceInv /\ GoodCheckpoint(checkpoint)
    BY DEF RecordsInv, RunsInv
  <1>4. ~strayed' => HistoryInv'
    BY DEF RecordsInv
  <1>5. ASSUME UNCHANGED << clientVars, s_history, app_calls, app_runs, crashes, strayed >>
        PROVE  UNCHANGED Recoverable!vars
    BY <1>5 DEF clientVars, Recoverable!vars, Recoverable!clientSide, Recoverable!serverSide
  <1>6. ASSUME Generate, UNCHANGED failoverVars
        PROVE  Recoverable!Next
    BY <1>1, <1>6, GenerateIsIssue DEF Recoverable!Next
  <1>7. ASSUME NEW req \in c2s, DeliverRequest(req), UNCHANGED failoverVars
        PROVE  [Recoverable!Next]_(Recoverable!vars)
    <2>1. /\ req \in Request /\ req.seq \in SeqNo /\ on_request(req)
          /\ UNCHANGED << clientVars, crashes, strayed >>
      BY <1>1, <1>7 DEF DeliverRequest, failoverVars, TypeOK, NetTypeOK, Request
    <2>2. CASE UNCHANGED << app_calls, app_runs >>
      BY <1>1, <1>5, <2>1, <2>2, OnRequestRunsLate
    <2>3. CASE strayed /\ app_runs' = Bump(app_runs, req.seq)
      <3>1. strayed' = TRUE /\ crashes' >= crashes
        BY <1>1, <2>1, <2>3
      <3>2. Recoverable!Stray
        BY <1>1, <1>2, <2>1, <2>3, <3>1, StraysOn
      <3> QED BY <3>2 DEF Recoverable!Next
    <2>4. CASE ~strayed /\ ~UNCHANGED << app_calls, app_runs >>
      <3>1. PICK n \in 1 .. (next_seq - 1) : n \in RequestsIn(s_history) /\ RunsHere(n)
        BY <1>1, <1>3, <2>1, <2>4, OnRequestRunsLate
      <3>2. s_history' = s_history
        BY <1>1, <2>1, OnRequestRunsLate
      <3>3. Recoverable!ServeLate(n)
        BY <2>1, <3>1, <3>2, RunIsRun, RecoverableData, ClientSideRests
           DEF Recoverable!ServeLate
      <3> QED BY <2>4, <3>3 DEF Recoverable!Next
    <2> QED BY <1>1, <2>1, <2>2, <2>3, <2>4, OnRequestRunsLate
  <1>8. ASSUME Commit, UNCHANGED failoverVars
        PROVE  [Recoverable!Next]_(Recoverable!vars)
    <2>1. UNCHANGED << clientVars, crashes, strayed >>
      BY <1>8 DEF Commit, failoverVars
    <2>2. CASE CommitDone
      BY <1>5, <2>1, <2>2 DEF CommitDone
    <2>3. CASE CommitNext /\ strayed
      <3>1. app_runs' = Bump(app_runs, NextInOrder) /\ NextInOrder \in SeqNo
        BY <1>1, <2>3 DEF CommitNext, NextInOrder, SeqNo
      <3>2. strayed' = TRUE /\ crashes' >= crashes
        BY <1>1, <2>1, <2>3
      <3>3. Recoverable!Stray
        BY <1>1, <1>2, <2>1, <2>3, <3>1, <3>2, StraysOn
      <3> QED BY <3>3 DEF Recoverable!Next
    <2>4. CASE CommitNext /\ ~strayed
      <3>1. PICK n \in 1 .. (next_seq - 1) :
                ReachedIn(s_history, n - 1) /\ ReachedIn(s_history', n) /\ RunsHere(n)
        BY <1>1, <1>3, <1>4, <2>1, <2>4, CommitTakesNext
      <3>2. Recoverable!Serve(n)
        BY <2>1, <3>1, RunIsRun, RecoverableData, ClientSideRests DEF Recoverable!Serve
      <3> QED BY <2>4, <3>2 DEF Recoverable!Next
    <2> QED BY <1>8, <2>2, <2>3, <2>4 DEF Commit
  <1>9. ASSUME NEW resp \in s2c, DeliverResponse(resp), UNCHANGED failoverVars
        PROVE  [Recoverable!Next]_(Recoverable!vars)
    <2>1. CASE on_response(resp)
      BY <1>1, <1>9, <2>1, ReceiptIsReceipt DEF DeliverResponse, Recoverable!Next
    <2>2. CASE on_duplicate_response(resp)
      BY <1>5, <1>9, <2>2 DEF DeliverResponse, on_duplicate_response, serverVars, failoverVars
    <2> QED BY <1>9, <2>1, <2>2 DEF DeliverResponse
  <1>10. ASSUME QuietStep
         PROVE  UNCHANGED Recoverable!vars
    BY <1>5, <1>10 DEF QuietStep, QuietLinks, serverVars
  <1>11. ASSUME Crash
         PROVE  Recoverable!Next
    <2>1. /\ RestoreFrom(checkpoint) /\ crashes' = crashes + 1
          /\ UNCHANGED << clientVars, app_runs, strayed >>
      BY <1>11 DEF Crash
    <2>2. /\ committed_upto' = checkpoint.committed_upto
          /\ DOMAIN app_calls' = {}
      BY <2>1 DEF RestoreFrom, EmptyMap
    <2>3. CASE strayed
      <3>1. strayed' = TRUE /\ crashes' >= crashes
        BY <1>1, <2>1, <2>3
      <3>2. Recoverable!Stray
        BY <1>1, <1>2, <2>1, <2>3, <3>1, StraysOn
      <3> QED BY <3>2 DEF Recoverable!Next
    <2>4. CASE ~strayed
      <3>1. /\ committed_upto \in 0 .. (next_seq - 1)
            /\ committed_upto' \in 0 .. (next_seq - 1)
            /\ ReachedIn(s_history, committed_upto)
            /\ ReachedIn(s_history', committed_upto')
        BY <1>1, <1>3, <1>4, <2>1, <2>4, MovesAlong
      <3>2. committed_upto' <= committed_upto
        BY <2>2 DEF LedgerInv
      <3>3. UNCHANGED Recoverable!clientSide
        BY <2>1 DEF clientVars, Recoverable!clientSide
      <3>4. Recoverable!FallBack(committed_upto, committed_upto')
        BY <2>1, <2>2, <3>1, <3>2, <3>3, RecoverableData DEF Recoverable!FallBack
      <3> QED BY <2>4, <3>1, <3>4 DEF Recoverable!Next
    <2> QED BY <2>3, <2>4
  <1>12. ASSUME NEW rp \in replays, DeliverReplay(rp)
         PROVE  [Recoverable!Next]_(Recoverable!vars)
    <2>1. IngestsOf(rp)
      BY <1>1, <1>12, DeliveryIngests DEF TypeInv
    <2>2. PICK got : Ingests(rp, got)
      BY <2>1 DEF IngestsOf
    <2>3. /\ UNCHANGED << clientVars, crashes, app_calls, app_runs >>
          /\ strayed' \in BOOLEAN /\ (strayed => strayed')
      BY <1>1, <2>1, <2>2 DEF IngestsOf, Ingests, ingest_replay
    <2>4. CASE strayed'
      <3>1. strayed' = TRUE /\ crashes' >= crashes /\ MayStray
        <4>1. MayStray'
          BY <2>4, StraysLate, PTL
        <4> QED BY <1>1, <2>3, <2>4, <4>1 DEF MayStray
      <3>2. Recoverable!Stray
        BY <1>1, <2>3, <3>1, StraysOn
      <3> QED BY <3>2 DEF Recoverable!Next
    <2>5. CASE ~strayed'
      <3>1. ~strayed /\ UNCHANGED strayed
        BY <1>1, <2>3, <2>5
      <3>2. /\ committed_upto \in 0 .. (next_seq - 1)
            /\ committed_upto' \in 0 .. (next_seq - 1)
            /\ ReachedIn(s_history, committed_upto)
            /\ ReachedIn(s_history', committed_upto')
            /\ committed_upto = committed_upto' => s_history = s_history'
        BY <1>1, <1>3, <1>4, <2>3, <2>5, <3>1, MovesAlong
      <3>3. committed_upto <= committed_upto'
        BY <2>2, IngestAdvances DEF Ingests
      <3>4. CASE committed_upto = committed_upto'
        BY <1>5, <2>3, <3>1, <3>2, <3>4
      <3>5. CASE committed_upto < committed_upto'
        <4>1. Recoverable!CatchUp(committed_upto, committed_upto')
          BY <2>3, <3>1, <3>2, <3>5, RecoverableData, ClientSideRests
             DEF Recoverable!CatchUp
        <4> QED BY <3>1, <3>2, <4>1 DEF Recoverable!Next
      <3> QED BY <1>1, <3>3, <3>4, <3>5
    <2> QED BY <2>4, <2>5
  <1> QED BY <1>1, <1>6, <1>7, <1>8, <1>9, <1>10, <1>11, <1>12, FailoverSteps

\* Failover implements the recoverable history, for any number of crashes: a crash only
\* takes the server back to an earlier request of the client's history, commits and
\* replays take it forward along it, each server runs a request at most once, and the
\* client takes one answer per request, of a run that was made.  It strays, or leaves a
\* request without its answer, after a second crash at the earliest, or after the first
\* if a replay was torn.
THEOREM RefinesRecoverableHistory == FailoverSpec => ImplementsRecoverableHistory
  <1>1. FailoverInit => Recoverable!Init
    <2>1. DOMAIN EmptyMap = {}
      BY DEF EmptyMap
    <2> QED BY <2>1, RecoverableData DEF FailoverInit, Init, ClientInit, ServerInit, Recoverable!Init
  <1>2. TypeInv /\ TypeInv' /\ RecordsInv /\ RecordsInv' /\ RunsInv /\ LedgerInv
            /\ OneCrashInv /\ OneCrashInv' /\ OneFailoverIsSafe' /\ [FailoverNext]_fvars
        => [Recoverable!Next]_(Recoverable!vars)
    BY RecoverableStep
  <1> QED BY <1>1, <1>2, TypeInvariant, RecordsInvariant, RunsInvariant, LedgerInvariant,
          OneCrashInvariant, OneFailoverSafe, PTL
          DEF FailoverSpec, ImplementsRecoverableHistory, Recoverable!Spec
=============================================================================
