------------------------------ MODULE Harness ------------------------------
(***************************************************************************)
(* The verification harness itself, with failovers: run_one of             *)
(* verification/src/fuzz_main.cpp and check_run of checker.h.              *)
(*                                                                         *)
(* One thread does everything, so no step falls inside on_request, and a   *)
(* recovery signal is answered on the spot: the client's replay is         *)
(* ingested and the same request is handled again.  Failovers happen in    *)
(* the generation phase only.  The question is what a run that check_run   *)
(* accepts says about the protocol.                                        *)
(*                                                                         *)
(* Time is left out: a tick does any of its four steps, and checkpoints    *)
(* and failovers come between any two of them.                             *)
(***************************************************************************)
EXTENDS Conversation, Recovery

CONSTANT failovers      \* cfg.failovers: how many failovers to inject

ASSUME FailoversAssumption == failovers \in Nat

VARIABLES
    generating,     \* the generation phase has not ended
    handling,       \* the request of step 3 that is being recovered for, if any
    guard,          \* replays ingested for it
    last_ckpt,      \* the last checkpoint taken
    failovers_done,
    fresh,          \* history variable: a request was generated since the last failover
    left_out,       \* history variable: awaiting_ when last_ckpt was taken
    forgotten       \* history variable: ids that a restored checkpoint had left out

historyVars == << fresh, left_out, forgotten >>

harnessVars == << generating, handling, guard, last_ckpt, failovers_done, historyVars >>

rvars == << vars, harnessVars >>

MaxGuard == 8

HarnessInit ==
    /\ Init
    /\ generating = TRUE
    /\ handling = {}
    /\ guard = 0
    /\ last_ckpt = NoCheckpoint
    /\ failovers_done = 0
    /\ fresh = TRUE
    /\ left_out = {}
    /\ forgotten = {}

\* No request is being handled.
Idle == ~draining /\ handling = {}

-----------------------------------------------------------------------------
(* The four steps of a tick.                                               *)

\* Step 1.
GenerateOne ==
    /\ Idle
    /\ generating
    /\ Generate
    /\ fresh' = TRUE
    /\ UNCHANGED << generating, handling, guard, last_ckpt, failovers_done,
                    left_out, forgotten >>

\* Step 2.
ResendOne(n) ==
    /\ Idle
    /\ Resend(n)
    /\ UNCHANGED harnessVars

\* Step 3, a request that is due.  One that asks for a replay is kept in hand.
HandleDue(req) ==
    /\ Idle
    /\ DueRequest(req)
    /\ \/ ~needs_recover(req) /\ on_request(req) /\ UNCHANGED handling
       \/ needs_recover(req) /\ handling' = {req} /\ UNCHANGED << s2c, serverVars >>
    /\ UNCHANGED << clientVars, generating, guard, last_ckpt, failovers_done,
                    historyVars >>

\* Step 3, the loop that recovers: replay, ingest, and handle the request again.
Recover(req) ==
    /\ ~draining
    /\ needs_recover(req)
    /\ guard < MaxGuard
    /\ ingest_replay(build_replay(RecoverSignal(req.seq).recover_from))
    /\ guard' = guard + 1
    /\ UNCHANGED << netVars, clientVars, generating, handling, last_ckpt,
                    failovers_done, historyVars >>

\* The loop ends: what on_request returned last goes to the client, be it an
\* answer or, when the guard has run out, the recovery signal.
EndRecover(req) ==
    /\ ~draining
    /\ ~needs_recover(req) \/ guard = MaxGuard
    /\ on_request(req)
    /\ handling' = {}
    /\ guard' = 0
    /\ UNCHANGED << c2s, clientVars, generating, last_ckpt, failovers_done,
                    historyVars >>

\* The commit loop of on_request and its return.
CommitOne == Commit /\ UNCHANGED harnessVars

\* Step 4: on_response is called whatever the response says.
ReceiveDue(resp) ==
    /\ Idle
    /\ DueResponse(resp)
    /\ on_response(resp) \/ on_duplicate_response(resp)
    /\ UNCHANGED << c2s, serverVars, harnessVars >>

-----------------------------------------------------------------------------
(* Between two ticks.                                                      *)

\* After the last failover nothing reads the checkpoint.
TakeCheckpoint ==
    /\ Idle
    /\ generating
    /\ failovers_done < failovers
    /\ last_ckpt' = Snapshot
    /\ left_out' = awaiting
    /\ UNCHANGED << vars, generating, handling, guard, failovers_done, fresh,
                    forgotten >>

\* The server is replaced; the links and the client are not touched.
InjectFailover ==
    /\ Idle
    /\ generating
    /\ failovers_done < failovers
    /\ RestoreFrom(last_ckpt)
    /\ failovers_done' = failovers_done + 1
    /\ fresh' = FALSE
    /\ forgotten' = forgotten \cup left_out
    /\ UNCHANGED << netVars, clientVars, s_mismatch, app_runs, generating, handling,
                    guard, last_ckpt, left_out >>

\* The drain phase begins, when every failover has been injected.
StopGenerating ==
    /\ Idle
    /\ generating
    /\ failovers_done = failovers
    /\ generating' = FALSE
    /\ UNCHANGED << vars, handling, guard, last_ckpt, failovers_done, historyVars >>

HarnessNext ==
    \/ GenerateOne
    \/ \E n \in outstanding : ResendOne(n)
    \/ \E req \in c2s : HandleDue(req)
    \/ \E req \in handling : Recover(req)
    \/ \E req \in handling : EndRecover(req)
    \/ CommitOne
    \/ \E resp \in s2c : ReceiveDue(resp)
    \/ TakeCheckpoint
    \/ InjectFailover
    \/ StopGenerating

HarnessSpec == HarnessInit /\ [][HarnessNext]_rvars

-----------------------------------------------------------------------------
(* check_run, but for its bounds on statistics.                            *)

issued == next_seq - 1

had_failover == failovers > 0

PrefixCheck == had_failover \/ IsPrefixOf(s_history, c_history)

FinalHashCheck == c_history = s_history

OnceCheck ==
    /\ had_failover \/ Cardinality(DOMAIN app_calls) = committed_upto
    /\ \A n \in DOMAIN app_calls : app_calls[n] = 1

AnsweredCheck == committed_upto = issued /\ 1 .. issued \subseteq received

check_run ==
    /\ PrefixCheck
    /\ FinalHashCheck
    /\ NoMismatch
    /\ OnceCheck
    /\ AnsweredCheck

\* The drain phase is over.  A link that has lost what it held is empty.
Drained == ~generating /\ Idle /\ outstanding = {}

-----------------------------------------------------------------------------
\* One replay is always enough: the loop never needs a second round, so its guard
\* never runs out and no recovery signal reaches on_response as a response.
OneReplaySuffices ==
    /\ guard > 0 => \A req \in handling : ~needs_recover(req)
    /\ \A resp \in s2c : ~resp.recover

\* However many failovers, with replays that are built and ingested in one step the
\* server's history is never anything but the client's up to the last commit.
InlineAgreement == HistoryAgreement /\ NoMismatch

\* A run that drains is accepted, if a request was generated after the last
\* failover; until then a server that has fallen back may not know it.
DrainedRunPasses == Drained /\ fresh => check_run

\* A request is completed without its response only if a checkpoint was taken while
\* it was awaiting, and restored: nothing else that checkpoint() leaves out matters.
LostOnlyIfForgotten == received \ DOMAIN received_payload \subseteq forgotten

\* In a run that check_run accepts, "after draining, every request got a response"
\* (checker.h).
AcceptedMeansAnswered == Drained /\ check_run => 1 .. issued = DOMAIN received_payload

\* With replays that are built and ingested in one step, the harness drives the
\* recoverable history, and its server never strays.
Recoverable == INSTANCE RecoverableHistory WITH
    CutReplays <- FALSE,
    order     <- c_history,
    issued    <- next_seq - 1,
    arrivals  <- pending_new,
    completed <- received,
    delivered <- received_payload,
    agreed    <- s_history,
    ran       <- DOMAIN app_calls,
    runs      <- app_runs,
    failures  <- failovers_done,
    strayed   <- FALSE

ImplementsRecoverableHistory == Recoverable!Spec
=============================================================================
