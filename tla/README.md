# Color: a TLA+ verification project

Color is a small protocol on top of request/response messaging. A client numbers
its requests, puts on each one an acknowledgement of the responses it has
received, and both sides keep one *event history*: `R<n>` when request `n` is
issued, `r<n>` when the client has received response `n`, in the order in which
the client sees these events. The server commits requests strictly by id, runs
the application once for each, keeps each response until it is acknowledged, and
so rebuilds the client's history on its side, whatever the network loses,
duplicates or reorders. A rolling hash of the history travels with the messages.
A server that fails is replaced by one that starts from a checkpoint and asks the
client to replay the history it lacks.

This directory models that protocol from its C++ source, model-checks it with TLC
and proves most of its safety properties, for every value of the bounds, with
TLAPS. Paths below are relative to the
repository.

## Inventory

| Component | State | Operations |
|---|---|---|
| Messages and history: `src/core/color_message.h`, `color_history.*` | a history and its hash | `append`, `hash_step` |
| Client: `src/core/color_client.*` | `next_seq_`, `base_`, `received_`, `pending_new_`, `req_hash_`, `inflight_`, history | `generate_request`, `on_response`, `frozen`, `build_replay` |
| Server: `src/core/color_server.*` | `committed_upto_`, `pending_`, `req_hash_`, `resp_buffer_`, `awaiting_`, `app_calls_`, history | `on_request`, `checkpoint`, the constructor from a checkpoint, `ingest_replay` |
| Checkpoint and replay records: `src/core/color_checkpoint.h` | none | none |
| HTTP client: `src/client/color_http_client.*` | the client core under a mutex, one blocking `send` per thread | `send`, `recover` |
| HTTP transport: `src/client/curl_transport.*` | none that matters | `post`, with injected loss of requests and responses |
| Interceptor: `src/server/color_interceptor.*` | the server core under a mutex, held request objects, `commits_since_ckpt_`, the checkpoint file | `OnRequest`, `OnReplay`, `MaybeCheckpoint`, `WriteCheckpoint` |
| Executor: `src/server/thread_pool_executor.h` | task queue, stop flag, workers | `Schedule`, the worker loop, the destructor |
| Wire format: `src/wire/failover_json.*` | none | JSON to and from checkpoint and replay |
| Harness: `verification/src/` | simulated links, a clock | `run_one`, `check_run` |
| Demo programs: `demo/src/` | worker threads | a loop of `send` per worker; command line and printing |

How they interact. `ColorHttpClient::send` generates a request under the mutex and
posts it outside it, again and again, until it gets an answer; several threads do
this at once, so the order in which requests reach the server is arbitrary. The
executor runs `ColorInterceptor::OnRequest` on several threads, and its mutex
makes the calls of `on_request` atomic with respect to each other. One call may
commit several requests, because it drains every staged request that has become
contiguous, and returns all their responses. The checkpoint is written between
two calls. The harness replaces all of HTTP by two `SimLink`s, which lose,
duplicate and reorder, drives client and server from one loop, and checks the
outcome with `checker.h`.

What is hard here, and hard to test: late copies of old requests carry old
acknowledgements and meet today's buffer; an acknowledgement-only reply ends a
request without delivering anything; the two histories are built by different code
at different moments and must still be equal event by event; a crash can fall
between running the application and saving anything; a replay is built for one
state of the server and may be ingested in another, or twice; a request that has
been answered is never sent again, so whatever still needs it waits for ever.
`PROJECT.json` lists these hazards at their lines, with the properties that watch
them.

What makes each part correct:

* client and server together: one shared history, with the server at a prefix of
  it; matching hashes; each request executed once; each response kept until the
  client has it; bounded buffers; every request answered;
* failover: the same agreement after any crash, once per server object, no
  response lost;
* interceptor and HTTP client: a request object held for exactly the staged
  requests, no waiting thread forgotten, only real responses delivered, the
  checkpoint cadence, all of this across a failover as well;
* wire format and headers: what is written is what is read back, a checkpoint that
  was cut off is rejected, and a replay that was cut off is read as one of the
  replays the other modules reckon with;
* harness: a run that the checker accepts is one in which the protocol did what it
  promises;
* executor: every scheduled task runs once, shutdown terminates.

## Modules

| Module | Models |
|---|---|
| `ColorMessages` | events, hashes, requests, responses, replays and what is read of one, maps keyed by seq |
| `SimNetwork` | the two links |
| `ColorClient` | the client state machine |
| `ColorServer` | the server state machine |
| `SharedHistory` | abstract specification: what a conversation promises |
| `RecoverableHistory` | abstract specification: what is promised when servers fail and are replaced |
| `Conversation` | client, server and links, with a server that stays up |
| `Recovery` | checkpoint, restoring, replay and its ingestion, as operators |
| `Failover` | `Conversation` with checkpoints, crashes, replay and recovery |
| `HttpExchange` | client threads, HTTP attempts and the interceptor's held objects, with a server that stays up |
| `HttpFailover` | `HttpExchange` with a server that fails |
| `Harness` | the fuzz harness: one thread, inline recovery, its checker |
| `WireFormat` | the texts: checkpoint file, replay body, headers |
| `ThreadPoolExecutor` | the executor |
| `ConversationInvariants` | the inductive invariants of a conversation with a server that stays up |
| `RecoveryInvariants` | those of the modules in which a server is replaced |
| `ConversationProofs` | theorems: types, agreement, hashes of the conversation |
| `DeliveryProofs` | theorems: acknowledgements, replies, bounds, refinement of `SharedHistory` |
| `RecoveryProofs` | lemmas: what restoring, replaying and each step of the conversation does to the recovery invariants |
| `FailoverProofs` | theorems about `Failover` |
| `HarnessProofs` | theorems about `Harness` |
| `HttpProofs` | theorems about `HttpExchange` |
| `HttpFailoverProofs` | theorems about `HttpFailover` |
| `ThreadPoolProofs` | the theorems about the executor |
| `MCConversation`, `MCFailover`, `MCHttp`, `MCHttpFailover`, `MCHarness`, `MCWire`, `MCThreadPool` | the instances TLC runs |

`ColorClient` and `ColorServer` EXTEND the links and the messages, and `Recovery`
EXTENDS both. Three modules compose them in different ways: `Conversation` over
the lossy links, with `Failover` and `Harness` on top of it and `Recovery`;
`HttpExchange` over HTTP, with `HttpFailover` on top. Two chains of
refinement tie them together: `HttpExchange` implements `Conversation`, which
implements `SharedHistory`; and `HttpFailover` implements `Failover`, which, like
`Harness`, implements `RecoverableHistory`.
`ThreadPoolExecutor` and `WireFormat` stand alone; `WireFormat` justifies, for every
place where the text of a replay may end, the operator `ReadShort` that `Failover`
and `HttpFailover` use. It is recursive, as a parser is, and is for TLC only.

### How the models correspond to the code

**The hash is the history.** `hash_step` folds an event into the previous hash. The
model uses the sequence of events itself as the hash, so two hashes are equal
exactly when the histories are. This is what the code relies on; collisions of the
64-bit hash are outside the model. The hash option (`set_hash`) is on.

**Payloads.** A request is frozen when it is generated and never changes, so its id
stands for its payload. A response payload is the number of the application run
that produced it (1 for the first run of that request anywhere, 2 for the second),
which is what tells apart two answers to the same request.

**Client.** `generate_request` is one action: it freezes the request with the
current base and the ids received since the last request, extends the history by
those responses and then the request, records the hash and empties `pending_new`.
`on_response` is one action for a first receipt (including the no-op branch, which
neither delivers nor records the receipt, and the loop that advances `base_`) and
one for a duplicate.

**Server.** `on_request` is one action per branch: `AskForReplay` (the 503),
`ResendBuffered`, `ReprocessAwaiting`, `AcknowledgeOnly`, and `Stage`, which
enters the commit loop. The acknowledgement is applied before the branches, as in
the code. One iteration of the commit loop is one step, `CommitNext`; `CommitDone`
is the return. While `draining` holds no other handler of the server runs, which
is what the mutex of the interceptor and the single thread of the harness ensure,
and the responses collected in `out` leave only on return. The iterations are
separate steps so that a crash can fall between them.

**Links.** A link is a set of messages. Delivering one leaves a copy behind or
not; a message may be lost at any time. Latency is not modelled: whatever is on the
link can arrive at any later moment, so every order is possible. With
`KeepCopies = TRUE` every message stays on its link for ever. A lost message is
then one that never happens to be delivered again: every sequence of states of the
two endpoints that is possible with loss is possible without, and the number of
link states shrinks by a factor of several hundred. The safety runs with failover
use it; the liveness runs cannot, since there a message must really be lost.

**Failover.** `WriteCheckpoint` may happen between any two calls of `on_request`:
the cadence (`checkpoint_every_`, or the harness's own period) is abstracted to
"any". It is disabled after the last crash, when nothing reads the file any more.
`SpoilCheckpoint` is a write that fails: `WriteCheckpoint` of the interceptor does
not look at the stream before it renames the file into place, so the next server
finds a file that does not parse and starts empty. `Crash` happens at any moment,
including inside the commit loop, rebuilds the server from the last checkpoint, and
may lose what is on the connections. The client side follows `ColorHttpClient`:
the thread of a request that gets a 503 freezes a replay, posts it (`PostReplay`,
`DeliverReplay`, with loss and repetition) until a 200 comes back (`EndRecovery`), and then
sends its request again; while it recovers it neither resends nor listens. A replay
may be delivered long after the recovery that built it has ended. `served` holds
the ids whose replay has been answered.

**Replays that are read short.** `OnReplay` reads one block of the body, ignores what
`from_json_replay` returns, ingests what was parsed, and answers 200. So what is
ingested is the replay or one of `ReadShort` (in `ColorMessages`): the position and
some of the events, of which the last may be damaged, its id being that of a shorter
number, or 0, and its kind that of a request if the text ends before it. Which digits
a number has is abstracted: a damaged id is any up to the one that was written.
`CutReplayForeseen` of `WireFormat` checks that the parser yields nothing else. Of
these, `CleanCuts` end behind a request, so they hold exactly what some of
the client's requests committed; any other is *torn*. A clean cut is a shorter
replay and does no harm. `torn` counts the torn replays that were ingested, and
`strayed` records that a replay was ingested torn, or past a gap, that is starting
beyond what the server holds. `CutReplays` says whether replays may be read short at
all; with `MaxTorn` it bounds the runs.

**HTTP.** In `HttpExchange` each attempt of a request is an HTTP exchange. It is
*live* while the client's thread is inside the `post()` that made it and
*superseded* afterwards; the server cannot tell. `Send` is started by the worker
loop of the demo client: at most `Window` threads, each in one `send` at a time.
`GiveUp` is every way in which
`post()` returns without an answer (request dropped, response dropped, timeout,
transport error, abort); the attempt may then still be on its way, queued in the
executor, or held by the interceptor. `OnRequest` may run attempts in any order,
which is what several executor threads and the network allow. It holds the object
of the attempt, aborts the one held before, and calls the core; `Complete` is one
iteration of its loop over the responses; the last one decides whether a checkpoint
is due, and `WriteCheckpoint` is then a step of its own. The mutex is held from
`OnRequest` to the end of that write
(`Locked`). `c2s` and `s2c` have a local meaning here: the frozen requests of the
calls of `send`, and the responses that `OnRequest` has still to hand out. What
`net_http` does on `Abort` is outside the repository; in the model an aborted
exchange ends at the client like a transport error.

**HTTP with failover.** In `HttpFailover` the process may die at any step, between
two replies and between the last reply and the checkpoint included. Its memory goes:
the core, the held objects, the count of commits. An attempt that has not reached
`OnRequest` reaches the new process or is broken off; a reply that has been written
still arrives or times out; every other exchange is broken off (`CutOff`). `WriteFails`
is the failing write: the file in place afterwards is unreadable, or is the old one
when not even the temporary file could be made. `ReplyRecover` is the 503 branch of
`OnRequest`, and `ReceiveRecover`, `PostReplay`, `GiveUpReplay` and `EndRecovery`
are `recover`. An attempt of a replay is live or superseded just as one of a request,
and a superseded one may be run at any later time, by any later server; whenever it is
run it may be read whole or short. In the
refinement a response is in flight while it is still to be handed out or on its way
back; a recovery signal only while its thread listens for it. The abstract
specification is instantiated with one crash more, because it stops writing
checkpoints after its last crash and the interceptor does not.

**Harness.** `run_one` is one thread, so nothing happens while a request is being
handled (`Idle`), and the clock only decides which of the four steps of a tick happen;
the model leaves it out and lets them happen in any order. A request that
asks for a replay is kept in hand (`handling`) while `Recover` builds and ingests
one, up to eight times (`guard`). Checkpoints and failovers come between ticks of the
generation phase, and the drain phase starts when all failovers have been injected.
`check_run` is an operator with one part per check; the bounds it puts on the `max_*`
statistics are left out. `fresh`, `left_out` and `forgotten` are history variables:
whether a request was generated since the last failover, what was awaiting when the
checkpoint was taken, and which ids a restored checkpoint had left out.

**Wire format.** A text is a sequence of characters of the kinds that the codec tells
apart; the name of a key or a header counts as one, and numbers are binary. The
encoders and the parser are translated function by function, with the parser's
three ways to end (go on, `ok` false, return false at once). A text is then read
whole or cut off at any position: a checkpoint whose write failed, a body of which
`ReadBody` got one block. The parser skips white space, but the encoders write
none, so neither does the model. Headers carry numbers, a flag and the list of
acknowledged ids, written and read by different functions on the two sides.

**Executor.** A critical section of `mu_` is one step; `notify_one`, `notify_all` and
the task itself come after the unlock and are steps of their own, so a notification
can find nobody waiting, or wake a worker whose task is taken by another. Spurious
wake-ups may happen at any time and are never relied on. The owner starts the
destructor when no call of `Schedule` is in progress and makes none afterwards, as
the lifetime rules of C++ demand. There is at least one worker: a pool of none
runs nothing.

## Runs

Every number below is for the bounds in the `.cfg` files: `MaxSeq` requests,
`Window` outstanding at once, `MaxCrashes` crashes, `MaxTorn` torn replays.

| Run | Bounds | What it shows |
|---|---|---|
| `ConversationSafety` | 4 / 3 | agreement, hashes, no spurious recovery, no lost reply, exactly-once, tight buffer bounds, convergence; `Conversation` implements `SharedHistory`; 270 thousand states |
| `FailoverOnce` | 3 / 2 / 1 / 0, replays cut behind any request | one crash anywhere, from any checkpoint or a spoiled one: `Failover` implements `RecoverableHistory`, once per server, no gap, no reply lost, staged requests acknowledge only what is committed |
| `FailoverTwice` | 3 / 1 / 2, replays whole | two crashes: agreement and hashes, unless a replay left a gap; 555 thousand states |
| `FailoverLiveness` | 2 / 2 / 1, replays whole | every request is answered, or is stalled behind a gap |
| `FailoverStaleReplay` | 3 / 2 / 2, replays whole | violation: agreement breaks when a stale replay is ingested |
| `FailoverStall` | 2 / 2 / 1, replays whole | violation: a request is never answered |
| `Http` | 3 / 2, checkpoint every 1 | the HTTP exchange implements `Conversation`; held objects are exactly those of staged requests; no waiting attempt is forgotten; the checkpoint lags by less than its period; every `send` returns with a response |
| `HttpFailover` | 2 / 2 / 1 / 1, checkpoint every 1 | the HTTP programs with a crash, and with replays that are read whole, cut or torn, implement `Failover`; only results of the application are delivered; no object is held for a request that is not staged; no thread is forgotten |
| `Harness` | 3 / 2 / 2 | one replay always suffices; agreement and hashes without reservation; a drained run is accepted, if a request followed the last failover; a reply is lost only if a checkpoint left it out |
| `HarnessLostReply` | 3 / 2 / 2 | violation: the checker accepts a run in which a response was lost |
| `WireFormat` | lists of 2, payloads of 2 characters | round trips of checkpoint, replay and headers; a cut-off text is rejected; what a cut-off replay yields is one of `ReadShort` |
| `Executor` | 3 workers, 3 tasks | no lost wake-up; tasks run once; the destructor drains the queue and returns; every task runs |

Deadlock checking is off: a conversation in which every request has been answered
and both links are empty really does stop, and so does a destroyed pool.

**Why the bounds are enough.** With three outstanding requests a request can be
staged behind a gap with another between them, a drain can commit several requests
at once, and an `ack_new` can skip the lowest outstanding id; a fourth request is
there to acknowledge what the first three did. The safety properties that are also
proved hold for every bound; for the rest the runs are evidence only. For failover,
one crash with window two already produces every branch of `on_request`,
recovery, replayed-but-unanswered requests and reprocessing; two crashes add a
replay that outlives the server that asked for it, and a checkpoint taken after a
recovery. `FailoverTwice` has a window of one, for size; `FailoverStaleReplay`
and `Harness` have two crashes with a window of two. `HttpFailover` has two threads
with one request each and a checkpoint after every commit, so that a crash can fall
before, between and after every write, and a thread can recover while the other
one's request is staged, held or answered.

Replays are read short where there is room for it. `FailoverOnce` cuts them behind
any request, and none is torn: `OneFailoverIsSafe` says nothing after a torn one, and
one torn replay makes the run too long. `HttpFailover` has every cut of a replay and
one torn replay; without a bound on those, 575 thousand states were not all of them
after five minutes. The runs with two crashes, with fairness or with a violation read
replays whole, so what they show is not owed to a cut. `RecoverableHistory` lets the server stray
from the first failure on if replays may be read short; in `FailoverOnce`
`OneFailoverIsSafe` shows that it does not.

In `WireFormat` two characters are what
it takes for one to change the meaning of the next, and two entries for one to
be cut off behind another.

**Fairness.** `send` retransmits until it gets an answer, so `Resend` is weakly
fair for each request. The transport drops each attempt with a probability below
one, independently, so a message that is sent again and again is delivered:
delivery is strongly fair for each id. `on_request` and its loop terminate, so
`Commit` is weakly fair. A replay is posted until a 200 arrives, so posting it is
weakly fair, its delivery is strongly fair like that of a request, and so `recover`
returns. Nothing is assumed about `Generate`, `Crash`
or `WriteCheckpoint`: the client need not send more, and a crash need not
happen. The 503 is strongly fair like any other answer.

Over HTTP the same assumption is stated for an exchange: an attempt that is made
again and again eventually reaches the interceptor, is completed and is received
before it times out (strong fairness of those three steps for the live attempt of
each request). Every `post()` returns (it has a timeout) and `send` loops (weak
fairness). In the executor every thread keeps running and tasks return.

### What the runs with a violation show

These three are disagreements between the code and what its documentation says.
`PROJECT.json` quotes the documents.

* **A stale replay is not ignored** (`color_server.cc:100`). A server restored from
  an old checkpoint asks for a replay from position `k` and fails; its replacement
  holds fewer than `k` events and ingests the replay all the same, after the gap.
  `failover.md` says that the echoed position lets the server ignore a stale
  replay; `OnReplay` does not look at it. Over HTTP this needs a replay to be
  retried across two failovers, which `recover` does.
* **A response is lost, and the checker accepts the run** (`color_server.cc:83`).
  `awaiting_` is not in the checkpoint. If a checkpoint is written after a replay
  and before the unanswered request arrives again, and the server then fails, the
  request is committed, not buffered and not awaited: the client gets an
  acknowledgement-only reply and the response never exists. `on_response` counts the
  request as received, which is what `check_run` looks at, so a fuzz run in which
  this happens passes, although `checker.h` promises that every request got a
  response. `LostOnlyIfForgotten` states that there is no other way to lose a
  response.
* **A request can wait for ever after a failover** (`color_server.cc:60`). Requests 1
  and 2 are outstanding, 1 is answered, and the server fails back to a checkpoint
  before 1. Request 2 is staged behind 1, which the client no longer sends, and 2
  was frozen before 1 was answered, so it acknowledges nothing. Only a further
  request reveals the gap. `AnsweredUnlessStalled` states that this is the
  only way.

`OneReplaySuffices` and `InlineAgreement` explain why the harness does not meet the
first of these: it builds and ingests a replay in one step, so a replay never goes
stale. `DrainedRunPasses` needs a request after the last failover for the reason of
the third.

Smaller observations, without a run of their own:

* The interceptor may abort the attempt that the client is waiting for
  (`color_interceptor.cc:116`). If attempt 1 of a request times out at the client
  while it is queued, and attempt 2 is run first and held behind a gap, then
  attempt 1 aborts it and takes its place. `EverySendReturns` shows that the client
  recovers by retrying, provided that an abort does not look like a response: `send`
  takes any delivered status but 503 as the response.
* The comment at `color_interceptor.cc:168` says that a reader of the checkpoint
  finds the old or the new whole file, never a partial one. That is so when the
  process dies; when the write fails (line 178) the partial file is renamed into
  place. `CutRejected` shows that the replacement notices and starts empty, and
  `OneFailoverIsSafe` that nothing but time is lost, as long as the replay that follows
  is not torn. It is not if its body fits into one block.
* `OnReplay` ignores the result of `from_json_replay`, and `ReadBody` reads one
  block (`color_interceptor.cc:92-94`). A longer replay is ingested as far as it could be parsed, and its last event
  may be damaged. If the cut falls behind a request, the next request that acknowledges more
  gets another 503 and the recovery goes on from there. If not, the events the server
  holds are not those of the client, and one failover is enough to lose a response.
  Say nothing was saved, request 12 is unanswered, 13 is answered, and 14 acknowledges 13. The replay
  is cut inside `R12`, which is read as `R1` and answered with 200; 14 gets a second
  503 with a position one further, the second replay starts behind `R12`, and so 12 is
  committed and never awaited: its retransmission gets an acknowledgement-only
  reply, and `send` returns without a response. In `Failover`, with three requests,
  window two, one crash and one torn replay, TLC finds such a loss in 15 steps when
  `torn = 0` is dropped from `OneFailoverIsSafe`; the two-request bounds of
  `HttpFailover` are too small for a loss, but histories diverge there. This is why the
  properties name torn replays. `CutRejected` shows that
  looking at the result would be enough to refuse them.
* `awaiting_` can keep an id whose response, sent by the old server, the client has
  acknowledged since (`color_server.cc:65`). It matters only if a further copy of that
  request arrives, and then the new server runs the application once for a result
  nobody waits for; `OncePerServer` and `ServeLate` of `RecoverableHistory` allow
  this.
* `docs/claude/protocol.md:571` says that `pending_reqs` is bounded by the in-flight
  window. While the server stays up it is (`Bounded`); after a failover it need not
  be. A staged request that a replay commits is never erased
  (`color_server.cc:112`), and a replacement stages late copies of requests that the
  old server had answered. Say the window is 3 and nothing was saved. The client has
  the answers to 2 and 3, acknowledged together by request 4, and to 4 and 5,
  acknowledged together by request 6. Requests 2, 3, 5 and 7 then acknowledge
  nothing new, so they do not ask for a replay, and if copies of them arrive all four
  wait for request 1. The longer the run, the more such requests there are. What does
  hold is `StagedAcksCommitted`: whatever waits there acknowledges only what the
  server has committed.

## Proofs

Each theorem holds for every value of the constants. What is assumed of them:
there is at least one request and one thread or window place (`BoundsAssumption`,
`HttpBoundsAssumption`, which also makes `checkpoint_every_` positive: zero
switches checkpoints off), copies are kept or not
(`CopiesAssumption`), the number of failovers and that of torn replays are natural
numbers, and replays may be read short or not
(`CrashAssumption`, `HttpCrashAssumption`, `FailoversAssumption`), and there is a worker and a finite
number of tasks (`PoolAssumption`). TLC evaluates each of them in a run.

The theorem modules build on each other: `ConversationProofs`, then
`DeliveryProofs`, then `RecoveryProofs`, which `FailoverProofs` and `HarnessProofs`
extend; `HttpProofs` and `HttpFailoverProofs` instantiate `RecoveryProofs` and
`FailoverProofs` under their refinement mappings.

### The conversation

| Theorem | Property |
|---|---|
| `TypeCorrect` | `TypeOK` |
| `AgreementCorrect` | `HistoryAgreement`: the server's history is the client's up to the last committed request |
| `NoMismatchCorrect` | `NoMismatch`: neither side ever sees a wrong hash |
| `NoSpuriousRecovery` | `NeverAsksForReplay` |
| `NoReplyLost` | `NoLostReply` |
| `ExactlyOnceCorrect` | `ExactlyOnce` |
| `BoundedCorrect` | `Bounded` |
| `QuietConverged` | `ConvergedWhenQuiet` |
| `RefinesSharedHistory` | `ImplementsSharedHistory` |

None of these is inductive. The invariant that is has four layers, in
`ConversationInvariants`, each resting on the ones before it:

* `HistoryInv`. When the server commits request `n`, nothing in `HistoryAgreement`
  says that the events it appends are those the client appended. So: the client's
  table `req_hash_` is complete and its entries are prefixes of its history; every
  copy of a request anywhere (on the link, to be sent again, staged) is *frozen*,
  its hash being the client's entry for it and that entry the one before it
  extended by what the request commits; the server's table and every hash on its way
  back agree with the client's.
* `AckInv`. Only what the client has received is acknowledged, by any copy of a
  request however old; and only what is committed is received. Hence no request asks
  for a replay.
* `ReplyInv`. The application ran once for each committed request, and its one answer
  is what is buffered, in flight and delivered; a `no_op` goes only to a client that
  has the answer.
* `WindowInv`. What was unanswered when request `n` was generated fits into the
  window, and the *history* says what had been answered. A buffered response is
  not yet recorded in the server's history, so the buffer holds only what was
  unanswered at the last commit. This is why the buffer stays within the window although `ack_base`
  may stand still.

The refinement maps a step that generates to `Issue`, one commit to `Serve`, and a
response received for the first time to `Receive`; every other step stutters.

### Failover

`FailoverProofs`, for every number of crashes and of torn replays, whether replays are
read short or whole:

| Theorem | Property |
|---|---|
| `FailoverTypeCorrect` | `FailoverTypeOK` |
| `AgreementSurvives` | `AgreementAcrossFailover` |
| `HashesSurvive` | `NoMismatchAcrossFailover` |
| `OncePerServerCorrect` | `OncePerServer` |
| `OneFailoverSafe` | `OneFailoverIsSafe` |
| `StagedAcksCorrect` | `StagedAcksCommitted`, past a gap and after a torn replay too |
| `RefinesRecoverableHistory` | `ImplementsRecoverableHistory` |

The records that outlive a server join the invariant (`RecordsInv`): a checkpoint
holds the client's history up to some request (`GoodCheckpoint`), a replay the
rest of what was the client's history when it was built (`GoodReplay`), and each
request stands in the client's history once, at a place that its hash determines
(`OrderInv`); the last is what makes the part of an overlapping replay that the server has not seen the
right continuation. `HashedInv` says that whatever may have to be answered has its
hash in the table, `OnceInv` that nothing awaited has been run by this server. For
`OneFailoverIsSafe` (`OneCrashInv`, while no replay was torn): before the first crash there is no replay at all,
so after it every replay in existence was asked for by the one replacement, which
only commits more; and whatever the client still lacks an answer to is buffered,
awaited or not yet committed (`AnswerableInv`). A part of a replay that ends behind a
request is again a good replay (`CleanCutGood`): it ends where the client's history
stood when that request was generated, which `OrderInv` finds. Nothing of the kind
holds of a torn one, so `RecordsInv` ends there; what goes on are the types,
`StagedAcksCommitted` and `LedgerInv` below, which reckon with ids that were made up
by damage, 0 included. A second crash breaks exactly this: see
`FailoverStaleReplay`.

The refinement of `RecoverableHistory` states what is left of the shared history when
servers fail. One commit is `Serve`, an ingested replay is `CatchUp`, a request
reprocessed after it `ServeLate`, a crash `FallBack`; a response received for the first
time is `Receive`, an acknowledgement-only reply to a request still outstanding
`GoWithout`, and a replay ingested past a gap, or torn, `Stray`, after which any step that changes the server's side is.
If replays are read whole, the last two are allowed from the second failure on only, so
the refinement contains the safety of one failover. If they may be read short, the
server may stray after the first failure, and a request go without its answer once it has;
`OneFailoverSafe` says that it takes a torn replay (`StraysLate`). It needs three things beyond the invariants above,
together `LedgerInv`. `ResultsInv`: whatever is delivered, buffered, checkpointed
or on its way as a response is the result of a run for that id that was really made,
by this server or one before it; runs are only ever added. `IssuedInv`: no id is in use
that the client has not given out. And a checkpoint in the file is never ahead of
the server that wrote it, so that a crash falls back and does not leap. Where the server stands is read off `OrderInv`:
the client's history up to request `n` is one prefix only, so a commit or a replay
that ends at a later request has moved along the history and not beside it
(`HistoryEnds`, `CommitTakesNext`, `MovesAlong`).

### The harness

`HarnessProofs`, for every number of failovers and without the reservation about
gaps, because a replay is built and ingested in one step:

| Theorem | Property |
|---|---|
| `InlineAgreementCorrect` | `InlineAgreement` |
| `OneReplayCorrect` | `OneReplaySuffices` |
| `LossExplained` | `LostOnlyIfForgotten` |
| `CheckerAccepts` | `DrainedRunPasses` |
| `HarnessRecovers` | `ImplementsRecoverableHistory`, with a server that never strays |

`HarnessInv` consists of the types, agreement of the records, `OnceInv` and `ReceiptsInv`,
`RoundInv` (after the replay of this round the server is level with the client),
`LossInv` (`AnswerableInv` but for the ids that a checkpoint left out), `FreshInv`
and `FirstInv`. The last two are for `DrainedRunPasses`: without a request generated
since the last failover a drained server may lack the end of the history.
`HarnessRecovers` is the refinement of `RecoverableHistory` with `strayed <- FALSE`: it
uses the lemmas about results and histories of `RecoveryProofs` as `FailoverProofs` does, and `RoundInv`
for the replay.

### HTTP

`HttpProofs`, for a server that stays up:

| Theorem | Property |
|---|---|
| `RefinesConversation` | `ImplementsConversation` |
| `ConversationOverHttp` | the seven safety properties of the conversation, of the HTTP programs |
| `HttpSharesHistory` | `ImplementsSharedHistory`, of the HTTP programs |
| `HttpTypeCorrect` | `HttpTypeOK` |
| `AttemptsRemembered` | `NoAttemptForgotten` |
| `HeldExactly` | `HeldWhileStaged` |
| `CheckpointKeepsUp` | `CheckpointLag` |

The refinement mapping takes the responses still to be handed out and the replies
on their way back as the response link, over links that lose (`KeepCopies <- FALSE`):
an answer that nobody listens for is a lost one. It needs only `LinkInv`, that
every attempt carries a frozen request. Through it the theorems about the
conversation hold of the two cores inside the HTTP programs, and `CoreInv` collects
what the rest needs of them. On top of that: `AttemptInv`, a live attempt is in
exactly one place (on its way, held, answered, aborted), so taking it from one place without
putting it in another cannot happen; `HeldInv`, in the middle of `OnRequest` an
object is held for each staged request and each response to be handed out, of which
there is one for each id; `LagInv`, what is committed and not in the file is counted
or is about to be.

### HTTP with a server that fails

`HttpFailoverProofs`, for every number of crashes and of torn replays:

| Theorem | Property |
|---|---|
| `RefinesFailover` | `ImplementsFailover` |
| `FailoverOverHttp` | agreement, hashes, once-per-server, the safety of one failover and staged acknowledgements, of the HTTP programs |
| `HttpRecovers` | `ImplementsRecoverableHistory`, of the HTTP programs |
| `HttpFailoverTypeCorrect` | `HttpFailoverTypeOK` |
| `ThreadsRemembered` | `NoThreadForgotten` |
| `HeldForStaged` | `HeldOnlyStaged` |
| `AppResultsDelivered` | `OnlyAppResultsDelivered` |

The proof starts with the programs around the cores (`ProgramInv`). `IdsInv`: every
id in use is that of a frozen request. `AskingInv` and `RecoveringInv`: live
attempts of requests belong to threads that ask, live attempts of replays to threads
that recover, with the replay each is posting. `OnePlace`: what a thread waits for is
in exactly one place; the set `CutOff` that a crash breaks off is what keeps this
true. `LockInv`: at a recovery signal nothing else is to be handed out. `HeldInv`:
an object is held for a staged request or for a response to be handed out.

The refinement mapping (`answers`, `posted_replays`) has two subtle places. A
recovery signal is on the response link only while its thread listens: given to a
superseded attempt it starts no recovery, so in `Failover` it is lost before it can
be received. And a posted replay is a copy of what its thread froze, on a link that
may keep a copy or lose it; a superseded attempt that runs after its recovery ended
is a late copy. What `OnReplay` reads of it, in both modules, is any of `ReadShort`, so
`Failover` is instantiated with `CutReplays <- TRUE`, and the theorems carried over are
those with their conditions on torn replays. The steps of the transport stutter, or lose a response.

`HttpRecovers` composes this refinement with that of `RecoverableHistory`.
`AppResultsDelivered` takes `ResultsInv` of `Failover` through the mapping: what is
delivered always is a result of the application; that every call which returns delivers one
takes `OneFailoverIsSafe`, and a second failover can break it (`LostOnlyIfForgotten`
says how), or a torn replay.

### The executor

`ThreadPoolProofs`, for every finite, nonempty set of workers and every
finite set of tasks:

| Theorem | Property |
|---|---|
| `NoWakeupLost` | `NoIdleBacklog` |
| `DrainedOnDestruction` | `RunOnceThenDestroyed` |

`NoIdleBacklog` counts: a push adds a task and a notification, a notification
becomes a ready worker if anyone sleeps, and taking a task uses up one ready
worker. It is inductive given that a task has at most one notification to come,
which needs `QueueInv` (a queued task is queued once and has not run).
`ShutdownInv` gives the second theorem: workers leave a stopped and drained
pool only.

### Only model-checked

* Liveness (`EveryRequestAnswered`, `AnsweredUnlessStalled`, `EverySendReturns`,
  `EveryTaskRuns`, `DestructorReturns`): reasoning under fairness is out of the
  prover's reach.
* `WireFormat`: encoders and parsers are recursive, and what a recursive definition
  computes for every input takes an induction that the prover cannot do.
* The properties of the runs that expect a violation, which are false.

## What is not modelled

* Statistics counters (`max_*`) and the checks on them, command lines, printing, the
  reporting callbacks of the client.
* Collisions of the hash, and overflow of 64-bit ids.
* `set_hash = false`: without hashes nothing else changes.
* Request bodies that are longer than one block: `Parse` reads them with the same
  `ReadBody`, so the application would get a part of the payload. Request payloads are
  left out of the model.
* That a text ends at different places for different reads of the same replay is
  modelled; where a block ends is not, so any read may be short.
* Malformed or missing headers, and JSON that the encoders do not write other than
  by being cut off (white space, `parse_bool`, unknown keys but `version`).
* What `net_http` does with an aborted request, statuses other than 200 and 503, and
  how `curl_transport.cc` sets up libcurl and splits header lines.
* Liveness with replays that are read short: `FailoverLiveness` assumes whole ones. A
  replay that is cut at the same place each time, before anything new, is asked for again
  and again.
* Liveness of `HttpFailover`: at a window of two it is beyond a run of a few
  minutes. `FailoverLiveness` shows it for `Failover`; the refinement by
  `HttpFailover` is one of safety and does not carry it over.

## Plan

1. *Done*: `ColorMessages`, `SimNetwork`, `ColorClient`, `ColorServer`,
   `Conversation`, `SharedHistory`, `Failover`, `HttpExchange`,
   `ThreadPoolExecutor`, in this order; their runs; type correctness, agreement
   and hashes of the conversation and the safety of the executor proved.
2. *Done*: HTTP with failover (`HttpFailover`), the harness and its checker
   (`Harness`), the texts (`WireFormat`).
3. *Done*: proofs of the four layers of the conversation and of its refinement of
   `SharedHistory`; of `Failover`, `Harness`, `HttpExchange` and `HttpFailover`, with
   the refinement of `Conversation` and `Failover` by the last two and of
   `RecoverableHistory` by `Failover` and `Harness`.
4. Proofs that could follow: the lag of the checkpoint file when writes fail, and
   what of the conversation survives a replay past a gap or a torn one.
