------------------------- MODULE RecoverableHistory -------------------------
(***************************************************************************)
(* What Color promises when the server fails and is replaced, without      *)
(* messages, checkpoints or replays (docs/spec.md).  The history is the    *)
(* client's, as in SharedHistory.  The server follows it: it takes the     *)
(* next request and runs it, catches up with several that were taken       *)
(* before, or falls back when it fails.  One server runs a request at most *)
(* once; the client takes one answer to a request, of whichever run.       *)
(*                                                                         *)
(* From the second failure on, or from the first if replays may be read    *)
(* short, the server may stray: nothing is promised of its history from    *)
(* then on, but all is that concerns the client's side.  A request may be  *)
(* completed without its answer once the server has strayed, or from the   *)
(* second failure on.                                                      *)
(***************************************************************************)
EXTENDS ColorMessages

CONSTANT CutReplays     \* replays may be read short

VARIABLES
    order,      \* the conversation history, as the client writes it
    issued,     \* number of requests in it
    arrivals,   \* answers received that the history does not hold yet
    completed,  \* requests the client waits for no longer
    delivered,  \* id -> the answer the client got
    agreed,     \* the part of the history the server has taken
    ran,        \* requests this server has run
    runs,       \* id -> how often it was run, over all servers
    failures,   \* how often a server has failed
    strayed     \* the server's history is no longer the client's

clientSide == << order, issued, arrivals, completed, delivered >>
serverSide == << agreed, ran, runs, failures, strayed >>
vars == << clientSide, serverSide >>

Init ==
    /\ order = << >>
    /\ issued = 0
    /\ arrivals = << >>
    /\ completed = {}
    /\ delivered = EmptyMap
    /\ agreed = << >>
    /\ ran = {}
    /\ runs = EmptyMap
    /\ failures = 0
    /\ strayed = FALSE

-----------------------------------------------------------------------------
Issue ==
    /\ issued' = issued + 1
    /\ order' = order \o Committed(arrivals, issued + 1)
    /\ arrivals' = << >>
    /\ UNCHANGED << completed, delivered, serverSide >>

\* An answer is one that some run for n has given.
Receive(n) ==
    /\ n \in DOMAIN runs
    /\ \E v \in 1 .. runs[n] : delivered' = Put(delivered, n, v)
    /\ arrivals' = Append(arrivals, n)
    /\ completed' = completed \cup {n}
    /\ UNCHANGED << order, issued, serverSide >>

GoWithout(n) ==
    /\ strayed \/ failures > 1
    /\ completed' = completed \cup {n}
    /\ UNCHANGED << order, issued, arrivals, delivered, serverSide >>

-----------------------------------------------------------------------------
\* The history h ends with request n, and holds all that precedes it.
EndsWith(h, n) ==
    \/ n = 0 /\ h = << >>
    \/ \E k \in DOMAIN order : order[k] = ReqEvent(n) /\ h = SubSeq(order, 1, k)

Run(n) ==
    /\ n \notin ran
    /\ ran' = ran \cup {n}
    /\ runs' = Put(runs, n, IF n \in DOMAIN runs THEN runs[n] + 1 ELSE 1)

Serve(n) ==
    /\ EndsWith(agreed, n - 1)
    /\ EndsWith(agreed', n)
    /\ Run(n)
    /\ UNCHANGED << clientSide, failures, strayed >>

CatchUp(m, n) ==
    /\ m < n
    /\ EndsWith(agreed, m)
    /\ EndsWith(agreed', n)
    /\ UNCHANGED << clientSide, ran, runs, failures, strayed >>

\* A request that was caught up with is run after all.
ServeLate(n) ==
    /\ n \in RequestsIn(agreed)
    /\ Run(n)
    /\ UNCHANGED << clientSide, agreed, failures, strayed >>

FallBack(m, n) ==
    /\ n <= m
    /\ EndsWith(agreed, m)
    /\ EndsWith(agreed', n)
    /\ ran' = {}
    /\ failures' = failures + 1
    /\ UNCHANGED << clientSide, runs, strayed >>

\* Whatever it does then, a server that has strayed takes back no run.
Stray ==
    /\ failures > (IF CutReplays THEN 0 ELSE 1)
    /\ strayed' = TRUE
    /\ \A n \in DOMAIN runs : n \in DOMAIN runs' /\ runs'[n] >= runs[n]
    /\ failures' >= failures
    /\ UNCHANGED clientSide

Next ==
    \/ Issue
    \/ \E n \in (1 .. issued) \ completed : Receive(n) \/ GoWithout(n)
    \/ ~strayed /\ \E n \in 1 .. issued : Serve(n) \/ ServeLate(n)
    \/ ~strayed /\ \E m, n \in 0 .. issued : CatchUp(m, n) \/ FallBack(m, n)
    \/ Stray

Spec == Init /\ [][Next]_vars
=============================================================================
