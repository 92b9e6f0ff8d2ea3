--------------------------- MODULE SharedHistory ---------------------------
(***************************************************************************)
(* What Color promises while the server stays up, without messages,        *)
(* retransmission or buffers (docs/spec.md): one conversation history      *)
(* that the client writes and the server follows.  A request enters the    *)
(* history after the responses the client had received; the server takes   *)
(* requests in that order, each exactly once; each answer reaches the      *)
(* client exactly once and unchanged.                                      *)
(***************************************************************************)
EXTENDS ColorMessages

VARIABLES
    order,      \* the conversation history, as the client writes it
    issued,     \* number of requests in it
    arrivals,   \* answers received that the history does not hold yet
    agreed,     \* the part of the history the server has taken
    answers,    \* id -> the one answer the application gave
    delivered   \* id -> the answer the client got

vars == << order, issued, arrivals, agreed, answers, delivered >>

Init ==
    /\ order = << >>
    /\ issued = 0
    /\ arrivals = << >>
    /\ agreed = << >>
    /\ answers = EmptyMap
    /\ delivered = EmptyMap

Issue ==
    /\ issued' = issued + 1
    /\ order' = order \o Committed(arrivals, issued + 1)
    /\ arrivals' = << >>
    /\ UNCHANGED << agreed, answers, delivered >>

\* The server takes the next request of the history, with every response event
\* before it, and the application answers it, in any way.
Serve(n) ==
    /\ n \notin DOMAIN answers
    /\ \A m \in 1 .. (n - 1) : m \in DOMAIN answers
    /\ \E k \in DOMAIN order :
           /\ order[k] = ReqEvent(n)
           /\ agreed' = SubSeq(order, 1, k)
    /\ DOMAIN answers' = DOMAIN answers \cup {n}
    /\ \A m \in DOMAIN answers : answers'[m] = answers[m]
    /\ UNCHANGED << order, issued, arrivals, delivered >>

Receive(n) ==
    /\ n \in DOMAIN answers \ DOMAIN delivered
    /\ delivered' = Put(delivered, n, answers[n])
    /\ arrivals' = Append(arrivals, n)
    /\ UNCHANGED << order, issued, agreed, answers >>

Next ==
    \/ Issue
    \/ \E n \in 1 .. issued : Serve(n) \/ Receive(n)

Spec == Init /\ [][Next]_vars
=============================================================================
