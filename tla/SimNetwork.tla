----------------------------- MODULE SimNetwork -----------------------------
(***************************************************************************)
(* The two lossy links between client and server (SimLink of              *)
(* verification/src/sim_network.h, which stands in for HTTP over a bad     *)
(* network).  A link may lose a message, deliver it more than once, and    *)
(* deliver messages in any order.                                          *)
(*                                                                         *)
(* A link is the set of the messages it holds.  Latency is left out:       *)
(* whatever is in the set may be delivered at any later moment.            *)
(***************************************************************************)
EXTENDS ColorMessages

\* TRUE: a copy of every message stays on its link for ever.  A lost message is
\* then one that is never delivered again, so the reachable endpoint states are
\* the same and there are far fewer states of the links; liveness needs FALSE.
CONSTANT KeepCopies

ASSUME CopiesAssumption == KeepCopies \in BOOLEAN

VARIABLES
    c2s,    \* requests in flight
    s2c     \* responses in flight

netVars == << c2s, s2c >>

NetTypeOK ==
    /\ c2s \subseteq Request
    /\ s2c \subseteq Response

NetInit ==
    /\ c2s = {}
    /\ s2c = {}

\* SimLink::send offers a message to the link.
SendRequest(req) == c2s' = c2s \cup {req}
SendResponses(resps) == s2c' = s2c \cup resps

\* SimLink::due: a delivered copy leaves the link; a duplicate stays behind.
DueRequest(req) ==
    /\ req \in c2s
    /\ \/ c2s' = c2s
       \/ ~KeepCopies /\ c2s' = c2s \ {req}

DueResponse(resp) ==
    /\ resp \in s2c
    /\ \/ s2c' = s2c
       \/ ~KeepCopies /\ s2c' = s2c \ {resp}

\* SimLink::send with the drop drawn: the last copy of a message is lost.
LoseRequest(req) ==
    /\ ~KeepCopies
    /\ req \in c2s
    /\ c2s' = c2s \ {req}
    /\ UNCHANGED s2c

LoseResponse(resp) ==
    /\ ~KeepCopies
    /\ resp \in s2c
    /\ s2c' = s2c \ {resp}
    /\ UNCHANGED c2s
=============================================================================
