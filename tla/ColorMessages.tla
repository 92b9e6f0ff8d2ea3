--------------------------- MODULE ColorMessages ---------------------------
(***************************************************************************)
(* The data two Color endpoints exchange: history events, the running      *)
(* history hash, requests and responses (src/core/color_message.h,         *)
(* color_history.h, color_history.cc).                                     *)
(*                                                                         *)
(* A hash is modelled by the history it summarises: hash_step folds one    *)
(* event into the previous hash, so, collisions apart, equal hashes stand  *)
(* for equal event sequences.  Request payloads are left out: a request is *)
(* frozen when it is generated, so its seq identifies its payload.         *)
(* A response payload is the number of the application run that produced   *)
(* it, which tells the results of two runs of the same request apart.      *)
(***************************************************************************)
EXTENDS Integers, Sequences

\* Seq of color_message.h; ids start at 1.
SeqNo == Nat \ {0}

\* Event: r<seq> when is_response, R<seq> otherwise.  A damaged text yields id 0 too.
Event == [is_response : BOOLEAN, seq : Nat]
ReqEvent(n) == [is_response |-> FALSE, seq |-> n]
RspEvent(n) == [is_response |-> TRUE, seq |-> n]

\* The ids of the requests, and of the responses, among some events.
RequestsIn(evs) == {evs[i].seq : i \in {j \in DOMAIN evs : ~evs[j].is_response}}
ResponsesIn(evs) == {evs[i].seq : i \in {j \in DOMAIN evs : evs[j].is_response}}

\* The hash of a history, by what it identifies.
Hash == Seq(Event)

\* std::nullopt of the optional hash; the seed hash is never sent.
NoHash == << >>

RspEvents(ids) == [i \in DOMAIN ids |-> RspEvent(ids[i])]

\* The events one request commits: the responses it newly acknowledges, in
\* receipt order, and then the request itself.
Committed(ack_new, n) == RspEvents(ack_new) \o << ReqEvent(n) >>

Request == [seq : SeqNo, ack_base : SeqNo, ack_new : Seq(SeqNo), hash : Hash]

\* A response with recover = TRUE is the 503 recovery signal.
NoPayload == 0
Response == [seq : SeqNo, payload : Nat, no_op : BOOLEAN, recover : BOOLEAN,
             recover_from : Nat, hash : Hash]

\* The ids in a vector of ids.
Ids(v) == {v[i] : i \in DOMAIN v}

-----------------------------------------------------------------------------
(* Replays (color_checkpoint.h), and what arrives of one: its text is read *)
(* up to some point, and parsed as far as it goes (failover_json.cc).      *)

Replay == [from : Nat, events : Seq(Event)]

\* An event whose text ends before it does: some digits of its id are missing, so
\* that 12 reads as 1, or all of them, or even its kind.  The digits are abstracted:
\* the id is any up to the one that was written.
Damaged(e) ==
    {ReqEvent(0)} \cup {[is_response |-> e.is_response, seq |-> n] : n \in 0 .. e.seq}

\* What may be parsed of a part of the text: nothing, or some of the events, of which
\* the last may be damaged.  The position stands before them.
ReadShort(rp) ==
    {[from |-> rp.from, events |-> << >>]}
        \cup UNION {{[from |-> rp.from, events |-> SubSeq(rp.events, 1, k - 1) \o << e >>] :
                         e \in Damaged(rp.events[k])} : k \in DOMAIN rp.events}

\* The parts that end behind a request, and so with all that one of the client's
\* requests committed.
CleanCuts(rp) ==
    {rp} \cup {[from |-> rp.from, events |-> SubSeq(rp.events, 1, k)] :
                   k \in {j \in 0 .. Len(rp.events) : j > 0 => ~rp.events[j].is_response}}

-----------------------------------------------------------------------------

\* Maps keyed by seq (std::unordered_map): a function on the keys present.
EmptyMap == [n \in {} |-> 0]
Put(map, key, value) ==
    [n \in DOMAIN map \cup {key} |-> IF n = key THEN value ELSE map[n]]
Erase(map, keys) == [n \in DOMAIN map \ keys |-> map[n]]
=============================================================================
