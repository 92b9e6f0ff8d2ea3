------------------------------- MODULE MCWire -------------------------------
(***************************************************************************)
(* WireFormat for TLC: records with lists of up to two entries, and with   *)
(* payloads of up to two characters in all.  Numbers that are written next *)
(* to each other differ, and some have several digits.                     *)
(***************************************************************************)
EXTENDS WireFormat

Numbers == {0, 2}

Payloads == BoundedSeq({"a", "n", "}", "quote", "backslash", "newline", "0x01", "0x10"}, 2)

\* Lists of up to two entries with two characters of payload in all.
Lists(entries) ==
    {s \in BoundedSeq(entries, 2) :
        FoldLeft(LAMBDA n, e : n + Len(e.payload), 0, s) <= 2}

Answers == {[seq |-> n, payload |-> p, hash |-> n + 3] : n \in Numbers, p \in Payloads}

MCCheckpoints ==
    {[committed_upto |-> n, event_count |-> n + 1, history_hash |-> n + 4, buffer |-> b] :
        n \in Numbers, b \in Lists(Answers)}

\* Only responses are replayed with a payload and a hash.
MCReplays ==
    {[from |-> n, events |-> evs] :
        n \in Numbers,
        evs \in Lists({[is_response |-> TRUE] @@ a : a \in Answers}
                          \cup {[is_response |-> FALSE, seq |-> n, payload |-> << >>, hash |-> 0] :
                                    n \in Numbers})}

Hashes == {{}, {0}, {5}}

MCRequests ==
    [seq : {1, 2, 5}, ack_base : {1, 4}, ack_new : BoundedSeq({1, 2, 6}, 3), hash : Hashes]

MCReplies == [seq : {1, 6}, hash : Hashes, no_op : BOOLEAN, recover_from : {{}, {0}, {6}}]
=============================================================================
