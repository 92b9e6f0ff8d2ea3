----------------------------- MODULE WireFormat -----------------------------
(***************************************************************************)
(* The texts that leave a process: the checkpoint file and the replay body *)
(* (src/wire/failover_json.cc), and the headers of requests and replies    *)
(* (src/client/color_http_client.cc, src/server/color_interceptor.cc).     *)
(*                                                                         *)
(* A text is a sequence of characters, in which the name of a key or of a  *)
(* header counts as one character.  Of the other characters there is one   *)
(* of each kind that the codec treats differently, except two of those     *)
(* that are written as \u00xx.  Numbers are written in binary.  The        *)
(* encoders write no white space outside strings, so there is none to skip.*)
(*                                                                         *)
(* A text may be read short: a checkpoint file whose write failed, or a    *)
(* replay body of which ReadBody got one block only.                       *)
(***************************************************************************)
EXTENDS Integers, SequencesExt

\* The records that are written.
CONSTANTS Checkpoints, Replays, Requests, Replies

VARIABLES
    kind,   \* what is written
    sent,   \* the record that is written
    text,   \* its text, on disk or on the wire
    cut,    \* the text was read short
    got,    \* what the reader made of it
    phase

wvars == << kind, sent, text, cut, got, phase >>

-----------------------------------------------------------------------------
(* Writing.                                                                *)

\* std::to_string.
RECURSIVE to_string(_)
to_string(n) ==
    IF n < 2 THEN << IF n = 0 THEN "0" ELSE "1" >>
             ELSE to_string(n \div 2) \o to_string(n % 2)

\* Texts with commas between them.
Commas(texts) ==
    FoldLeft(LAMBDA a, t : IF a = << >> THEN t ELSE a \o << "," >> \o t, << >>, texts)

\* The hex digits of a control character.
Hex(c) == IF c = "0x01" THEN << "0", "0", "0", "1" >> ELSE << "0", "0", "1", "0" >>

\* Mutant: a backslash is written as it is.
EscapeNoBackslash(c) ==
    CASE c = "quote"             -> << "backslash", "quote" >>
      [] c = "newline"           -> << "backslash", "n" >>
      [] c \in {"0x01", "0x10"} -> << "backslash", "u" >> \o Hex(c)
      [] OTHER                   -> << c >>

\* How append_escaped writes one character.
Escaped(c) ==
    CASE c \in {"quote", "backslash"} -> << "backslash", c >>
      [] c = "newline"                -> << "backslash", "n" >>
      [] c \in {"0x01", "0x10"}      -> << "backslash", "u" >> \o Hex(c)
      [] OTHER                        -> << c >>

append_escaped(s) ==
    << "quote" >> \o FlattenSeq([i \in DOMAIN s |-> Escaped(s[i])]) \o << "quote" >>

Field(key, t) == append_escaped(<< key >>) \o << ":" >> \o t
Object(fields) == << "{" >> \o Commas(fields) \o << "}" >>
List(texts) == << "[" >> \o Commas(texts) \o << "]" >>

to_json_checkpoint(cp) ==
    Object(<< Field("version", << "1" >>),
              Field("committed_upto", to_string(cp.committed_upto)),
              Field("event_count", to_string(cp.event_count)),
              Field("history_hash", to_string(cp.history_hash)),
              Field("buffer", List([i \in DOMAIN cp.buffer |->
                  Object(<< Field("seq", to_string(cp.buffer[i].seq)),
                            Field("payload", append_escaped(cp.buffer[i].payload)),
                            Field("hash", to_string(cp.buffer[i].hash)) >>)])) >>)

Event(e) ==
    LET name == << Field("t", append_escaped(<< IF e.is_response THEN "r" ELSE "R" >>)),
                   Field("seq", to_string(e.seq)) >>
        answer == << Field("payload", append_escaped(e.payload)),
                     Field("hash", to_string(e.hash)) >>
    IN  Object(IF e.is_response THEN name \o answer ELSE name)

Events(rp) == List([i \in DOMAIN rp.events |-> Event(rp.events[i])])

\* Mutant: the position comes after the events.
ReplayFromLast(rp) ==
    Object(<< Field("events", Events(rp)), Field("from", to_string(rp.from)) >>)

to_json_replay(rp) ==
    Object(<< Field("from", to_string(rp.from)), Field("events", Events(rp)) >>)

-----------------------------------------------------------------------------
(* Parser: what is at position i of a text t.  A parse gives a value, the  *)
(* position behind it and how it ended: "ok"; "bad" when ok became false;  *)
(* "quit" when the caller returns false at once.                           *)

peek(t, i, c) == i <= Len(t) /\ t[i] = c

Parsed(val, at, end) == [val |-> val, at |-> at, end |-> end]

Unescaped(e) == IF e = "n" THEN "newline" ELSE e

\* The character of a \u escape; those from 0x80 on are dropped.
CharOf(hex) == SelectSeq(<< "0x01", "0x10" >>, LAMBDA c : Hex(c) = hex)

\* The loop of parse_string, from position i, with s read so far.
RECURSIVE StringFrom(_, _, _)
StringFrom(t, i, s) ==
    LET escape == peek(t, i, "backslash") /\ i < Len(t)
    IN  CASE i > Len(t) -> Parsed(s, i, "bad")
          [] peek(t, i, "quote") -> Parsed(s, i + 1, "ok")
          [] escape /\ t[i + 1] = "u" /\ i + 5 <= Len(t) ->
                 StringFrom(t, i + 6, s \o CharOf(SubSeq(t, i + 2, i + 5)))
          [] escape /\ t[i + 1] = "u" /\ i + 5 > Len(t) -> StringFrom(t, i + 2, s)
          [] escape /\ t[i + 1] # "u" ->
                 StringFrom(t, i + 2, Append(s, Unescaped(t[i + 1])))
          [] OTHER -> StringFrom(t, i + 1, Append(s, t[i]))

parse_string(t, i) ==
    IF peek(t, i, "quote") THEN StringFrom(t, i + 1, << >>) ELSE Parsed(<< >>, i, "bad")

\* strtoull on a text of digits; of none, it is zero.
strtoull(digits) ==
    FoldLeft(LAMBDA n, d : 2 * n + (IF d = "1" THEN 1 ELSE 0), 0, digits)

\* The first position from i on that is past the text or holds none of cs.
PastAll(t, i, cs) ==
    CHOOSE j \in i .. Len(t) + 1 : /\ j > Len(t) \/ t[j] \notin cs
                                   /\ \A k \in i .. j - 1 : t[k] \in cs

parse_u64(t, i) ==
    LET j == PastAll(t, i, {"0", "1"}) IN Parsed(strtoull(SubSeq(t, i, j - 1)), j, "ok")

\* Of the keys that are not recognised only "version" is ever written.
skip_value(t, i) ==
    Parsed(0, PastAll(t, i, {"0", "1"}), IF i > Len(t) THEN "bad" ELSE "ok")

RECURSIVE ObjectFrom(_, _, _), ListFrom(_, _, _)

\* The value of a key.
Value(key, t, i) ==
    CASE key \in {"t", "payload"} -> parse_string(t, i)
      [] key \in {"buffer", "events"} ->
             IF peek(t, i, "[") THEN ListFrom(t, i + 1, << >>) ELSE Parsed(<< >>, i, "quit")
      [] key = "version" -> skip_value(t, i)
      [] OTHER -> parse_u64(t, i)

\* The loop over the fields of an object, and its closing brace.
ObjectFrom(t, i, fields) ==
    LET key == parse_string(t, i)
        v == Value(key.val[1], t, key.at + 1)
        set == (key.val[1] :> v.val) @@ fields
    IN  IF peek(t, i, "}") THEN Parsed(fields, i + 1, "ok")
        ELSE IF ~peek(t, key.at, ":") THEN Parsed(fields, i, "quit")
        ELSE CASE v.end = "ok" /\ peek(t, v.at, "}") -> Parsed(set, v.at + 1, "ok")
               [] v.end = "ok" /\ peek(t, v.at, ",") -> ObjectFrom(t, v.at + 1, set)
               [] v.end = "quit" -> Parsed(set, v.at, "quit")
               [] OTHER -> Parsed(set, v.at, "bad")

\* The loop over the objects of a list.  A damaged object is pushed all the same,
\* unless the parser gave up on it.
ListFrom(t, i, list) ==
    LET o == ObjectFrom(t, i + 1, << >>)
        pushed == Append(list, o.val)
    IN  IF peek(t, i, "]") THEN Parsed(list, i + 1, "ok")
        ELSE IF ~peek(t, i, "{") THEN Parsed(list, i, "quit")
        ELSE CASE o.end = "ok" /\ peek(t, o.at, "]") -> Parsed(pushed, o.at + 1, "ok")
               [] o.end = "ok" /\ peek(t, o.at, ",") -> ListFrom(t, o.at + 1, pushed)
               [] o.end = "quit" -> Parsed(list, o.at, "quit")
               [] OTHER -> Parsed(pushed, o.at, "bad")

\* A field that was not set keeps its initial value.
Get(fields, key, initial) == IF key \in DOMAIN fields THEN fields[key] ELSE initial

\* Mutant: reaching the end of the function counts as success.
AcceptedUnlessQuit(o) == o.end # "quit"

\* What from_json returns: p.ok.
Accepted(o) == o.end = "ok"

Whole(t) == IF peek(t, 1, "{") THEN ObjectFrom(t, 2, << >>) ELSE Parsed(<< >>, 1, "quit")

\* The entry of a list, as a struct of which the parser sets what it finds.
Entry(f) ==
    [seq |-> Get(f, "seq", 0), payload |-> Get(f, "payload", << >>), hash |-> Get(f, "hash", 0)]

from_json_checkpoint(t) ==
    LET o == Whole(t)
        buffer == Get(o.val, "buffer", << >>)
    IN  [ok  |-> Accepted(o),
         val |-> [committed_upto |-> Get(o.val, "committed_upto", 0),
                  event_count |-> Get(o.val, "event_count", 0),
                  history_hash |-> Get(o.val, "history_hash", 0),
                  buffer |-> [i \in DOMAIN buffer |-> Entry(buffer[i])]]]

from_json_replay(t) ==
    LET o == Whole(t)
        events == Get(o.val, "events", << >>)
    IN  [ok  |-> Accepted(o),
         val |-> [from |-> Get(o.val, "from", 0),
                  events |-> [i \in DOMAIN events |->
                      [is_response |-> Get(events[i], "t", << >>) = << "r" >>]
                          @@ Entry(events[i])]]]

-----------------------------------------------------------------------------
(* Headers: a function from the names of those present to their values.    *)
(* An optional value is a set of at most one.                              *)

Header(name, values) ==
    IF values = {} THEN << >> ELSE name :> (CHOOSE v \in values : TRUE)

\* The header lines of a request.
header_lines(r) ==
    [seq |-> to_string(r.seq), ack_base |-> to_string(r.ack_base),
     ack_new |-> Commas([i \in DOMAIN r.ack_new |-> to_string(r.ack_new[i])])]
        @@ Header("hash", {to_string(h) : h \in r.hash})

\* Mutant: the piece after the last comma is lost.
RECURSIVE CsvWithoutLast(_)
CsvWithoutLast(s) ==
    LET j == PastAll(s, 1, {"0", "1"})
    IN  IF j > Len(s) THEN << >>
        ELSE << strtoull(SubSeq(s, 1, j - 1)) >> \o CsvWithoutLast(SubSeq(s, j + 1, Len(s)))

RECURSIVE CsvFrom(_)
CsvFrom(s) ==
    LET j == PastAll(s, 1, {"0", "1"})
    IN  IF s = << >> THEN << >>
        ELSE (IF j > 1 THEN << strtoull(SubSeq(s, 1, j - 1)) >> ELSE << >>)
                 \o CsvFrom(SubSeq(s, j + 1, Len(s)))

parse_csv(s) == CsvFrom(s)

\* Parse of the interceptor.  A header that is missing reads as an empty text.
Parse(hs) ==
    [seq |-> strtoull(Get(hs, "seq", << >>)),
     ack_base |-> IF Get(hs, "ack_base", << >>) = << >> THEN 1 ELSE strtoull(hs.ack_base),
     ack_new |-> parse_csv(Get(hs, "ack_new", << >>)),
     hash |-> IF Get(hs, "hash", << >>) = << >> THEN {} ELSE {strtoull(hs.hash)}]

\* Complete, and the 503 branch of OnRequest: the headers of a reply.
Complete(resp) ==
    IF resp.recover_from # {}
    THEN Header("recover", {<< "from", "=" >> \o to_string(f) : f \in resp.recover_from})
    ELSE Header("seq", {to_string(resp.seq)})
             @@ Header("hash", {to_string(h) : h \in resp.hash})
             @@ Header("no_op", IF resp.no_op THEN {<< "1" >>} ELSE {})

\* The number behind the '=', if there is one.
AfterEquals(v) ==
    strtoull(SubSeq(v, (IF Contains(v, "=") THEN SelectInSeq(v, LAMBDA c : c = "=") ELSE 0) + 1,
                    Len(v)))

\* send() reads a reply to request n.
ReadReply(hs, n) ==
    [seq |-> IF "seq" \in DOMAIN hs THEN strtoull(hs.seq) ELSE n,
     hash |-> IF "hash" \in DOMAIN hs THEN {strtoull(hs.hash)} ELSE {},
     no_op |-> "no_op" \in DOMAIN hs,
     recover_from |-> IF "recover" \in DOMAIN hs THEN {AfterEquals(hs.recover)} ELSE {}]

-----------------------------------------------------------------------------
(* A record is written, perhaps read short, and parsed.                    *)

WireInit ==
    /\ \/ kind = "checkpoint" /\ sent \in Checkpoints
       \/ kind = "replay" /\ sent \in Replays
       \/ kind = "request" /\ sent \in Requests
       \/ kind = "reply" /\ sent \in Replies
    /\ text = << >>
    /\ cut = FALSE
    /\ got = << >>
    /\ phase = "new"

Write ==
    /\ phase = "new"
    /\ text' = CASE kind = "checkpoint" -> to_json_checkpoint(sent)
                 [] kind = "replay"     -> to_json_replay(sent)
                 [] kind = "request"    -> header_lines(sent)
                 [] OTHER               -> Complete(sent)
    /\ phase' = "written"
    /\ UNCHANGED << kind, sent, cut, got >>

\* A failed write, or a body of several blocks: the end of the text is missing.
ReadShort ==
    /\ phase = "written"
    /\ kind \in {"checkpoint", "replay"}
    /\ ~cut
    /\ cut' = TRUE
    /\ \E k \in 0 .. Len(text) - 1 : text' = SubSeq(text, 1, k)
    /\ UNCHANGED << kind, sent, got, phase >>

Read ==
    /\ phase = "written"
    /\ got' = CASE kind = "checkpoint" -> from_json_checkpoint(text)
                [] kind = "replay"     -> from_json_replay(text)
                [] kind = "request"    -> [ok |-> TRUE, val |-> Parse(text)]
                [] OTHER               -> [ok |-> TRUE, val |-> ReadReply(text, sent.seq)]
    /\ phase' = "read"
    /\ UNCHANGED << kind, sent, text, cut >>

WireNext == Write \/ ReadShort \/ Read

WireSpec == WireInit /\ [][WireNext]_wvars

-----------------------------------------------------------------------------
\* A checkpoint or a replay that is read whole is the one that was written, whatever
\* characters its payloads are made of: what one side escapes the other restores.
JsonRoundTrip ==
    phase = "read" /\ ~cut /\ kind \in {"checkpoint", "replay"} =>
        got.ok /\ got.val = sent

\* No part of a text passes for the whole: a file whose write failed is not restored
\* as a smaller state, and a damaged replay can be told from a good one.
CutRejected == phase = "read" /\ cut => ~got.ok

Messages == INSTANCE ColorMessages

\* A replay as the cores see it.  Without events its position says nothing.
Plain(rp) ==
    [from   |-> IF rp.events = << >> THEN sent.from ELSE rp.from,
     events |-> [i \in DOMAIN rp.events |->
                    [is_response |-> rp.events[i].is_response, seq |-> rp.events[i].seq]]]

\* OnReplay ingests what it could parse of a replay without looking at the result.
\* Wherever the text ends, that is one of the replays that OnReplay of HttpFailover
\* and of Failover chooses from.
CutReplayForeseen ==
    phase = "read" /\ cut /\ kind = "replay" =>
        Plain(got.val) \in Messages!ReadShort(Plain(sent))

\* The server reads from the headers the request that the client froze, and the
\* client the reply or the recovery position that the server meant.
HeadersRoundTrip ==
    /\ phase = "read" /\ kind = "request" => got.val = sent
    /\ phase = "read" /\ kind = "reply" =>
           IF sent.recover_from # {} THEN got.val.recover_from = sent.recover_from
                                     ELSE got.val = sent
=============================================================================
