--------------------------- MODULE RecoveryProofs ---------------------------
(***************************************************************************)
(* Lemmas about Recovery, for the modules in which a server is replaced:   *)
(* where requests stand in the client's history, what a replay adds to the *)
(* server that ingests it, and what the steps of client and server keep of *)
(* RecoveryInvariants.                                                     *)
(***************************************************************************)
EXTENDS RecoveryInvariants, DeliveryProofs, WellFoundedInduction

-----------------------------------------------------------------------------
(* Requests in the client's history.                                       *)

\* The events a request commits are responses, and then the request.
LEMMA CommittedShape ==
    ASSUME NEW ids \in Seq(SeqNo), NEW n \in SeqNo
    PROVE  /\ Committed(ids, n) \in Seq(Event)
           /\ Len(Committed(ids, n)) = Len(ids) + 1
           /\ \A i \in 1 .. Len(ids) : Committed(ids, n)[i].is_response = TRUE
           /\ Committed(ids, n)[Len(ids) + 1] = ReqEvent(n)
  <1> DEFINE a == RspEvents(ids)
             e == ReqEvent(n)
  <1>1. /\ Len(ids) \in Nat
        /\ a = [i \in 1 .. Len(ids) |-> RspEvent(ids[i])]
    BY DEF RspEvents
  <1>2. \A i \in 1 .. Len(ids) : /\ RspEvent(ids[i]) \in Event
                                 /\ RspEvent(ids[i]).is_response = TRUE
    BY DEF RspEvent, Event, SeqNo
  <1>3. e \in Event
    BY DEF ReqEvent, Event, SeqNo
  <1>4. \A i \in 1 .. Len(ids) : a[i].is_response = TRUE
    BY <1>1, <1>2
  <1>5. a \in [1 .. Len(ids) -> Event]
    BY <1>1, <1>2
  <1>6. Committed(ids, n) = a \o << e >>
    BY DEF Committed
  <1> HIDE DEF a, e
  <1>7. a \in Seq(Event) /\ Len(a) = Len(ids)
    BY <1>1, <1>5
  <1>8. /\ a \o << e >> \in Seq(Event)
        /\ Len(a \o << e >>) = Len(ids) + 1
        /\ \A i \in 1 .. Len(ids) : (a \o << e >>)[i] = a[i]
        /\ (a \o << e >>)[Len(ids) + 1] = e
    BY <1>3, <1>7
  <1> QED BY <1>4, <1>6, <1>8 DEF e

\* The events of two histories put together (History::append).
LEMMA ConcatEvents ==
    ASSUME NEW s \in Seq(Event), NEW t \in Seq(Event)
    PROVE  /\ Len(s \o t) = Len(s) + Len(t)
           /\ DOMAIN (s \o t) = 1 .. (Len(s) + Len(t))
           /\ \A k \in 1 .. Len(s) : (s \o t)[k] = s[k]
           /\ \A k \in 1 .. Len(t) : (s \o t)[Len(s) + k] = t[k]
  <1>1. /\ Len(s) \in Nat /\ Len(t) \in Nat
        /\ Len(s \o t) = Len(s) + Len(t)
        /\ DOMAIN (s \o t) = 1 .. (Len(s) + Len(t))
        /\ \A i \in 1 .. (Len(s) + Len(t)) :
               (s \o t)[i] = IF i <= Len(s) THEN s[i] ELSE t[i - Len(s)]
    OBVIOUS
  <1>2. \A k \in 1 .. Len(s) : (s \o t)[k] = s[k]
    BY <1>1
  <1>3. ASSUME NEW k \in 1 .. Len(t)
        PROVE  (s \o t)[Len(s) + k] = t[k]
    <2>1. /\ Len(s) + k \in 1 .. (Len(s) + Len(t))
          /\ ~(Len(s) + k <= Len(s)) /\ (Len(s) + k) - Len(s) = k
      BY <1>1
    <2> QED BY <1>1, <2>1
  <1> QED BY <1>1, <1>2, <1>3

\* What the client recorded for a request is a prefix of its history.
LEMMA HistoryAtPrefix ==
    ASSUME TypeOK, ClientHistoryInv, NEW n \in 0 .. (next_seq - 1)
    PROVE  /\ HistoryAt(n) \in Seq(Event)
           /\ Len(HistoryAt(n)) \in 0 .. Len(c_history)
           /\ HistoryAt(n) = SubSeq(c_history, 1, Len(HistoryAt(n)))
  <1>1. next_seq \in Nat /\ c_history \in Seq(Event) /\ Len(c_history) \in Nat
    BY DEF TypeOK, ClientTypeOK, SeqNo
  <1>2. HistoryAt(n) \in Seq(Event) /\ IsPrefixOf(HistoryAt(n), c_history)
    <2>1. CASE n = 0
      <3>1. HistoryAt(n) = << >>
        BY <2>1 DEF HistoryAt
      <3> QED BY <1>1, <3>1, EmptyPrefix
    <2>2. CASE n # 0
      <3>1. n \in DOMAIN c_req_hash /\ HistoryAt(n) = c_req_hash[n]
        BY <1>1, <2>2 DEF HistoryAt, ClientHistoryInv
      <3> QED BY <3>1 DEF ClientHistoryInv, TypeOK, ClientTypeOK, Hash
    <2> QED BY <2>1, <2>2
  <1>3. Len(HistoryAt(n)) \in Nat
    BY <1>2
  <1> QED BY <1>1, <1>2, <1>3 DEF IsPrefixOf

\* generate_request puts the new request at the end of the history.
LEMMA GenerateOrder ==
    ASSUME TypeOK, HistoryInv, OrderInv, Generate
    PROVE  /\ OrderInv'
           /\ \A n \in 0 .. (next_seq - 1) : HistoryAt(n)' = HistoryAt(n)
  <1> SUFFICES ASSUME NEW N, N = next_seq
               PROVE  OrderInv' /\ \A n \in 0 .. (N - 1) : HistoryAt(n)' = HistoryAt(n)
    OBVIOUS
  <1> DEFINE L == Len(c_history)
             c == Committed(pending_new, next_seq)
             p == Len(pending_new)
  <1>1. /\ N \in Nat \ {0} /\ N \in SeqNo /\ pending_new \in Seq(SeqNo)
        /\ c_history \in Seq(Event) /\ L \in Nat /\ p \in Nat
        /\ DOMAIN c_req_hash = 1 .. (N - 1)
    BY DEF TypeOK, ClientTypeOK, SeqNo, HistoryInv, ClientHistoryInv
  <1>2. /\ next_seq' = N + 1
        /\ c_history' = c_history \o c
        /\ c_req_hash' = Put(c_req_hash, N, c_history \o c)
    BY DEF Generate, generate_request, NextRequest
  <1>3. /\ c \in Seq(Event) /\ Len(c) = p + 1
        /\ \A i \in 1 .. p : c[i].is_response = TRUE
        /\ c[p + 1] = ReqEvent(N)
    BY <1>1, CommittedShape
  <1>4. \A n \in 0 .. (N - 1) : HistoryAt(n)' = HistoryAt(n)
    BY <1>1, <1>2 DEF HistoryAt, Put
  <1>5. HistoryAt(N)' = c_history'
    BY <1>1, <1>2 DEF HistoryAt, Put
  <1>6. \A n \in 0 .. (N - 1) : Len(HistoryAt(n)) \in 0 .. L
    BY HistoryAtPrefix DEF HistoryInv
  <1> HIDE DEF L, c, p
  <1>7. /\ Len(c_history') = L + p + 1
        /\ DOMAIN c_history' = 1 .. (L + p + 1)
        /\ \A k \in 1 .. L : c_history'[k] = c_history[k]
        /\ \A k \in 1 .. (p + 1) : c_history'[L + k] = c[k]
    <2>1. /\ Len(c_history \o c) = L + (p + 1)
          /\ DOMAIN (c_history \o c) = 1 .. (L + (p + 1))
          /\ \A k \in 1 .. L : (c_history \o c)[k] = c_history[k]
          /\ \A k \in 1 .. (p + 1) : (c_history \o c)[L + k] = c[k]
      <3>1. /\ Len(c_history \o c) = L + Len(c)
            /\ DOMAIN (c_history \o c) = 1 .. (L + Len(c))
            /\ \A k \in 1 .. L : (c_history \o c)[k] = c_history[k]
            /\ \A k \in 1 .. Len(c) : (c_history \o c)[L + k] = c[k]
        <4>1. c_history \in Seq(Event) /\ c \in Seq(Event)
          BY <1>1, <1>3
        <4> QED BY <4>1, ConcatEvents, Zenon DEF L
      <3>2. Len(c) = p + 1
        BY <1>3
      <3> QED BY <3>1, <3>2, Zenon
    <2>2. L + (p + 1) = L + p + 1
      BY <1>1
    <2> QED BY <1>2, <2>1, <2>2
  <1>8. \A a, b \in 0 .. N : a < b => Len(HistoryAt(a)') < Len(HistoryAt(b)')
    <2> SUFFICES ASSUME NEW a \in 0 .. N, NEW b \in 0 .. N, a < b
                 PROVE  Len(HistoryAt(a)') < Len(HistoryAt(b)')
      OBVIOUS
    <2>1. a \in 0 .. (N - 1)
      BY <1>1
    <2>2. CASE b = N
      <3>1. Len(HistoryAt(b)') = L + p + 1
        BY <1>5, <1>7, <2>2
      <3>2. Len(HistoryAt(a)') \in 0 .. L
        BY <1>4, <1>6, <2>1
      <3> QED BY <1>1, <3>1, <3>2
    <2>3. CASE b # N
      <3>1. b \in 0 .. (N - 1)
        BY <1>1, <2>3
      <3> QED BY <1>4, <2>1, <3>1 DEF OrderInv
    <2> QED BY <2>2, <2>3
  <1>9. \A n \in 1 .. N : c_history'[Len(HistoryAt(n)')] = ReqEvent(n)
    <2> SUFFICES ASSUME NEW n \in 1 .. N
                 PROVE  c_history'[Len(HistoryAt(n)')] = ReqEvent(n)
      OBVIOUS
    <2>1. CASE n = N
      <3>1. Len(HistoryAt(n)') = L + (p + 1)
        BY <1>1, <1>5, <1>7, <2>1
      <3> QED BY <1>1, <1>3, <1>7, <2>1, <3>1
    <2>2. CASE n # N
      <3>1. n \in 1 .. (N - 1) /\ n \in 0 .. (N - 1) /\ 0 \in 0 .. (N - 1) /\ 0 < n
        BY <1>1, <2>2
      <3>2. Len(HistoryAt(0)) < Len(HistoryAt(n))
        BY <3>1 DEF OrderInv
      <3>3. Len(HistoryAt(n)) \in 1 .. L
        BY <1>1, <1>6, <3>1, <3>2
      <3> QED BY <1>4, <1>7, <3>1, <3>3 DEF OrderInv
    <2> QED BY <2>1, <2>2
  <1>10. \A k \in DOMAIN c_history' :
             ~c_history'[k].is_response =>
                 \E n \in 1 .. N : c_history'[k] = ReqEvent(n) /\ k = Len(HistoryAt(n)')
    <2> SUFFICES ASSUME NEW k \in DOMAIN c_history', ~c_history'[k].is_response
                 PROVE  \E n \in 1 .. N : /\ c_history'[k] = ReqEvent(n)
                                          /\ k = Len(HistoryAt(n)')
      OBVIOUS
    <2>1. CASE k \in 1 .. L
      <3>1. k \in DOMAIN c_history /\ c_history'[k] = c_history[k]
        BY <1>1, <1>7, <2>1 DEF L
      <3>2. PICK n \in 1 .. (N - 1) : c_history[k] = ReqEvent(n) /\ k = Len(HistoryAt(n))
        BY <3>1 DEF OrderInv
      <3>3. n \in 0 .. (N - 1) /\ n \in 1 .. N
        BY <1>1
      <3> QED BY <1>4, <3>1, <3>2, <3>3
    <2>2. CASE k \notin 1 .. L
      <3>1. k - L \in 1 .. (p + 1) /\ k = L + (k - L)
        BY <1>1, <1>7, <2>2 DEF L, p
      <3>2. c_history'[k] = c[k - L]
        BY <1>7, <3>1
      <3>3. k - L \notin 1 .. p
        BY <1>3, <3>2
      <3>4. k = L + p + 1 /\ c_history'[k] = ReqEvent(N)
        <4>1. L \in Nat /\ p \in Nat
          BY <1>1 DEF L, p
        <4>2. k - L = p + 1
          BY <3>1, <3>3, <4>1
        <4> QED BY <1>3, <3>1, <3>2, <4>1, <4>2
      <3>5. Len(HistoryAt(N)') = k /\ N \in 1 .. N
        BY <1>1, <1>5, <1>7, <3>4
      <3> QED BY <3>4, <3>5
    <2> QED BY <2>1, <2>2
  <1>11. next_seq' - 1 = N
    BY <1>1, <1>2
  <1> QED BY <1>4, <1>8, <1>9, <1>10, <1>11 DEF OrderInv

\* While the client generates nothing, the order of its history stands.
LEMMA OrderKept ==
    ASSUME OrderInv, UNCHANGED << next_seq, c_req_hash, c_history >>
    PROVE  OrderInv'
  BY DEF OrderInv, HistoryAt

-----------------------------------------------------------------------------
(* What a replay holds.                                                    *)

\* T is the slice of h after position p and through position q.
IsSlice(T, h, p, q) ==
    /\ T \in Seq(Event) /\ Len(T) = q - p /\ DOMAIN T = 1 .. (q - p)
    /\ \A i \in 1 .. (q - p) : T[i] = h[p + i]
    /\ SubSeq(h, 1, p) \o T = SubSeq(h, 1, q)
    /\ \A i \in 1 .. (q - p) :
           SubSeq(h, 1, p) \o SubSeq(T, 1, i) = SubSeq(h, 1, p + i)

\* The rest of a prefix of a history is a slice of the history.
LEMMA Slices ==
    ASSUME NEW h \in Seq(Event), NEW p \in 0 .. Len(h), NEW q \in 0 .. Len(h), p < q,
           NEW T, T = SubSeq(SubSeq(h, 1, q), p + 1, q)
    PROVE  IsSlice(T, h, p, q)
  <1>1. Len(h) \in Nat /\ p \in Nat /\ q \in Nat /\ p < q /\ q <= Len(h)
    OBVIOUS
  <1>2. T = SubSeq(h, p + 1, q)
    <2>1. /\ 1 \in 1 .. Len(h) /\ q \in 1 .. Len(h)
          /\ p + 1 \in 1 .. (q - 1 + 1) /\ q \in 1 .. (q - 1 + 1)
      BY <1>1
    <2>2. SubSeq(SubSeq(h, 1, q), p + 1, q) = SubSeq(h, 1 + (p + 1) - 1, 1 + q - 1)
      BY <2>1, SubSeqOfSubSeq
    <2>3. 1 + (p + 1) - 1 = p + 1 /\ 1 + q - 1 = q
      BY <1>1
    <2> QED BY <2>2, <2>3
  <1>3. /\ T \in Seq(Event) /\ Len(T) = q - p
        /\ \A i \in 1 .. (q - p) : T[i] = h[p + i]
    <2>1. \A i \in (p + 1) .. q : h[i] \in Event
      BY <1>1
    <2>2. /\ SubSeq(h, p + 1, q) \in Seq(Event)
          /\ Len(SubSeq(h, p + 1, q)) =
                 IF p + 1 <= q THEN q - (p + 1) + 1 ELSE 0
          /\ \A i \in 1 .. (q - (p + 1) + 1) :
                 SubSeq(h, p + 1, q)[i] = h[(p + 1) + i - 1]
      BY <1>1, <2>1, SubSeqProperties
    <2>3. /\ q - (p + 1) + 1 = q - p /\ p + 1 <= q
          /\ \A i \in 1 .. (q - p) : (p + 1) + i - 1 = p + i
      BY <1>1
    <2> QED BY <1>2, <2>2, <2>3
  <1>4. SubSeq(h, 1, p) \o SubSeq(h, p + 1, q) = SubSeq(h, 1, q)
    BY <1>1, ConcatAdjacentSubSeq
  <1>5. ASSUME NEW i \in 1 .. (q - p)
        PROVE  SubSeq(h, 1, p) \o SubSeq(T, 1, i) = SubSeq(h, 1, p + i)
    <2>1. /\ p + 1 \in 1 .. Len(h) /\ q \in 1 .. Len(h)
          /\ 1 \in 1 .. (q - (p + 1) + 1) /\ i \in 1 .. (q - (p + 1) + 1)
      BY <1>1
    <2>2. SubSeq(SubSeq(h, p + 1, q), 1, i) = SubSeq(h, (p + 1) + 1 - 1, (p + 1) + i - 1)
      BY <2>1, SubSeqOfSubSeq
    <2>3. (p + 1) + 1 - 1 = p + 1 /\ (p + 1) + i - 1 = p + i
      BY <1>1
    <2>4. SubSeq(T, 1, i) = SubSeq(h, p + 1, p + i)
      BY <1>2, <2>2, <2>3
    <2>5. /\ 1 \in 1 .. (Len(h) + 1) /\ p \in (1 - 1) .. Len(h)
          /\ p + i \in p .. Len(h)
      BY <1>1
    <2>6. SubSeq(h, 1, p) \o SubSeq(h, p + 1, p + i) = SubSeq(h, 1, p + i)
      BY <2>5, ConcatAdjacentSubSeq
    <2> QED BY <2>4, <2>6
  <1>6. DOMAIN T = 1 .. (q - p)
    BY <1>3
  <1> QED BY <1>2, <1>3, <1>4, <1>5, <1>6 DEF IsSlice

\* T takes the history from request a to request b: it holds the requests in between,
\* each once, and responses that the client has recorded.
IsTail(T, a, b) ==
    /\ T \in Seq(Event)
    /\ HistoryAt(a) \o T = HistoryAt(b)
    /\ RequestsIn(T) = (a + 1) .. b
    /\ ResponsesIn(T) \subseteq ResponsesIn(c_history)
    /\ \A n \in (a + 1) .. b : \E i \in DOMAIN T : T[i] = ReqEvent(n)
    /\ \A n \in (a + 1) .. b : \A i \in DOMAIN T :
           T[i] = ReqEvent(n) => HistoryAt(a) \o SubSeq(T, 1, i) = HistoryAt(n)

\* What the history up to request b adds to the history up to request a.
LEMMA HistoryTail ==
    ASSUME TypeOK, ClientHistoryInv, OrderInv,
           NEW a \in 0 .. (next_seq - 1), NEW b \in 0 .. (next_seq - 1), a < b,
           NEW T, T = SubSeq(HistoryAt(b), Len(HistoryAt(a)) + 1, Len(HistoryAt(b)))
    PROVE  IsTail(T, a, b)
  <1> DEFINE h == c_history
             N == next_seq - 1
             L(n) == Len(HistoryAt(n))
             p == L(a)
             q == L(b)
  <1>1. N \in Nat /\ h \in Seq(Event) /\ Len(h) \in Nat
    BY DEF TypeOK, ClientTypeOK, SeqNo
  <1>2. /\ \A n \in 0 .. N : /\ L(n) \in 0 .. Len(h)
                             /\ HistoryAt(n) = SubSeq(h, 1, L(n))
    BY HistoryAtPrefix
  <1>3. \A m, n \in 0 .. N : m < n => L(m) < L(n)
    BY DEF OrderInv
  <1>4. \A n \in 1 .. N : h[L(n)] = ReqEvent(n)
    BY DEF OrderInv
  <1>5. \A k \in DOMAIN h : ~h[k].is_response =>
            \E n \in 1 .. N : h[k] = ReqEvent(n) /\ k = L(n)
    BY DEF OrderInv
  <1>6. \A m, n : ReqEvent(m) = ReqEvent(n) => m = n
    BY DEF ReqEvent
  <1>7. \A n : ReqEvent(n).is_response = FALSE /\ ReqEvent(n).seq = n
    BY DEF ReqEvent
  <1>8. a \in 0 .. N /\ b \in 0 .. N /\ T = SubSeq(SubSeq(h, 1, q), p + 1, q)
    BY <1>2
  <1>9. DOMAIN h = 1 .. Len(h)
    BY <1>1
  <1> HIDE DEF h, N, L
  <1>10. p \in 0 .. Len(h) /\ q \in 0 .. Len(h) /\ p < q
    BY <1>2, <1>3, <1>8
  <1>11. /\ T \in Seq(Event) /\ Len(T) = q - p /\ DOMAIN T = 1 .. (q - p)
         /\ \A i \in 1 .. (q - p) : T[i] = h[p + i]
         /\ SubSeq(h, 1, p) \o T = SubSeq(h, 1, q)
         /\ \A i \in 1 .. (q - p) : SubSeq(h, 1, p) \o SubSeq(T, 1, i)
                                        = SubSeq(h, 1, p + i)
    <2>1. h \in Seq(Event) /\ T = SubSeq(SubSeq(h, 1, q), p + 1, q)
      BY <1>1, <1>8
    <2> HIDE DEF p, q
    <2>2. p \in 0 .. Len(h) /\ q \in 0 .. Len(h) /\ p < q
      BY <1>10
    <2>3. IsSlice(T, h, p, q)
      BY <2>1, <2>2, Slices
    <2> QED BY <2>3 DEF IsSlice
  <1> HIDE DEF p, q
  <1>12. \A i \in DOMAIN T : /\ p + i \in DOMAIN h /\ h[p + i] = T[i]
                              /\ p < p + i /\ p + i <= q
    <2>1. \A i \in 1 .. (q - p) : p + i \in 1 .. Len(h) /\ p < p + i /\ p + i <= q
      BY <1>1, <1>10
    <2>2. DOMAIN T = 1 .. (q - p) /\ \A i \in 1 .. (q - p) : T[i] = h[p + i]
      BY <1>11
    <2> QED BY <1>9, <2>1, <2>2
  <1> USE DEF p, q
  <1>13. \A n \in 0 .. N : (p < L(n) /\ L(n) <= q) <=> n \in (a + 1) .. b
    <2> SUFFICES ASSUME NEW n \in 0 .. N
                 PROVE  (p < L(n) /\ L(n) <= q) <=> n \in (a + 1) .. b
      OBVIOUS
    <2>1. L(n) \in Nat /\ L(a) \in Nat /\ L(b) \in Nat /\ n \in Nat /\ a \in Nat /\ b \in Nat
      BY <1>1, <1>2, <1>8
    <2>2. /\ n < a => L(n) < L(a)
          /\ a < n => L(a) < L(n)
          /\ n < b => L(n) < L(b)
          /\ b < n => L(b) < L(n)
      BY <1>3, <1>8
    <2>3. (n = a => L(n) = L(a)) /\ (n = b => L(n) = L(b))
      OBVIOUS
    <2> QED BY <2>1, <2>2, <2>3
  <1>14. ASSUME NEW i \in DOMAIN T, NEW n, T[i] = ReqEvent(n)
         PROVE  n \in (a + 1) .. b /\ p + i = L(n)
    <2>1. p + i \in DOMAIN h /\ h[p + i] = ReqEvent(n) /\ p < p + i /\ p + i <= q
      BY <1>12, <1>14
    <2>2. PICK m \in 1 .. N : h[p + i] = ReqEvent(m) /\ p + i = L(m)
      BY <1>5, <1>7, <2>1
    <2>3. m = n
      BY <1>6, <2>1, <2>2
    <2>4. n \in 0 .. N
      BY <1>1, <2>3
    <2> QED BY <1>13, <2>1, <2>2, <2>3, <2>4
  <1>15. ASSUME NEW n \in (a + 1) .. b
         PROVE  \E i \in DOMAIN T : T[i] = ReqEvent(n)
    <2>1. n \in 1 .. N /\ n \in 0 .. N
      BY <1>1, <1>8
    <2>2. p < L(n) /\ L(n) <= q /\ L(n) \in Nat /\ p \in Nat /\ q \in Nat
      BY <1>1, <1>2, <1>10, <1>13, <2>1
    <2>3. L(n) - p \in 1 .. (q - p) /\ p + (L(n) - p) = L(n)
      BY <2>2
    <2>4. T[L(n) - p] = ReqEvent(n)
      BY <1>4, <1>11, <2>1, <2>3
    <2> QED BY <1>11, <2>3, <2>4
  <1>16. RequestsIn(T) = (a + 1) .. b
    <2>1. ASSUME NEW i \in DOMAIN T, ~T[i].is_response
          PROVE  T[i].seq \in (a + 1) .. b
      <3>1. p + i \in DOMAIN h /\ h[p + i] = T[i]
        BY <1>12
      <3>2. PICK m \in 1 .. N : T[i] = ReqEvent(m)
        BY <1>5, <2>1, <3>1
      <3> QED BY <1>7, <1>14, <3>2
    <2>2. ASSUME NEW n \in (a + 1) .. b
          PROVE  \E i \in DOMAIN T : ~T[i].is_response /\ T[i].seq = n
      BY <1>7, <1>15
    <2>3. RequestsIn(T) \subseteq (a + 1) .. b
      BY <2>1 DEF RequestsIn
    <2>4. (a + 1) .. b \subseteq RequestsIn(T)
      BY <2>2, Zenon DEF RequestsIn
    <2> QED BY <2>3, <2>4
  <1>17. ResponsesIn(T) \subseteq ResponsesIn(h)
    <2>1. \A i \in DOMAIN T : \E k \in DOMAIN h : h[k] = T[i]
      <3>1. \A i \in DOMAIN T : p + i \in DOMAIN h /\ h[p + i] = T[i]
        BY <1>12
      <3> QED BY <3>1
    <2> QED BY <2>1 DEF ResponsesIn
  <1>18. ASSUME NEW n \in (a + 1) .. b, NEW i \in DOMAIN T, T[i] = ReqEvent(n)
         PROVE  HistoryAt(a) \o SubSeq(T, 1, i) = HistoryAt(n)
    <2>1. p + i = L(n) /\ n \in 0 .. N
      BY <1>1, <1>8, <1>14, <1>18
    <2>2. SubSeq(h, 1, p) \o SubSeq(T, 1, i) = SubSeq(h, 1, p + i)
      BY <1>11
    <2>3. HistoryAt(a) = SubSeq(h, 1, p) /\ HistoryAt(n) = SubSeq(h, 1, L(n))
      BY <1>2, <1>8, <2>1
    <2> QED BY <2>1, <2>2, <2>3
  <1>19. HistoryAt(a) \o T = HistoryAt(b)
    <2>1. HistoryAt(a) = SubSeq(h, 1, p) /\ HistoryAt(b) = SubSeq(h, 1, q)
      BY <1>2, <1>8
    <2> QED BY <1>11, <2>1
  <1> QED BY <1>11, <1>15, <1>16, <1>17, <1>18, <1>19 DEF h, IsTail

\* What the server appends of a replay, when it appends anything and leaves no gap,
\* is the client's history from the last request committed to a later one.
LEMMA UnseenTail ==
    ASSUME TypeOK, HistoryInv, OrderInv, NEW rp \in Replay, GoodReplay(rp),
           Unseen(rp) # << >>, rp.from <= Len(s_history)
    PROVE  \E m \in (committed_upto + 1) .. (next_seq - 1) :
               Unseen(rp) = SubSeq(HistoryAt(m), Len(HistoryAt(committed_upto)) + 1,
                                   Len(HistoryAt(m)))
  <1>1. PICK m \in 0 .. (next_seq - 1) :
            rp.events = SubSeq(HistoryAt(m), rp.from + 1, Len(HistoryAt(m)))
    BY DEF GoodReplay
  <1> DEFINE H == HistoryAt(m)
             c == committed_upto
             have == Len(s_history)
             from == rp.from
             skip == have - from
  <1>2. /\ c \in Nat /\ next_seq \in Nat /\ c \in 0 .. (next_seq - 1)
        /\ s_history = HistoryAt(c) /\ s_history \in Seq(Event)
    BY DEF TypeOK, ServerTypeOK, ClientTypeOK, SeqNo, HistoryInv
  <1>3. H \in Seq(Event)
    BY HistoryAtPrefix DEF HistoryInv
  <1>4. /\ m < c => Len(H) < Len(HistoryAt(c))
        /\ m = c => Len(H) = Len(HistoryAt(c))
    BY <1>2 DEF OrderInv
  <1>5. rp.events = SubSeq(H, from + 1, Len(H))
    BY <1>1
  <1>6. from \in Nat /\ from <= have /\ have = Len(HistoryAt(c))
    BY <1>2 DEF Replay
  <1>7. Unseen(rp) = SubSeq(rp.events, skip + 1, Len(rp.events))
    <2>1. have \in Nat
      BY <1>2
    <2>2. skip = IF have > from THEN have - from ELSE 0
      BY <1>6, <2>1
    <2> QED BY <2>2 DEF Unseen
  <1>8. have \in Nat /\ Len(H) \in Nat
    BY <1>2, <1>3
  <1> HIDE DEF H, have, from, c
  <1>9. from < Len(H)
    <2> SUFFICES ASSUME ~(from < Len(H)) PROVE FALSE
      OBVIOUS
    <2>1. rp.events = << >>
      BY <1>3, <1>5, <1>6, <1>8
    <2>2. Unseen(rp) = SubSeq(<< >>, skip + 1, 0)
      BY <1>7, <2>1
    <2>3. skip \in Nat
      BY <1>6, <1>8
    <2> QED BY <2>2, <2>3
  <1>10. /\ rp.events \in Seq(Event) /\ Len(rp.events) = Len(H) - from
    <2>1. \A i \in (from + 1) .. Len(H) : H[i] \in Event
      BY <1>3, <1>6, <1>8
    <2>2. /\ SubSeq(H, from + 1, Len(H)) \in Seq(Event)
          /\ Len(SubSeq(H, from + 1, Len(H))) =
                 IF from + 1 <= Len(H) THEN Len(H) - (from + 1) + 1 ELSE 0
      BY <1>6, <1>8, <2>1, SubSeqProperties
    <2> QED BY <1>5, <1>6, <1>8, <1>9, <2>2
  <1>11. have < Len(H)
    <2> SUFFICES ASSUME ~(have < Len(H)) PROVE FALSE
      OBVIOUS
    <2>1. skip + 1 > Len(rp.events) /\ skip \in Nat
      BY <1>6, <1>8, <1>10
    <2>2. Unseen(rp) = << >>
      BY <1>7, <1>10, <2>1
    <2> QED BY <2>2
  <1>12. Unseen(rp) = SubSeq(H, have + 1, Len(H))
    <2> DEFINE L == Len(H)
    <2>1. /\ from + 1 \in 1 .. L /\ L \in 1 .. L
          /\ skip + 1 \in 1 .. (L - (from + 1) + 1)
          /\ L - from \in 1 .. (L - (from + 1) + 1)
      BY <1>6, <1>8, <1>9, <1>11
    <2>2. SubSeq(SubSeq(H, from + 1, L), skip + 1, L - from)
              = SubSeq(H, (from + 1) + (skip + 1) - 1, (from + 1) + (L - from) - 1)
      <3> DEFINE i == from + 1
                 j == skip + 1
                 k == L - from
      <3>1. /\ i \in 1 .. Len(H) /\ Len(H) \in 1 .. Len(H)
            /\ j \in 1 .. (Len(H) - i + 1) /\ k \in 1 .. (Len(H) - i + 1)
        BY <2>1
      <3> HIDE DEF i, j, k
      <3>2. SubSeq(SubSeq(H, i, Len(H)), j, k) = SubSeq(H, i + j - 1, i + k - 1)
        BY <1>3, <3>1, SubSeqOfSubSeq
      <3> QED BY <3>2 DEF i, j, k
    <2>3. (from + 1) + (skip + 1) - 1 = have + 1 /\ (from + 1) + (L - from) - 1 = L
      BY <1>6, <1>8
    <2> QED BY <1>5, <1>7, <1>10, <2>2, <2>3
  <1>13. m \in (c + 1) .. (next_seq - 1)
    <2>1. ~(m < c) /\ m # c
      BY <1>4, <1>6, <1>8, <1>11 DEF c, H
    <2> QED BY <1>2, <2>1 DEF c
  <1> QED BY <1>6, <1>12, <1>13 DEF H, c, have

-----------------------------------------------------------------------------
(* What ingest_replay does.                                                *)

\* A bounded set of ids that is not empty has a greatest member.
LEMMA GreatestExists ==
    ASSUME NEW B \in Nat, NEW S, S \subseteq 0 .. B, S # {}
    PROVE  \E m \in S : \A n \in S : n <= m
  <1> DEFINE R == OpToRel(<, Nat)
             T == {B - n : n \in S}
  <1>1. IsWellFoundedOn(R, Nat)
    BY NatLessThanWellFounded
  <1> HIDE DEF R
  <1>2. T \subseteq Nat /\ T # {}
    <2>1. \A n \in S : B - n \in Nat
      OBVIOUS
    <2> QED BY <2>1
  <1>3. \E x \in T : \A y \in T : ~(<< y, x >> \in R)
    <2> HIDE DEF T
    <2> QED BY <1>1, <1>2, WFMin
  <1>4. PICK x \in T : \A y \in T : ~(<< y, x >> \in R)
    BY <1>3
  <1>5. PICK m \in S : x = B - m
    BY <1>4
  <1>6. \A y \in T : ~(y < x)
    <2>1. \A y \in T : y \in Nat /\ x \in Nat
      BY <1>2
    <2> QED BY <1>4, <2>1, Zenon DEF OpToRel, R
  <1>7. ASSUME NEW n \in S
        PROVE  n <= m
    <2>1. B - n \in T
      OBVIOUS
    <2>2. ~(B - n < B - m)
      BY <1>5, <1>6, <2>1
    <2> HIDE DEF T
    <2>3. n \in 0 .. B /\ m \in 0 .. B
      OBVIOUS
    <2> QED BY <2>2, <2>3
  <1> QED BY <1>7

\* A request that stands in some events has a last place there.
LEMMA LastAtExists ==
    ASSUME NEW evs \in Seq(Event), NEW n, \E i \in DOMAIN evs : evs[i] = ReqEvent(n)
    PROVE  LastAt(evs, n) \in DOMAIN evs /\ evs[LastAt(evs, n)] = ReqEvent(n)
  <1> DEFINE S == {i \in DOMAIN evs : evs[i] = ReqEvent(n)}
  <1>1. Len(evs) \in Nat /\ S \subseteq 0 .. Len(evs) /\ S # {}
    OBVIOUS
  <1>2. \E m \in S : \A k \in S : k <= m
    <2> HIDE DEF S
    <2> QED BY <1>1, GreatestExists
  <1> QED BY <1>2 DEF LastAt

\* The replay commits the requests after committed_upto and up to m: evs, which it
\* appends, brings the server's history to the client's at m.
CommitsUpto(evs, m) ==
    /\ evs \in Seq(Event)
    /\ RequestsIn(evs) = (committed_upto + 1) .. m
    /\ ResponsesIn(evs) \subseteq ResponsesIn(c_history)
    /\ s_history \o evs = HistoryAt(m)
    /\ \A n \in RequestsIn(evs) :
           s_history \o SubSeq(evs, 1, LastAt(evs, n))
               = c_req_hash[n]

\* A replay that leaves no gap commits a range of requests of the client, or none.
LEMMA UnseenCommits ==
    ASSUME TypeOK, HistoryInv, OrderInv, NEW rp \in Replay, GoodReplay(rp),
           LeavesNoGap(rp)
    PROVE  \E m \in committed_upto .. (next_seq - 1) : CommitsUpto(Unseen(rp), m)
  <1>1. /\ committed_upto \in Nat /\ next_seq \in Nat
        /\ committed_upto \in 0 .. (next_seq - 1)
        /\ s_history = HistoryAt(committed_upto) /\ s_history \in Seq(Event)
    BY DEF TypeOK, ServerTypeOK, ClientTypeOK, SeqNo, HistoryInv
  <1>2. CASE Unseen(rp) = << >>
    <2> DEFINE e == << >>
    <2>1. RequestsIn(e) = {} /\ ResponsesIn(e) = {} /\ e \in Seq(Event)
      BY DEF RequestsIn, ResponsesIn
    <2>2. s_history \o e = s_history
      BY <1>1, ConcatEmptySeq
    <2>3. (committed_upto + 1) .. committed_upto = {}
      BY <1>1
    <2>4. CommitsUpto(e, committed_upto)
      BY <1>1, <2>1, <2>2, <2>3 DEF CommitsUpto
    <2>5. committed_upto \in committed_upto .. (next_seq - 1)
      BY <1>1
    <2> QED BY <1>2, <2>4, <2>5
  <1>3. CASE Unseen(rp) # << >>
    <2>1. PICK m \in (committed_upto + 1) .. (next_seq - 1) :
              Unseen(rp) = SubSeq(HistoryAt(m), Len(HistoryAt(committed_upto)) + 1,
                                  Len(HistoryAt(m)))
      BY <1>3, UnseenTail DEF LeavesNoGap
    <2> DEFINE T == Unseen(rp)
               c == committed_upto
    <2>2. m \in 0 .. (next_seq - 1) /\ c < m /\ m \in c .. (next_seq - 1)
      BY <1>1
    <2>3. /\ T \in Seq(Event)
          /\ HistoryAt(c) \o T = HistoryAt(m)
          /\ RequestsIn(T) = (c + 1) .. m
          /\ ResponsesIn(T) \subseteq ResponsesIn(c_history)
          /\ \A n \in (c + 1) .. m : \E i \in DOMAIN T : T[i] = ReqEvent(n)
          /\ \A n \in (c + 1) .. m : \A i \in DOMAIN T :
                 T[i] = ReqEvent(n) => HistoryAt(c) \o SubSeq(T, 1, i) = HistoryAt(n)
      <3>1. ClientHistoryInv
        BY DEF HistoryInv
      <3>2. T = SubSeq(HistoryAt(m), Len(HistoryAt(c)) + 1, Len(HistoryAt(m)))
        BY <2>1
      <3> HIDE DEF T
      <3>3. IsTail(T, c, m)
        BY <1>1, <2>2, <3>1, <3>2, HistoryTail
      <3> QED BY <3>3 DEF IsTail
    <2> HIDE DEF T
    <2>4. ASSUME NEW n \in RequestsIn(T)
          PROVE  s_history \o SubSeq(T, 1, LastAt(T, n))
                     = c_req_hash[n]
      <3> DEFINE i == LastAt(T, n)
      <3>1. n \in (c + 1) .. m
        BY <2>3
      <3>2. i \in DOMAIN T /\ T[i] = ReqEvent(n)
        BY <2>3, <3>1, LastAtExists
      <3> HIDE DEF i
      <3>3. HistoryAt(c) \o SubSeq(T, 1, i) = HistoryAt(n)
        BY <2>3, <3>1, <3>2
      <3>4. HistoryAt(n) = c_req_hash[n]
        BY <1>1, <3>1 DEF HistoryAt
      <3> QED BY <1>1, <3>3, <3>4 DEF i
    <2>5. CommitsUpto(T, m)
      BY <1>1, <2>3, <2>4 DEF CommitsUpto
    <2> QED BY <2>2, <2>5 DEF T
  <1> QED BY <1>2, <1>3

\* The highest id among those committed is the new committed_upto.
LEMMA FrontierReached ==
    ASSUME committed_upto \in Nat, NEW m \in Nat, committed_upto <= m, NEW evs,
           RequestsIn(evs) = (committed_upto + 1) .. m
    PROVE  Frontier(evs) = m
  <1> DEFINE S == RequestsIn(evs) \cup {committed_upto}
  <1>1. S = committed_upto .. m
    OBVIOUS
  <1>2. m \in S /\ \A n \in S : n <= m
    BY <1>1
  <1>3. \A k \in S : (\A n \in S : n <= k) => k = m
    BY <1>1, <1>2
  <1>4. Frontier(evs) \in S /\ \A n \in S : n <= Frontier(evs)
    <2> HIDE DEF S
    <2>1. Frontier(evs) = CHOOSE k \in S : \A n \in S : n <= k
      BY DEF Frontier, S
    <2> QED BY <1>2, <2>1
  <1> QED BY <1>3, <1>4

\* A replayed request that is not left unanswered has its response in the replay.
LEMMA AnsweredInReplay ==
    ASSUME NEW evs \in Seq(Event), NEW n \in RequestsIn(evs), ~LeftUnanswered(evs, n)
    PROVE  n \in ResponsesIn(evs)
  <1>1. PICK i \in DOMAIN evs : ~evs[i].is_response /\ evs[i].seq = n
    BY DEF RequestsIn
  <1>2. evs[i] \in Event
    BY <1>1
  <1>3. evs[i] = ReqEvent(n)
    BY <1>1, <1>2 DEF Event, ReqEvent
  <1>4. PICK j \in DOMAIN evs : evs[j] = RspEvent(n)
    BY <1>1, <1>3 DEF LeftUnanswered
  <1>5. evs[j].is_response /\ evs[j].seq = n
    BY <1>4 DEF RspEvent
  <1> QED BY <1>5 DEF ResponsesIn

\* The events of a replay that are appended are events of the replay.
LEMMA UnseenType ==
    ASSUME s_history \in Seq(Event), NEW rp \in Replay
    PROVE  /\ Unseen(rp) \in Seq(Event)
           /\ RequestsIn(Unseen(rp)) \subseteq RequestsIn(rp.events)
           /\ \A n \in RequestsIn(Unseen(rp)) :
                  \E i \in DOMAIN Unseen(rp) : Unseen(rp)[i] = ReqEvent(n)
  <1> DEFINE have == Len(s_history)
             skip == IF have > rp.from THEN have - rp.from ELSE 0
             e == rp.events
             T == SubSeq(e, skip + 1, Len(e))
  <1>1. /\ have \in Nat /\ rp.from \in Nat /\ e \in Seq(Event) /\ Len(e) \in Nat
        /\ Unseen(rp) = T
    BY DEF Replay, Unseen
  <1>2. skip \in Nat
    BY <1>1
  <1> HIDE DEF skip, e, have
  <1>3. \A i \in (skip + 1) .. Len(e) : e[i] \in Event
    BY <1>1, <1>2
  <1>4. /\ T \in Seq(Event)
        /\ Len(T) = IF skip + 1 <= Len(e) THEN Len(e) - (skip + 1) + 1 ELSE 0
        /\ \A i \in 1 .. (Len(e) - (skip + 1) + 1) : T[i] = e[(skip + 1) + i - 1]
    BY <1>1, <1>2, <1>3, SubSeqProperties
  <1> HIDE DEF T
  <1>5. \A i \in DOMAIN T : T[i] \in Event /\ \E k \in DOMAIN e : e[k] = T[i]
    <2> SUFFICES ASSUME NEW i \in DOMAIN T
                 PROVE  T[i] \in Event /\ \E k \in DOMAIN e : e[k] = T[i]
      OBVIOUS
    <2>1. i \in 1 .. Len(T) /\ Len(T) \in Nat
      BY <1>4
    <2>2. i \in 1 .. (Len(e) - (skip + 1) + 1) /\ (skip + 1) + i - 1 \in 1 .. Len(e)
      BY <1>1, <1>2, <1>4, <2>1
    <2>3. T[i] = e[(skip + 1) + i - 1] /\ (skip + 1) + i - 1 \in DOMAIN e
      BY <1>1, <1>4, <2>2
    <2> QED BY <1>4, <2>3
  <1>6. RequestsIn(T) \subseteq RequestsIn(e)
    BY <1>5 DEF RequestsIn
  <1>7. ASSUME NEW n \in RequestsIn(T)
        PROVE  \E i \in DOMAIN T : T[i] = ReqEvent(n)
    <2>1. PICK i \in DOMAIN T : ~T[i].is_response /\ T[i].seq = n
      BY DEF RequestsIn
    <2> QED BY <1>5, <2>1 DEF Event, ReqEvent
  <1> QED BY <1>1, <1>4, <1>6, <1>7 DEF e

-----------------------------------------------------------------------------
(* Replays read short (ReadBody, from_json_replay).                        *)

\* The first k events of a sequence, and one more.
LEMMA FirstEvents ==
    ASSUME NEW s \in Seq(Event), NEW k \in 0 .. Len(s)
    PROVE  /\ SubSeq(s, 1, k) \in Seq(Event)
           /\ Len(SubSeq(s, 1, k)) = k /\ DOMAIN SubSeq(s, 1, k) = 1 .. k
           /\ \A i \in 1 .. k : SubSeq(s, 1, k)[i] = s[i]
  <1>1. Len(s) \in Nat /\ k \in Nat /\ \A i \in 1 .. k : s[i] \in Event
    OBVIOUS
  <1>2. /\ SubSeq(s, 1, k) \in Seq(Event)
        /\ Len(SubSeq(s, 1, k)) = IF 1 <= k THEN k - 1 + 1 ELSE 0
        /\ \A i \in 1 .. (k - 1 + 1) : SubSeq(s, 1, k)[i] = s[1 + i - 1]
    BY <1>1, SubSeqProperties
  <1> QED BY <1>1, <1>2

\* What is read of a replay is a replay, and names no request beyond those it held.
LEMMA ReadShortType ==
    ASSUME NEW rp \in Replay, NEW B \in Nat, RequestsIn(rp.events) \subseteq 0 .. B,
           NEW got \in {rp} \cup ReadShort(rp)
    PROVE  got \in Replay /\ RequestsIn(got.events) \subseteq 0 .. B
  <1> DEFINE evs == rp.events
  <1>1. rp.from \in Nat /\ evs \in Seq(Event) /\ Len(evs) \in Nat
    BY DEF Replay
  <1> HIDE DEF evs
  <1>2. CASE got = rp
    BY <1>2
  <1>3. CASE got = [from |-> rp.from, events |-> << >>]
    <2>1. << >> \in Seq(Event) /\ RequestsIn(<< >>) = {}
      BY DEF RequestsIn
    <2>2. got.events = << >>
      BY <1>3
    <2> QED BY <1>1, <1>3, <2>1, <2>2 DEF Replay
  <1>4. ASSUME NEW k \in DOMAIN evs, NEW e \in Damaged(evs[k]),
               got = [from |-> rp.from, events |-> SubSeq(evs, 1, k - 1) \o << e >>]
        PROVE  got \in Replay /\ RequestsIn(got.events) \subseteq 0 .. B
    <2> DEFINE s == SubSeq(evs, 1, k - 1)
               one == << e >>
               x == evs[k]
    <2>1. k - 1 \in 0 .. Len(evs) /\ x \in Event /\ k - 1 \in Nat
      BY <1>1
    <2>2. /\ s \in Seq(Event) /\ DOMAIN s = 1 .. (k - 1)
          /\ \A i \in 1 .. (k - 1) : s[i] = evs[i]
      BY <1>1, <2>1, FirstEvents
    <2>3. e \in Event /\ (~e.is_response => e.seq \in 0 .. B)
      <3>1. CASE e = ReqEvent(0)
        BY <3>1 DEF ReqEvent, Event
      <3>2. ASSUME NEW n \in 0 .. x.seq, e = [is_response |-> x.is_response, seq |-> n]
            PROVE  e \in Event /\ (~e.is_response => e.seq \in 0 .. B)
        <4>1. x.seq \in Nat /\ x.is_response \in BOOLEAN /\ n \in Nat
          BY <2>1 DEF Event
        <4>2. ~x.is_response => x.seq \in 0 .. B
          BY DEF RequestsIn, evs
        <4> HIDE DEF x
        <4>3. e \in Event /\ e.is_response = x.is_response /\ e.seq = n
          BY <3>2, <4>1 DEF Event
        <4> QED BY <4>1, <4>2, <4>3
      <3> QED BY <1>4, <3>1, <3>2 DEF Damaged
    <2>4. /\ one \in Seq(Event)
          /\ RequestsIn(one) \subseteq 0 .. B
      BY <2>3 DEF RequestsIn
    <2>5. RequestsIn(s) \subseteq RequestsIn(evs)
      <3>1. \A i \in DOMAIN s : s[i] = evs[i] /\ i \in DOMAIN evs
        BY <1>1, <2>1, <2>2
      <3> HIDE DEF s
      <3> QED BY <3>1 DEF RequestsIn
    <2> HIDE DEF s, one
    <2>6. /\ s \o one \in Seq(Event)
          /\ RequestsIn(s \o one) = RequestsIn(s) \cup RequestsIn(one)
      BY <2>2, <2>4, EventsConcat
    <2>7. got = [from |-> rp.from, events |-> s \o one]
      BY <1>4 DEF s, one
    <2>8. got.events = s \o one /\ got \in Replay
      BY <1>1, <2>6, <2>7 DEF Replay
    <2> QED BY <2>4, <2>5, <2>6, <2>8 DEF evs
  <1> QED BY <1>2, <1>3, <1>4 DEF ReadShort, evs

\* A part that ends behind a request is the rest of what was the client's history
\* when it froze that request.
LEMMA CleanCutGood ==
    ASSUME TypeOK, ClientHistoryInv, OrderInv, NEW rp \in Replay, GoodReplay(rp),
           NEW got \in CleanCuts(rp)
    PROVE  GoodReplay(got)
  <1> DEFINE evs == rp.events
             f == rp.from
             h == c_history
  <1>1. /\ f \in Nat /\ evs \in Seq(Event) /\ Len(evs) \in Nat
        /\ next_seq \in Nat \ {0} /\ h \in Seq(Event) /\ Len(h) \in Nat
    BY DEF Replay, TypeOK, ClientTypeOK, SeqNo
  <1>2. PICK m \in 0 .. (next_seq - 1) :
            evs = SubSeq(HistoryAt(m), f + 1, Len(HistoryAt(m)))
    BY DEF GoodReplay
  <1> HIDE DEF evs, f, h
  <1>3. CASE got = rp
    BY <1>3
  <1>4. CASE got = [from |-> f, events |-> SubSeq(evs, 1, 0)]
    <2>1. HistoryAt(0) = << >> /\ 0 \in 0 .. (next_seq - 1)
      BY <1>1 DEF HistoryAt
    <2>2. << >> \in Seq(Event) /\ Len(<< >>) = 0
      OBVIOUS
    <2>3. SubSeq(<< >>, f + 1, Len(<< >>)) = << >> /\ SubSeq(evs, 1, 0) = << >>
      BY <1>1, SubSeqEmpty
    <2>4. got.events = << >> /\ got.from = f
      BY <1>4, <2>3
    <2> QED BY <2>1, <2>3, <2>4 DEF GoodReplay
  <1>5. ASSUME NEW k \in 1 .. Len(evs), ~evs[k].is_response,
               got = [from |-> f, events |-> SubSeq(evs, 1, k)]
        PROVE  GoodReplay(got)
    <2> DEFINE L == Len(HistoryAt(m))
    <2>1. /\ HistoryAt(m) \in Seq(Event) /\ L \in 0 .. Len(h)
          /\ HistoryAt(m) = SubSeq(h, 1, L)
      BY HistoryAtPrefix DEF h
    <2>2. f < L
      <3> SUFFICES ASSUME ~(f < L) PROVE FALSE
        OBVIOUS
      <3>1. evs = << >>
        BY <1>1, <1>2, <2>1, SubSeqEmpty
      <3> QED BY <1>1, <3>1
    <2>3. IsSlice(evs, h, f, L)
      <3>1. evs = SubSeq(SubSeq(h, 1, L), f + 1, L)
        BY <1>2, <2>1
      <3>2. f \in 0 .. Len(h)
        BY <1>1, <2>1, <2>2
      <3> HIDE DEF L
      <3> QED BY <1>1, <2>1, <2>2, <3>1, <3>2, Slices
    <2> HIDE DEF L
    <2>4. k \in 1 .. (L - f) /\ evs[k] = h[f + k] /\ f + k \in DOMAIN h
      BY <1>1, <2>1, <2>2, <2>3 DEF IsSlice
    <2>5. PICK n \in 1 .. (next_seq - 1) : f + k = Len(HistoryAt(n))
      BY <1>5, <2>4 DEF OrderInv, h
    <2>6. n \in 0 .. (next_seq - 1) /\ HistoryAt(n) = SubSeq(h, 1, f + k)
      <3>1. n \in 0 .. (next_seq - 1)
        BY <1>1
      <3> QED BY <2>5, <3>1, HistoryAtPrefix DEF h
    <2>7. SubSeq(evs, 1, k) = SubSeq(h, f + 1, f + k)
      <3>1. /\ 1 \in 1 .. Len(h) /\ L \in 1 .. Len(h)
            /\ f + 1 \in 1 .. (L - 1 + 1) /\ L \in 1 .. (L - 1 + 1)
            /\ 1 + (f + 1) - 1 = f + 1 /\ 1 + L - 1 = L
        BY <1>1, <2>1, <2>2
      <3>2. evs = SubSeq(h, f + 1, L)
        BY <1>1, <1>2, <2>1, <3>1, SubSeqOfSubSeq DEF L
      <3>3. /\ f + 1 \in 1 .. Len(h)
            /\ 1 \in 1 .. (L - (f + 1) + 1) /\ k \in 1 .. (L - (f + 1) + 1)
            /\ (f + 1) + 1 - 1 = f + 1 /\ (f + 1) + k - 1 = f + k
        BY <1>1, <2>1, <2>2, <2>4
      <3> QED BY <1>1, <3>1, <3>2, <3>3, SubSeqOfSubSeq
    <2>8. SubSeq(SubSeq(h, 1, f + k), f + 1, f + k) = SubSeq(h, f + 1, f + k)
      <3>1. /\ 1 \in 1 .. Len(h) /\ f + k \in 1 .. Len(h)
            /\ f + 1 \in 1 .. (f + k - 1 + 1) /\ f + k \in 1 .. (f + k - 1 + 1)
            /\ 1 + (f + 1) - 1 = f + 1 /\ 1 + (f + k) - 1 = f + k
        BY <1>1, <2>1, <2>2, <2>4
      <3> QED BY <1>1, <3>1, SubSeqOfSubSeq
    <2>9. got.events = SubSeq(HistoryAt(n), got.from + 1, Len(HistoryAt(n)))
      BY <1>5, <2>5, <2>6, <2>7, <2>8
    <2> QED BY <2>6, <2>9 DEF GoodReplay
  <1> QED BY <1>1, <1>3, <1>4, <1>5 DEF CleanCuts, evs, f

\* A part of a replay that leaves no gap leaves none.
LEMMA CleanCutNoGap ==
    ASSUME s_history \in Seq(Event), NEW rp \in Replay, LeavesNoGap(rp),
           NEW got \in CleanCuts(rp)
    PROVE  LeavesNoGap(got)
  <1> DEFINE skip == IF Len(s_history) > rp.from THEN Len(s_history) - rp.from ELSE 0
             evs == rp.events
  <1>1. /\ evs \in Seq(Event) /\ rp.from \in Nat /\ Len(evs) \in Nat
        /\ Len(s_history) \in Nat /\ skip \in Nat
    BY DEF Replay
  <1>2. CASE got = rp
    BY <1>2
  <1>3. ASSUME NEW k \in 0 .. Len(evs), got = [from |-> rp.from, events |-> SubSeq(evs, 1, k)]
        PROVE  LeavesNoGap(got)
    <2>1. got.from = rp.from /\ got.events = SubSeq(evs, 1, k)
      BY <1>3
    <2>2. CASE rp.from <= Len(s_history)
      BY <2>1, <2>2 DEF LeavesNoGap
    <2>3. CASE ~(rp.from <= Len(s_history))
      <3>1. skip = 0 /\ Unseen(rp) = SubSeq(evs, 1, Len(evs))
        BY <1>1, <2>3 DEF Unseen
      <3>2. evs = << >>
        <4>1. SubSeq(evs, 1, Len(evs)) = << >>
          BY <2>3, <3>1 DEF LeavesNoGap
        <4>2. Len(SubSeq(evs, 1, Len(evs))) = Len(evs)
          BY <1>1, FirstEvents
        <4> QED BY <1>1, <4>1, <4>2
      <3>3. k = 0 /\ SubSeq(evs, 1, k) = << >>
        BY <1>1, <3>2, SubSeqEmpty
      <3>4. Unseen(got) = SubSeq(got.events, 1, Len(got.events))
        BY <1>1, <2>1, <2>3 DEF Unseen
      <3>5. Unseen(got) = << >>
        <4>1. got.events = << >> /\ Len(<< >>) = 0 /\ << >> \in Seq(Event)
          BY <2>1, <3>3
        <4>2. SubSeq(<< >>, 1, 0) = << >>
          BY SubSeqEmpty
        <4> QED BY <3>4, <4>1, <4>2
      <3> QED BY <3>5 DEF LeavesNoGap
    <2> QED BY <2>2, <2>3
  <1> QED BY <1>1, <1>2, <1>3 DEF CleanCuts

\* ingest_replay keeps every variable in its type, whatever the replay.
LEMMA IngestType ==
    ASSUME TypeOK, NEW rp \in Replay, NEW B \in Nat,
           RequestsIn(rp.events) \subseteq 0 .. B,
           ingest_replay(rp), UNCHANGED << netVars, clientVars >>
    PROVE  TypeOK'
  <1> DEFINE evs == Unseen(rp)
             At(n) == LastAt(evs, n)
             S == RequestsIn(evs) \cup {committed_upto}
  <1>1. NetTypeOK' /\ ClientTypeOK'
    BY DEF TypeOK, NetTypeOK, ClientTypeOK, netVars, clientVars
  <1>2. /\ evs \in Seq(Event) /\ RequestsIn(evs) \subseteq 0 .. B
        /\ \A n \in RequestsIn(evs) : \E i \in DOMAIN evs : evs[i] = ReqEvent(n)
    BY UnseenType DEF TypeOK, ServerTypeOK
  <1>3. /\ s_history' = s_history \o evs
        /\ s_req_hash' = [n \in DOMAIN s_req_hash \cup RequestsIn(evs) |->
                              IF n \in RequestsIn(evs)
                              THEN s_history \o SubSeq(evs, 1, At(n))
                              ELSE s_req_hash[n]]
        /\ committed_upto' = Frontier(evs)
        /\ awaiting' = (awaiting \ ResponsesIn(evs))
                           \cup {n \in RequestsIn(evs) : LeftUnanswered(evs, n)}
        /\ resp_buffer' = Erase(resp_buffer, ResponsesIn(evs))
        /\ UNCHANGED << pending_reqs, app_calls, s_mismatch, draining, out, app_runs >>
    BY DEF ingest_replay
  <1> HIDE DEF evs
  <1>4. RequestsIn(evs) \subseteq Nat
    <2>1. \A i \in DOMAIN evs : evs[i] \in Event
      BY <1>2
    <2>2. \A e \in Event : e.seq \in Nat
      BY DEF Event
    <2> QED BY <2>1, <2>2 DEF RequestsIn
  <1>5. committed_upto' \in Nat
    <2>1. committed_upto \in Nat
      BY DEF TypeOK, ServerTypeOK
    <2>2. PICK C \in Nat : S \subseteq 0 .. C
      <3>1. CASE B < committed_upto
        BY <1>2, <2>1, <3>1
      <3>2. CASE ~(B < committed_upto)
        BY <1>2, <2>1, <3>2
      <3> QED BY <3>1, <3>2
    <2>3. \E m \in S : \A n \in S : n <= m
      <3>1. S # {}
        OBVIOUS
      <3> HIDE DEF S
      <3> QED BY <2>2, <3>1, GreatestExists
    <2>4. Frontier(evs) \in S
      BY <2>3 DEF Frontier
    <2> QED BY <1>3, <2>2, <2>4
  <1>6. \A n \in RequestsIn(evs) : s_history \o SubSeq(evs, 1, At(n)) \in Seq(Event)
    <2> SUFFICES ASSUME NEW n \in RequestsIn(evs)
                 PROVE  s_history \o SubSeq(evs, 1, At(n)) \in Seq(Event)
      OBVIOUS
    <2>1. At(n) \in DOMAIN evs
      BY <1>2, LastAtExists
    <2> HIDE DEF At
    <2>2. At(n) \in 1 .. Len(evs) /\ Len(evs) \in Nat
      BY <1>2, <2>1
    <2>3. SubSeq(evs, 1, At(n)) \in Seq(Event)
      BY <1>2, <2>2
    <2>4. s_history \in Seq(Event)
      BY DEF TypeOK, ServerTypeOK
    <2> QED BY <2>3, <2>4
  <1>7. /\ DOMAIN s_req_hash' \subseteq Nat
        /\ \A n \in DOMAIN s_req_hash' : s_req_hash'[n] \in Hash
    <2>1. /\ DOMAIN s_req_hash \subseteq Nat
          /\ \A n \in DOMAIN s_req_hash : s_req_hash[n] \in Hash
      BY DEF TypeOK, ServerTypeOK
    <2> HIDE DEF At
    <2> QED BY <1>3, <1>4, <1>6, <2>1 DEF Hash
  <1>8. s_history' \in Seq(Event)
    BY <1>2, <1>3 DEF TypeOK, ServerTypeOK
  <1>9. awaiting' \subseteq Nat
    BY <1>3, <1>4 DEF TypeOK, ServerTypeOK
  <1>10. /\ DOMAIN resp_buffer' \subseteq SeqNo
         /\ \A n \in DOMAIN resp_buffer' : resp_buffer'[n] \in Nat
    BY <1>3 DEF TypeOK, ServerTypeOK, Erase
  <1>11. ServerTypeOK'
    BY <1>3, <1>5, <1>7, <1>8, <1>9, <1>10 DEF TypeOK, ServerTypeOK
  <1> QED BY <1>1, <1>11 DEF TypeOK

\* A replay that leaves no gap keeps the two histories in agreement: it commits what
\* the client recorded, under the hashes that the client recorded.
LEMMA IngestHistory ==
    ASSUME TypeOK, HistoryInv, OrderInv, NEW rp \in Replay, GoodReplay(rp),
           LeavesNoGap(rp), ingest_replay(rp), UNCHANGED << netVars, clientVars >>
    PROVE  HistoryInv'
  <1> DEFINE evs == Unseen(rp)
             At(n) == LastAt(evs, n)
  <1>1. PICK m \in committed_upto .. (next_seq - 1) : CommitsUpto(evs, m)
    BY UnseenCommits
  <1>2. /\ committed_upto \in Nat /\ next_seq \in Nat /\ m \in Nat
        /\ committed_upto <= m /\ m < next_seq
    BY DEF TypeOK, ServerTypeOK, ClientTypeOK, SeqNo
  <1>3. /\ s_history' = s_history \o evs
        /\ s_req_hash' = [n \in DOMAIN s_req_hash \cup RequestsIn(evs) |->
                              IF n \in RequestsIn(evs)
                              THEN s_history \o SubSeq(evs, 1, At(n))
                              ELSE s_req_hash[n]]
        /\ committed_upto' = Frontier(evs)
        /\ UNCHANGED << pending_reqs, s_mismatch, out >>
    BY DEF ingest_replay
  <1>4. UNCHANGED << next_seq, c_req_hash, c_history, c_mismatch, inflight, c2s, s2c >>
    BY DEF netVars, clientVars
  <1> HIDE DEF evs
  <1>5. /\ RequestsIn(evs) = (committed_upto + 1) .. m
        /\ s_history \o evs = HistoryAt(m)
        /\ \A n \in RequestsIn(evs) :
               s_history \o SubSeq(evs, 1, At(n)) = c_req_hash[n]
    BY <1>1 DEF CommitsUpto
  <1> HIDE DEF At
  <1>6. committed_upto' = m
    BY <1>2, <1>3, <1>5, FrontierReached
  <1>7. /\ ClientHistoryInv'
        /\ \A n : HistoryAt(n)' = HistoryAt(n)
        /\ \A req : Frozen(req) => Frozen(req)'
    BY <1>4, ClientHistoryKept
  <1>8. AllRequests' = AllRequests /\ AllResponses' = AllResponses
    BY <1>3, <1>4 DEF AllRequests, AllResponses
  <1>9. (s_history = HistoryAt(committed_upto))'
    <2>1. s_history' = HistoryAt(m)'
      BY <1>3, <1>5, <1>7
    <2> QED BY <1>4, <1>6, <2>1 DEF HistoryAt
  <1>10. \A n \in DOMAIN s_req_hash' :
             n \in 1 .. committed_upto' /\ s_req_hash'[n] = c_req_hash'[n]
    <2> SUFFICES ASSUME NEW n \in DOMAIN s_req_hash'
                 PROVE  n \in 1 .. m /\ s_req_hash'[n] = c_req_hash[n]
      BY <1>4, <1>6
    <2>1. CASE n \in RequestsIn(evs)
      <3>1. n \in 1 .. m
        BY <1>2, <1>5, <2>1
      <3> QED BY <1>3, <1>5, <2>1, <3>1
    <2>2. CASE n \notin RequestsIn(evs)
      <3>1. n \in DOMAIN s_req_hash /\ s_req_hash'[n] = s_req_hash[n]
        BY <1>3, <2>2
      <3>2. n \in 1 .. committed_upto /\ s_req_hash[n] = c_req_hash[n]
        BY <3>1 DEF HistoryInv, ServerHashInv
      <3> QED BY <1>2, <3>1, <3>2
    <2> QED BY <2>1, <2>2
  <1>11. ServerHashInv'
    BY <1>4, <1>8, <1>10 DEF HistoryInv, ServerHashInv
  <1>12. (committed_upto < next_seq)'
    BY <1>2, <1>4, <1>6
  <1>13. NoMismatch'
    BY <1>3, <1>4 DEF HistoryInv, NoMismatch
  <1> QED BY <1>7, <1>8, <1>9, <1>11, <1>12, <1>13 DEF HistoryInv

\* Whatever the replay marks as awaiting, it has hashed.
LEMMA IngestHashed ==
    ASSUME HashedInv, NEW rp, ingest_replay(rp)
    PROVE  HashedInv'
  BY DEF HashedInv, ingest_replay, Erase

\* A replay leaves what the client has received, and the copies of its requests.
LEMMA IngestReceipts ==
    ASSUME ReceiptsInv, NEW rp, ingest_replay(rp), UNCHANGED << netVars, clientVars >>
    PROVE  ReceiptsInv'
  BY DEF ReceiptsInv, AcksReceived, AllRequests, ingest_replay, netVars, clientVars

\* The requests that a replay marks as awaiting are new to this server.
LEMMA IngestOnce ==
    ASSUME TypeOK, HistoryInv, OrderInv, OnceInv, NEW rp \in Replay, GoodReplay(rp),
           LeavesNoGap(rp), ingest_replay(rp)
    PROVE  OnceInv'
  <1> DEFINE evs == Unseen(rp)
  <1>1. PICK m \in committed_upto .. (next_seq - 1) : CommitsUpto(evs, m)
    BY UnseenCommits
  <1>2. committed_upto \in Nat /\ next_seq \in Nat /\ m \in Nat /\ committed_upto <= m
    BY DEF TypeOK, ServerTypeOK, ClientTypeOK, SeqNo
  <1>3. /\ committed_upto' = Frontier(evs)
        /\ awaiting' = (awaiting \ ResponsesIn(evs))
                           \cup {n \in RequestsIn(evs) : LeftUnanswered(evs, n)}
        /\ app_calls' = app_calls
    BY DEF ingest_replay
  <1> HIDE DEF evs
  <1>4. RequestsIn(evs) = (committed_upto + 1) .. m
    BY <1>1 DEF CommitsUpto
  <1>5. committed_upto' = m
    BY <1>2, <1>3, <1>4, FrontierReached
  <1>6. awaiting' \subseteq awaiting \cup ((committed_upto + 1) .. m)
    BY <1>3, <1>4
  <1>7. /\ awaiting \cup DOMAIN app_calls \subseteq 1 .. committed_upto
        /\ awaiting \cap DOMAIN app_calls = {}
    BY DEF OnceInv
  <1>8. \A n : /\ n \in (committed_upto + 1) .. m => n \in 1 .. m /\ n \notin 1 .. committed_upto
               /\ n \in 1 .. committed_upto => n \in 1 .. m
    BY <1>2
  <1>9. awaiting' \cup DOMAIN app_calls \subseteq 1 .. m /\ awaiting' \cap DOMAIN app_calls = {}
    BY <1>6, <1>7, <1>8
  <1> QED BY <1>3, <1>5, <1>9 DEF OnceInv

\* A response that a replay drops is one the client has recorded; a request that a
\* replay commits is awaited, unless the client has recorded its response.
LEMMA IngestAnswerable ==
    ASSUME TypeOK, HistoryInv, OrderInv, ReceiptsInv, NEW lost, AnswerableInv(lost),
           NEW rp \in Replay, GoodReplay(rp), LeavesNoGap(rp), ingest_replay(rp),
           UNCHANGED << netVars, clientVars >>
    PROVE  AnswerableInv(lost)'
  <1> DEFINE evs == Unseen(rp)
  <1>1. PICK m \in committed_upto .. (next_seq - 1) : CommitsUpto(evs, m)
    BY UnseenCommits
  <1>2. committed_upto \in Nat /\ next_seq \in Nat /\ m \in Nat /\ committed_upto <= m
    BY DEF TypeOK, ServerTypeOK, ClientTypeOK, SeqNo
  <1>3. /\ committed_upto' = Frontier(evs)
        /\ awaiting' = (awaiting \ ResponsesIn(evs))
                           \cup {n \in RequestsIn(evs) : LeftUnanswered(evs, n)}
        /\ DOMAIN resp_buffer' = DOMAIN resp_buffer \ ResponsesIn(evs)
        /\ out' = out
    BY DEF ingest_replay, Erase
  <1>4. UNCHANGED << s2c, received, received_payload >>
    BY DEF netVars, clientVars
  <1> HIDE DEF evs
  <1>5. /\ evs \in Seq(Event) /\ RequestsIn(evs) = (committed_upto + 1) .. m
        /\ ResponsesIn(evs) \subseteq received
    BY <1>1 DEF CommitsUpto, ReceiptsInv
  <1>6. committed_upto' = m
    BY <1>2, <1>3, <1>5, FrontierReached
  <1>7. ASSUME NEW n \in 1 .. m
        PROVE  n \in DOMAIN resp_buffer' \cup awaiting' \cup received \cup lost
    <2>1. CASE n \in 1 .. committed_upto
      BY <1>3, <1>5, <2>1 DEF AnswerableInv
    <2>2. CASE n \notin 1 .. committed_upto
      <3>1. n \in RequestsIn(evs)
        BY <1>2, <1>5, <2>2
      <3> QED BY <1>3, <1>5, <3>1, AnsweredInReplay
    <2> QED BY <2>1, <2>2
  <1>8. AllResponses' = AllResponses
    BY <1>3, <1>4 DEF AllResponses
  <1> QED BY <1>4, <1>6, <1>7, <1>8 DEF AnswerableInv

-----------------------------------------------------------------------------
(* Checkpoints: what ColorServer::checkpoint records, and the server that  *)
(* its constructor builds from it.                                         *)

\* A server's checkpoint is well formed and records the client's history.
LEMMA SnapshotGood ==
    ASSUME TypeOK, HashedInv
    PROVE  /\ IsCheckpoint(Snapshot)
           /\ HistoryInv => GoodCheckpoint(Snapshot)
  <1> DEFINE buf == [n \in DOMAIN resp_buffer |->
                        [payload |-> resp_buffer[n], hash |-> s_req_hash[n]]]
  <1>1. /\ Snapshot.committed_upto = committed_upto /\ Snapshot.history = s_history
        /\ Snapshot.buffer = buf
    BY DEF Snapshot
  <1>2. \A n \in DOMAIN resp_buffer : n \in DOMAIN s_req_hash
    BY DEF HashedInv
  <1>3. \A n \in DOMAIN buf : buf[n] \in [payload : Nat, hash : Hash]
    BY <1>2 DEF TypeOK, ServerTypeOK
  <1>4. IsCheckpoint(Snapshot)
    BY <1>1, <1>3 DEF IsCheckpoint, TypeOK, ServerTypeOK, Hash
  <1>5. ASSUME HistoryInv
        PROVE  GoodCheckpoint(Snapshot)
    <2>1. \A n \in DOMAIN buf :
              n \in 1 .. committed_upto /\ buf[n].hash = c_req_hash[n]
      BY <1>2, <1>5 DEF HistoryInv, ServerHashInv
    <2> HIDE DEF buf
    <2> QED BY <1>1, <1>5, <2>1 DEF GoodCheckpoint, HistoryInv
  <1> QED BY <1>4, <1>5

\* What a checkpoint leaves out, the awaiting ids, is all that is lost with it.
LEMMA SnapshotAnswerable ==
    ASSUME NEW lost, AnswerableInv(lost)
    PROVE  CheckpointAnswerable(Snapshot, lost \cup awaiting)
  BY DEF AnswerableInv, CheckpointAnswerable, Snapshot

\* A server without a checkpoint starts from the empty history.
LEMMA NoCheckpointGood ==
    ASSUME next_seq \in Nat \ {0}
    PROVE  /\ IsCheckpoint(NoCheckpoint)
           /\ GoodCheckpoint(NoCheckpoint)
           /\ \A lost : CheckpointAnswerable(NoCheckpoint, lost)
  <1>1. DOMAIN EmptyMap = {}
    BY DEF EmptyMap
  <1>2. /\ NoCheckpoint.committed_upto = 0 /\ NoCheckpoint.history = << >>
        /\ NoCheckpoint.buffer = EmptyMap
    BY DEF NoCheckpoint
  <1>3. << >> \in Hash
    BY DEF Hash
  <1>4. IsCheckpoint(NoCheckpoint)
    BY <1>1, <1>2, <1>3 DEF IsCheckpoint
  <1>5. GoodCheckpoint(NoCheckpoint)
    BY <1>1, <1>2 DEF GoodCheckpoint, HistoryAt
  <1>6. 1 .. 0 = {}
    OBVIOUS
  <1>7. \A lost : CheckpointAnswerable(NoCheckpoint, lost)
    BY <1>2, <1>6 DEF CheckpointAnswerable
  <1> QED BY <1>4, <1>5, <1>7

\* The server built from a well-formed checkpoint is well formed, and has the hash of
\* every response it may have to send again.
LEMMA RestoreType ==
    ASSUME TypeOK, NEW cp, IsCheckpoint(cp), RestoreFrom(cp),
           c2s' = c2s, s2c' \subseteq s2c, UNCHANGED << clientVars, s_mismatch, app_runs >>
    PROVE  TypeOK' /\ HashedInv'
  <1>1. NetTypeOK' /\ ClientTypeOK'
    BY DEF TypeOK, NetTypeOK, ClientTypeOK, clientVars
  <1>2. DOMAIN EmptyMap = {}
    BY DEF EmptyMap
  <1>3. /\ DOMAIN resp_buffer' = DOMAIN cp.buffer
        /\ DOMAIN s_req_hash' = DOMAIN cp.buffer
        /\ \A n \in DOMAIN cp.buffer : /\ resp_buffer'[n] = cp.buffer[n].payload
                                       /\ s_req_hash'[n] = cp.buffer[n].hash
        /\ awaiting' = {}
    BY DEF RestoreFrom
  <1>4. \A n \in DOMAIN cp.buffer : cp.buffer[n].payload \in Nat /\ cp.buffer[n].hash \in Hash
    BY DEF IsCheckpoint
  <1>5. /\ DOMAIN cp.buffer \subseteq SeqNo /\ cp.committed_upto \in Nat
        /\ cp.history \in Seq(Event)
    BY DEF IsCheckpoint, Hash
  <1>6. /\ committed_upto' = cp.committed_upto /\ s_history' = cp.history
        /\ pending_reqs' = EmptyMap /\ app_calls' = EmptyMap
        /\ draining' = FALSE /\ out' = {}
    BY DEF RestoreFrom
  <1>7. /\ s_mismatch' \subseteq SeqNo
        /\ DOMAIN app_runs' \subseteq SeqNo
        /\ \A n \in DOMAIN app_runs' : app_runs'[n] \in Nat
    BY DEF TypeOK, ServerTypeOK
  <1>8. /\ DOMAIN s_req_hash' \subseteq Nat
        /\ \A n \in DOMAIN s_req_hash' : s_req_hash'[n] \in Hash
        /\ DOMAIN resp_buffer' \subseteq SeqNo
        /\ \A n \in DOMAIN resp_buffer' : resp_buffer'[n] \in Nat
    BY <1>3, <1>4, <1>5 DEF SeqNo
  <1>9. ServerTypeOK'
    BY <1>2, <1>3, <1>5, <1>6, <1>7, <1>8 DEF ServerTypeOK
  <1>10. HashedInv'
    BY <1>3 DEF HashedInv
  <1> QED BY <1>1, <1>9, <1>10 DEF TypeOK

\* The server built from a checkpoint of this conversation agrees with the client.
LEMMA RestoreHistory ==
    ASSUME HistoryInv, NEW cp, GoodCheckpoint(cp), RestoreFrom(cp),
           c2s' = c2s, s2c' \subseteq s2c, UNCHANGED << clientVars, s_mismatch, app_runs >>
    PROVE  HistoryInv'
  <1>1. /\ UNCHANGED << next_seq, c_req_hash, c_history, c_mismatch, inflight >>
        /\ c2s' = c2s
    BY DEF clientVars
  <1>2. /\ DOMAIN s_req_hash' = DOMAIN cp.buffer
        /\ \A n \in DOMAIN cp.buffer : s_req_hash'[n] = cp.buffer[n].hash
        /\ committed_upto' = cp.committed_upto /\ s_history' = cp.history
        /\ pending_reqs' = EmptyMap /\ out' = {}
    BY DEF RestoreFrom
  <1>3. /\ ClientHistoryInv'
        /\ \A req : Frozen(req) => Frozen(req)'
    BY <1>1, ClientHistoryKept
  <1>4. DOMAIN EmptyMap = {}
    BY DEF EmptyMap
  <1>5. AllRequests' \subseteq AllRequests /\ AllResponses' \subseteq AllResponses
    BY <1>1, <1>2, <1>4 DEF AllRequests, AllResponses
  <1>6. ServerHashInv'
    <2>1. \A n \in DOMAIN s_req_hash' :
              n \in 1 .. committed_upto' /\ s_req_hash'[n] = c_req_hash'[n]
      BY <1>1, <1>2 DEF GoodCheckpoint
    <2> QED BY <1>1, <1>5, <2>1 DEF HistoryInv, ServerHashInv
  <1>7. (committed_upto < next_seq)' /\ (s_history = HistoryAt(committed_upto))'
    BY <1>1, <1>2 DEF GoodCheckpoint, HistoryAt
  <1>8. NoMismatch'
    BY <1>1 DEF HistoryInv, NoMismatch
  <1> QED BY <1>3, <1>5, <1>6, <1>7, <1>8 DEF HistoryInv

\* A new server has run nothing, and the client keeps its receipts.
LEMMA RestoreOnce ==
    ASSUME ReceiptsInv, NEW cp, RestoreFrom(cp), c2s' = c2s, UNCHANGED clientVars
    PROVE  OnceInv' /\ ReceiptsInv'
  <1>1. DOMAIN EmptyMap = {}
    BY DEF EmptyMap
  <1>2. OnceInv'
    BY <1>1 DEF OnceInv, RestoreFrom
  <1>3. AllRequests' \subseteq AllRequests
    BY <1>1 DEF AllRequests, RestoreFrom, clientVars
  <1> QED BY <1>2, <1>3 DEF ReceiptsInv, AcksReceived, clientVars

\* A new server can answer what its checkpoint could.
LEMMA RestoreAnswerable ==
    ASSUME NEW lost, NEW more, AnswerableInv(lost), lost \subseteq more,
           NEW cp, RestoreFrom(cp), CheckpointAnswerable(cp, more),
           s2c' \subseteq s2c, UNCHANGED clientVars
    PROVE  AnswerableInv(more)'
  <1>1. /\ DOMAIN resp_buffer' = DOMAIN cp.buffer
        /\ committed_upto' = cp.committed_upto /\ out' = {}
    BY DEF RestoreFrom
  <1>2. UNCHANGED << received, received_payload >>
    BY DEF clientVars
  <1>3. AllResponses' \subseteq AllResponses
    BY <1>1 DEF AllResponses
  <1>4. \A n \in 1 .. cp.committed_upto : n \in DOMAIN cp.buffer \cup received \cup more
    BY DEF CheckpointAnswerable
  <1>5. /\ \A resp \in AllResponses : resp.no_op => resp.seq \in received \cup lost
        /\ received \ DOMAIN received_payload \subseteq lost
    BY DEF AnswerableInv
  <1> QED BY <1>1, <1>2, <1>3, <1>4, <1>5 DEF AnswerableInv

-----------------------------------------------------------------------------
(* What the steps of the conversation keep, on a server that may have been *)
(* restored and that a replay may have left requests awaiting.             *)

\* generate_request leaves what was recorded at earlier requests as it is.
LEMMA RecordsKept ==
    ASSUME TypeOK, ClientHistoryInv,
           \/ Generate
           \/ UNCHANGED << next_seq, c_req_hash >>
    PROVE  /\ \A cp : IsCheckpoint(cp) /\ GoodCheckpoint(cp) => GoodCheckpoint(cp)'
           /\ \A rp : GoodReplay(rp) => GoodReplay(rp)'
  <1> SUFFICES ASSUME NEW N, N = next_seq
               PROVE  /\ \A cp : IsCheckpoint(cp) /\ GoodCheckpoint(cp) => GoodCheckpoint(cp)'
                      /\ \A rp : GoodReplay(rp) => GoodReplay(rp)'
    OBVIOUS
  <1>1. /\ N \in Nat \ {0} /\ DOMAIN c_req_hash = 1 .. (N - 1)
        /\ next_seq' \in Nat /\ N <= next_seq'
        /\ \A n \in 1 .. (N - 1) : c_req_hash'[n] = c_req_hash[n]
    <2>1. N \in Nat \ {0} /\ DOMAIN c_req_hash = 1 .. (N - 1)
      BY DEF TypeOK, ClientTypeOK, SeqNo, ClientHistoryInv
    <2>2. CASE Generate
      BY <2>1, <2>2 DEF Generate, generate_request, Put
    <2>3. CASE UNCHANGED << next_seq, c_req_hash >>
      BY <2>1, <2>3
    <2> QED BY <2>1, <2>2, <2>3
  <1>2. \A n \in 0 .. (N - 1) : HistoryAt(n)' = HistoryAt(n)
    BY <1>1 DEF HistoryAt
  <1>3. ASSUME NEW cp, IsCheckpoint(cp), GoodCheckpoint(cp)
        PROVE  GoodCheckpoint(cp)'
    <2>1. /\ cp.committed_upto \in Nat /\ cp.committed_upto \in 0 .. (N - 1)
          /\ cp.history = HistoryAt(cp.committed_upto)
          /\ \A n \in DOMAIN cp.buffer :
                 n \in 1 .. cp.committed_upto /\ cp.buffer[n].hash = c_req_hash[n]
      BY <1>1, <1>3 DEF IsCheckpoint, GoodCheckpoint
    <2>2. cp.committed_upto < next_seq' /\ cp.history = HistoryAt(cp.committed_upto)'
      BY <1>1, <1>2, <2>1
    <2>3. \A n \in DOMAIN cp.buffer : n \in 1 .. (N - 1)
      BY <1>1, <2>1
    <2>4. \A n \in DOMAIN cp.buffer :
              n \in 1 .. cp.committed_upto /\ cp.buffer[n].hash = c_req_hash'[n]
      BY <1>1, <2>1, <2>3
    <2> QED BY <2>2, <2>4 DEF GoodCheckpoint
  <1>4. ASSUME NEW rp, GoodReplay(rp)
        PROVE  GoodReplay(rp)'
    <2>1. PICK m \in 0 .. (N - 1) :
              rp.events = SubSeq(HistoryAt(m), rp.from + 1, Len(HistoryAt(m)))
      BY <1>4 DEF GoodReplay
    <2>2. m \in 0 .. (next_seq' - 1)
      <3>1. N \in Nat /\ next_seq' \in Nat /\ N <= next_seq'
        BY <1>1
      <3>2. \A M \in Nat : N <= M => m \in 0 .. (M - 1)
        BY <3>1
      <3> QED BY <3>1, <3>2
    <2>3. HistoryAt(m)' = HistoryAt(m)
      BY <1>2
    <2> QED BY <2>1, <2>2, <2>3 DEF GoodReplay
  <1> QED BY <1>3, <1>4

\* build_replay takes the rest of the client's history.
LEMMA BuiltReplay ==
    ASSUME TypeOK, NEW from \in Nat
    PROVE  /\ build_replay(from) \in Replay
           /\ build_replay(from).from = from
           /\ RequestsIn(build_replay(from).events) \subseteq RequestsIn(c_history)
           /\ ClientHistoryInv => GoodReplay(build_replay(from))
  <1> DEFINE h == c_history
             T == SubSeq(h, from + 1, Len(h))
  <1>1. /\ next_seq \in Nat \ {0} /\ h \in Seq(Event) /\ Len(h) \in Nat
        /\ build_replay(from).from = from /\ build_replay(from).events = T
        /\ build_replay(from) = [from |-> from, events |-> T]
    BY DEF TypeOK, ClientTypeOK, SeqNo, build_replay
  <1>2. ASSUME ClientHistoryInv
        PROVE  GoodReplay(build_replay(from))
    <2>1. h = HistoryAt(next_seq - 1) /\ next_seq - 1 \in 0 .. (next_seq - 1)
      BY <1>1, <1>2 DEF ClientHistoryInv
    <2> QED BY <1>1, <2>1 DEF GoodReplay
  <1> HIDE DEF h
  <1>3. \A i \in (from + 1) .. Len(h) : h[i] \in Event
    BY <1>1
  <1>4. /\ T \in Seq(Event)
        /\ Len(T) = IF from + 1 <= Len(h) THEN Len(h) - (from + 1) + 1 ELSE 0
        /\ \A i \in 1 .. (Len(h) - (from + 1) + 1) : T[i] = h[(from + 1) + i - 1]
    BY <1>1, <1>3, SubSeqProperties
  <1> HIDE DEF T
  <1>5. \A i \in DOMAIN T : \E k \in DOMAIN h : h[k] = T[i]
    <2> SUFFICES ASSUME NEW i \in DOMAIN T
                 PROVE  \E k \in DOMAIN h : h[k] = T[i]
      OBVIOUS
    <2>1. i \in 1 .. Len(T) /\ Len(T) \in Nat
      BY <1>4
    <2>2. /\ i \in 1 .. (Len(h) - (from + 1) + 1)
          /\ (from + 1) + i - 1 \in 1 .. Len(h)
      BY <1>1, <1>4, <2>1
    <2>3. T[i] = h[(from + 1) + i - 1] /\ (from + 1) + i - 1 \in DOMAIN h
      BY <1>1, <1>4, <2>2
    <2> QED BY <2>3
  <1>6. RequestsIn(T) \subseteq RequestsIn(h)
    BY <1>5 DEF RequestsIn
  <1>7. build_replay(from) \in Replay
    BY <1>1, <1>4 DEF Replay
  <1> QED BY <1>1, <1>2, <1>6, <1>7 DEF h

\* on_request runs the application for a committed request only if it awaits it, and
\* so has its hash and has not run it before.
LEMMA OnRequestOnce ==
    ASSUME TypeOK, NEW req \in Request, on_request(req)
    PROVE  /\ HashedInv => HashedInv'
           /\ OnceInv => OnceInv'
  <1>1. DOMAIN release_acked(req) \subseteq DOMAIN resp_buffer
    BY DEF release_acked, Erase
  <1>2. CASE ReprocessAwaiting(req)
    <2>1. /\ req.seq \in awaiting /\ awaiting' = awaiting \ {req.seq}
          /\ app_calls' = Bump(app_calls, req.seq)
          /\ DOMAIN resp_buffer' = DOMAIN release_acked(req) \cup {req.seq}
          /\ UNCHANGED << s_req_hash, committed_upto >>
      BY <1>2 DEF ReprocessAwaiting, LeftAwaiting, Put
    <2>2. HashedInv => HashedInv'
      BY <1>1, <2>1 DEF HashedInv
    <2>3. ASSUME OnceInv PROVE OnceInv'
      <3>1. req.seq \notin DOMAIN app_calls
        BY <2>1, <2>3 DEF OnceInv
      <3>2. /\ DOMAIN app_calls' = DOMAIN app_calls \cup {req.seq}
            /\ \A n \in DOMAIN app_calls : app_calls'[n] = app_calls[n]
            /\ app_calls'[req.seq] = 1
        BY <2>1, <3>1 DEF Bump, CountOf, Put
      <3>3. \A n \in DOMAIN app_calls' : app_calls'[n] = 1
        BY <2>3, <3>2 DEF OnceInv
      <3>4. /\ awaiting \cup DOMAIN app_calls \subseteq 1 .. committed_upto
            /\ awaiting \cap DOMAIN app_calls = {}
        BY <2>3 DEF OnceInv
      <3>5. /\ awaiting' \cup DOMAIN app_calls' \subseteq 1 .. committed_upto
            /\ awaiting' \cap DOMAIN app_calls' = {}
        BY <2>1, <3>2, <3>4
      <3> QED BY <2>1, <3>3, <3>5 DEF OnceInv
    <2> QED BY <2>2, <2>3
  <1>3. CASE AskForReplay(req) \/ ResendBuffered(req) \/ AcknowledgeOnly(req) \/ Stage(req)
    <2>1. UNCHANGED << s_req_hash, committed_upto, awaiting, app_calls >>
      BY <1>3 DEF AskForReplay, ResendBuffered, AcknowledgeOnly, Stage, serverVars
    <2>2. DOMAIN resp_buffer' \subseteq DOMAIN resp_buffer
      BY <1>1, <1>3 DEF AskForReplay, ResendBuffered, AcknowledgeOnly, Stage, serverVars
    <2> QED BY <2>1, <2>2 DEF HashedInv, OnceInv
  <1> QED BY <1>2, <1>3 DEF on_request

\* The commit loop runs the application for the next request, which is new here.
LEMMA CommitOnce ==
    ASSUME TypeOK, Commit
    PROVE  /\ HashedInv => HashedInv'
           /\ OnceInv => OnceInv'
  <1> DEFINE n == committed_upto + 1
  <1>1. committed_upto \in Nat
    BY DEF TypeOK, ServerTypeOK
  <1>2. CASE CommitDone
    BY <1>2 DEF CommitDone, HashedInv, OnceInv
  <1>3. CASE CommitNext
    <2>1. /\ committed_upto' = n /\ awaiting' = awaiting
          /\ app_calls' = Bump(app_calls, n)
          /\ DOMAIN resp_buffer' = DOMAIN resp_buffer \cup {n}
          /\ DOMAIN s_req_hash' = DOMAIN s_req_hash \cup {n}
      BY <1>3 DEF CommitNext, NextInOrder, Put
    <2>2. HashedInv => HashedInv'
      BY <2>1 DEF HashedInv
    <2>3. n \notin 1 .. committed_upto /\ 1 .. committed_upto \subseteq 1 .. n /\ n \in 1 .. n
      BY <1>1
    <2> HIDE DEF n
    <2>4. ASSUME OnceInv PROVE OnceInv'
      <3>1. /\ awaiting \cup DOMAIN app_calls \subseteq 1 .. committed_upto
            /\ awaiting \cap DOMAIN app_calls = {}
        BY <2>4 DEF OnceInv
      <3>2. n \notin DOMAIN app_calls
        BY <2>3, <3>1
      <3>3. /\ DOMAIN app_calls' = DOMAIN app_calls \cup {n}
            /\ \A k \in DOMAIN app_calls : app_calls'[k] = app_calls[k]
            /\ app_calls'[n] = 1
        BY <2>1, <3>2 DEF Bump, CountOf, Put
      <3>4. \A k \in DOMAIN app_calls' : app_calls'[k] = 1
        BY <2>4, <3>3 DEF OnceInv
      <3>5. /\ awaiting' \cup DOMAIN app_calls' \subseteq 1 .. n
            /\ awaiting' \cap DOMAIN app_calls' = {}
        BY <2>1, <2>3, <3>1, <3>3
      <3> QED BY <2>1, <3>4, <3>5 DEF OnceInv
    <2> QED BY <2>2, <2>4
  <1> QED BY <1>2, <1>3 DEF Commit

\* The copies of requests after on_request: one more may be staged.
LEMMA OnRequestCopies ==
    ASSUME NEW req, on_request(req), c2s' \subseteq c2s, UNCHANGED inflight
    PROVE  AllRequests' \subseteq AllRequests \cup {req}
  <1>1. CASE Stage(req)
    BY <1>1 DEF Stage, AllRequests, Put
  <1>2. CASE ~Stage(req)
    <2>1. pending_reqs' = pending_reqs
      BY <1>2 DEF on_request, AskForReplay, ResendBuffered, ReprocessAwaiting,
                  AcknowledgeOnly, serverVars
    <2> QED BY <2>1 DEF AllRequests
  <1> QED BY <1>1, <1>2

\* While the client learns nothing, no copy of a request acknowledges more than it
\* has received.
LEMMA ReceiptsKept ==
    ASSUME ReceiptsInv,
           UNCHANGED << c_history, pending_new, base, received, received_payload >>,
           \A req \in AllRequests' : req \in AllRequests \/ AcksReceived(req)
    PROVE  ReceiptsInv'
  BY DEF ReceiptsInv, AcksReceived, Ids, ResponsesIn

\* A request that is handled acknowledges only what the client has received.
LEMMA OnRequestReceipts ==
    ASSUME ReceiptsInv, NEW req, AcksReceived(req), on_request(req), c2s' \subseteq c2s,
           UNCHANGED clientVars
    PROVE  ReceiptsInv'
  <1>1. UNCHANGED << c_history, pending_new, base, received, received_payload, inflight >>
    BY DEF clientVars
  <1>2. AllRequests' \subseteq AllRequests \cup {req}
    BY <1>1, OnRequestCopies
  <1> QED BY <1>1, <1>2, ReceiptsKept

\* The commit loop adds no copy of a request.
LEMMA CommitReceipts ==
    ASSUME ReceiptsInv, Commit
    PROVE  ReceiptsInv'
  <1>1. UNCHANGED << c_history, pending_new, base, received, received_payload >>
    BY DEF Commit, clientVars
  <1> QED BY <1>1, CommitRequests, ReceiptsKept

\* generate_request acknowledges what has been received.
LEMMA GenerateReceipts ==
    ASSUME TypeOK, ReceiptsInv, Generate
    PROVE  ReceiptsInv'
  <1>1. /\ UNCHANGED << base, received, received_payload, pending_reqs >>
        /\ pending_new' = << >>
        /\ c_history' = c_history \o Committed(pending_new, next_seq)
        /\ inflight' = Put(inflight, next_seq, NextRequest)
        /\ c2s' = c2s \cup {NextRequest}
        /\ NextRequest.ack_base = base /\ NextRequest.ack_new = pending_new
    BY DEF Generate, generate_request, SendRequest, NextRequest, serverVars
  <1>2. /\ c_history \in Seq(Event) /\ pending_new \in Seq(SeqNo) /\ next_seq \in SeqNo
    BY DEF TypeOK, ClientTypeOK
  <1>3. Committed(pending_new, next_seq) \in Seq(Event)
    BY <1>2, CommittedShape
  <1>4. ResponsesIn(c_history') = ResponsesIn(c_history) \cup Ids(pending_new)
    <2>1. ResponsesIn(Committed(pending_new, next_seq)) = Ids(pending_new)
      BY <1>2, EventsCommitted
    <2> QED BY <1>1, <1>2, <1>3, <2>1, EventsConcat
  <1>5. AllRequests' \subseteq AllRequests \cup {NextRequest}
    BY <1>1 DEF AllRequests, Put
  <1>6. AcksReceived(NextRequest)
    BY <1>1 DEF AcksReceived, ReceiptsInv
  <1>7. \A req : AcksReceived(req) => AcksReceived(req)'
    BY <1>1 DEF AcksReceived
  <1>8. Ids(pending_new') = {}
    BY <1>1 DEF Ids
  <1> QED BY <1>1, <1>4, <1>5, <1>6, <1>7, <1>8 DEF ReceiptsInv

\* on_response records what it receives.
LEMMA OnResponseReceipts ==
    ASSUME TypeOK, ReceiptsInv, NEW resp \in Response,
           on_response(resp) \/ on_duplicate_response(resp),
           UNCHANGED << c2s, pending_reqs >>
    PROVE  ReceiptsInv'
  <1>1. CASE on_duplicate_response(resp)
    <2>1. UNCHANGED << c_history, pending_new, base, received, received_payload, inflight >>
      BY <1>1 DEF on_duplicate_response, clientVars
    <2>2. AllRequests' = AllRequests
      BY <2>1 DEF AllRequests
    <2> QED BY <2>1, <2>2, ReceiptsKept
  <1>2. CASE on_response(resp)
    <2>1. /\ received' = received \cup {resp.seq} /\ c_history' = c_history
          /\ AdvanceBase
          /\ pending_new' = pending_new \/ pending_new' = Append(pending_new, resp.seq)
      BY <1>2 DEF on_response
    <2>2. AllRequests' \subseteq AllRequests
      BY <1>2, OnResponseRequests
    <2>3. \A req : AcksReceived(req) => AcksReceived(req)'
      BY <2>1, AcksKept
    <2>4. Ids(pending_new') \subseteq received'
      <3>1. pending_new \in Seq(SeqNo) /\ resp.seq \in SeqNo
        BY DEF TypeOK, ClientTypeOK, Response
      <3>2. \A i \in DOMAIN pending_new : pending_new[i] \in received
        BY DEF ReceiptsInv, Ids
      <3>3. \A i \in DOMAIN pending_new' :
                \/ i \in DOMAIN pending_new /\ pending_new'[i] = pending_new[i]
                \/ pending_new'[i] = resp.seq
        BY <2>1, <3>1
      <3> QED BY <2>1, <3>2, <3>3 DEF Ids
    <2>5. 1 .. (base' - 1) \subseteq received'
      <3>1. PICK b \in base .. next_seq : base .. (b - 1) \subseteq received' /\ base' = b
        BY <2>1 DEF AdvanceBase
      <3>2. base \in Nat \ {0} /\ next_seq \in Nat
        BY DEF TypeOK, ClientTypeOK, SeqNo
      <3>3. 1 .. (base - 1) \subseteq received
        BY DEF ReceiptsInv
      <3>4. \A k \in 1 .. (b - 1) : k \in 1 .. (base - 1) \/ k \in base .. (b - 1)
        BY <3>2
      <3> QED BY <2>1, <3>1, <3>3, <3>4
    <2>6. DOMAIN received_payload' \subseteq received'
      <3>1. DOMAIN received_payload' \subseteq DOMAIN received_payload \cup {resp.seq}
        BY <1>2 DEF on_response, Put
      <3> QED BY <2>1, <3>1 DEF ReceiptsInv
    <2> QED BY <2>1, <2>2, <2>3, <2>4, <2>5, <2>6 DEF ReceiptsInv
  <1> QED BY <1>1, <1>2

\* The acknowledgements of a request release only what the client has received; a
\* committed request without a buffered response that is not awaited was received.
LEMMA OnRequestAnswerable ==
    ASSUME TypeOK, NEW lost, AnswerableInv(lost), NEW req \in Request, AcksReceived(req),
           on_request(req), UNCHANGED clientVars
    PROVE  AnswerableInv(lost)'
  <1> DEFINE buf == release_acked(req)
  <1>1. UNCHANGED << received, received_payload >>
    BY DEF clientVars
  <1>2. committed_upto \in Nat /\ req.seq \in Nat \ {0} /\ req.ack_base \in Nat
    BY DEF TypeOK, ServerTypeOK, Request, SeqNo
  <1>3. \A n \in DOMAIN resp_buffer : n \in Nat \ {0}
    BY DEF TypeOK, ServerTypeOK, SeqNo
  <1>4. \A n \in DOMAIN resp_buffer : n \in DOMAIN buf \/ n \in received
    <2>1. \A n \in DOMAIN resp_buffer : n < req.ack_base => n \in received
      BY <1>2, <1>3 DEF AcksReceived
    <2> QED BY <2>1 DEF release_acked, Erase, AcksReceived
  <1> HIDE DEF buf
  <1>5. \A n \in 1 .. committed_upto :
            n \in DOMAIN buf \cup awaiting \cup received \cup lost
    BY <1>4 DEF AnswerableInv
  <1>6. /\ \A resp \in AllResponses : resp.no_op => resp.seq \in received \cup lost
        /\ received \ DOMAIN received_payload \subseteq lost
    BY DEF AnswerableInv
  <1>7. SUFFICES /\ \A n \in 1 .. committed_upto' :
                        n \in DOMAIN resp_buffer' \cup awaiting' \cup received \cup lost
                 /\ \A resp \in AllResponses' :
                        \/ resp \in AllResponses
                        \/ resp.no_op => resp.seq \in received \cup lost
    BY <1>1, <1>6 DEF AnswerableInv
  <1>8. CASE AskForReplay(req)
    <2>1. UNCHANGED << committed_upto, resp_buffer, awaiting, out >>
      BY <1>8 DEF AskForReplay, serverVars
    <2>2. RecoverSignal(req.seq).no_op = FALSE
      BY DEF RecoverSignal
    <2> QED BY <1>8, <2>1, <2>2 DEF AskForReplay, SendResponses, AllResponses, AnswerableInv
  <1>9. CASE ResendBuffered(req)
    <2>1. make_response(req.seq, resp_buffer[req.seq], FALSE, s_req_hash).no_op = FALSE
      BY DEF make_response
    <2> QED BY <1>5, <1>9, <2>1 DEF ResendBuffered, SendResponses, AllResponses, buf
  <1>10. CASE ReprocessAwaiting(req)
    <2>1. make_response(req.seq, AppResult(req.seq), FALSE, s_req_hash).no_op = FALSE
      BY DEF make_response
    <2>2. /\ DOMAIN resp_buffer' = DOMAIN buf \cup {req.seq}
          /\ awaiting' = awaiting \ {req.seq} /\ committed_upto' = committed_upto
      BY <1>10 DEF ReprocessAwaiting, Put, buf
    <2> QED BY <1>5, <1>10, <2>1, <2>2 DEF ReprocessAwaiting, SendResponses, AllResponses
  <1>11. CASE AcknowledgeOnly(req)
    <2>1. req.seq \in received \cup lost
      <3>1. req.seq \in 1 .. committed_upto
        BY <1>2, <1>11 DEF AcknowledgeOnly
      <3> QED BY <1>5, <1>11, <3>1 DEF AcknowledgeOnly, LeftAwaiting, buf
    <2>2. make_response(req.seq, NoPayload, TRUE, s_req_hash).seq = req.seq
      BY DEF make_response
    <2> QED BY <1>5, <1>11, <2>1, <2>2
            DEF AcknowledgeOnly, SendResponses, AllResponses, buf
  <1>12. CASE Stage(req)
    <2>1. out' = {} /\ s2c' = s2c /\ resp_buffer' = buf
          /\ UNCHANGED << committed_upto, awaiting >>
      BY <1>12 DEF Stage, buf
    <2> QED BY <1>5, <2>1 DEF AllResponses
  <1> QED BY <1>8, <1>9, <1>10, <1>11, <1>12 DEF on_request

\* What the commit loop commits it buffers the response to.
LEMMA CommitAnswerable ==
    ASSUME TypeOK, NEW lost, AnswerableInv(lost), Commit
    PROVE  AnswerableInv(lost)'
  <1> DEFINE n == committed_upto + 1
             resp == make_response(n, AppResult(n), FALSE, s_req_hash')
  <1>1. committed_upto \in Nat
    BY DEF TypeOK, ServerTypeOK
  <1>2. UNCHANGED << received, received_payload >>
    BY DEF Commit, clientVars
  <1>3. CASE CommitDone
    <2>1. AllResponses' \subseteq AllResponses
      BY <1>3 DEF CommitDone, SendResponses, AllResponses
    <2> QED BY <1>2, <1>3, <2>1 DEF CommitDone, AnswerableInv
  <1>4. CASE CommitNext
    <2>1. /\ committed_upto' = n /\ awaiting' = awaiting
          /\ DOMAIN resp_buffer' = DOMAIN resp_buffer \cup {n}
          /\ out' = out \cup {resp} /\ s2c' = s2c
      BY <1>4 DEF CommitNext, NextInOrder, Put
    <2>2. resp.no_op = FALSE
      BY DEF make_response
    <2>3. \A k \in 1 .. n : k \in 1 .. committed_upto \/ k = n
      BY <1>1
    <2> HIDE DEF n, resp
    <2>4. \A k \in 1 .. n :
              k \in DOMAIN resp_buffer' \cup awaiting' \cup received' \cup lost
      BY <1>2, <2>1, <2>3 DEF AnswerableInv
    <2>5. \A r \in AllResponses' : r.no_op => r.seq \in received \cup lost
      BY <2>1, <2>2 DEF AllResponses, AnswerableInv
    <2> QED BY <1>2, <2>1, <2>4, <2>5 DEF AnswerableInv
  <1> QED BY <1>3, <1>4 DEF Commit

\* A first receipt without a payload is a no_op reply, so of something lost.
LEMMA OnResponseAnswerable ==
    ASSUME TypeOK, NEW lost, AnswerableInv(lost), NEW resp \in s2c,
           on_response(resp) \/ on_duplicate_response(resp),
           s2c' \subseteq s2c, UNCHANGED serverVars
    PROVE  AnswerableInv(lost)'
  <1>1. /\ UNCHANGED << committed_upto, resp_buffer, awaiting, out >>
        /\ AllResponses' \subseteq AllResponses /\ resp \in AllResponses
    BY DEF serverVars, AllResponses
  <1>2. CASE on_duplicate_response(resp)
    BY <1>1, <1>2 DEF on_duplicate_response, clientVars, AnswerableInv
  <1>3. CASE on_response(resp)
    <2>1. received' = received \cup {resp.seq} /\ resp.seq \notin received
      BY <1>3 DEF on_response
    <2>2. received' \ DOMAIN received_payload' \subseteq lost
      <3>1. CASE resp.no_op
        <4>1. received_payload' = received_payload /\ resp.seq \in lost
          BY <1>1, <1>3, <2>1, <3>1 DEF on_response, AnswerableInv
        <4> QED BY <2>1, <4>1 DEF AnswerableInv
      <3>2. CASE ~resp.no_op
        <4>1. DOMAIN received_payload' = DOMAIN received_payload \cup {resp.seq}
          BY <1>3, <3>2 DEF on_response, Put
        <4> QED BY <2>1, <4>1 DEF AnswerableInv
      <3> QED BY <3>1, <3>2
    <2> QED BY <1>1, <2>1, <2>2 DEF AnswerableInv
  <1> QED BY <1>2, <1>3

\* The endpoints rest: messages are lost, or a request is sent again.
QuietLinks ==
    /\ UNCHANGED << clientVars, serverVars >>
    /\ s2c' \subseteq s2c
    /\ c2s' \subseteq c2s \cup {inflight[n] : n \in DOMAIN inflight}

\* What the endpoints hold does not change while they rest.
LEMMA QuietKeeps ==
    ASSUME TypeOK, QuietLinks
    PROVE  /\ TypeOK'
           /\ HashedInv => HashedInv'
           /\ HistoryInv => HistoryInv'
           /\ OrderInv => OrderInv'
           /\ OnceInv => OnceInv'
           /\ ReceiptsInv => ReceiptsInv'
           /\ \A lost : AnswerableInv(lost) => AnswerableInv(lost)'
           /\ AckInv => AckInv'
  <1>1. UNCHANGED << clientVars, serverVars >>
    BY DEF QuietLinks
  <1>2. AllRequests' \subseteq AllRequests /\ AllResponses' \subseteq AllResponses
    BY DEF QuietLinks, AllRequests, AllResponses, clientVars, serverVars
  <1>3. TypeOK'
    <2>1. c2s' \subseteq Request /\ s2c' \subseteq Response
      BY DEF QuietLinks, TypeOK, NetTypeOK, ClientTypeOK
    <2>2. ClientTypeOK'
      BY <1>1 DEF TypeOK, ClientTypeOK, clientVars
    <2>3. ServerTypeOK'
      BY <1>1 DEF TypeOK, ServerTypeOK, serverVars
    <2> QED BY <2>1, <2>2, <2>3 DEF TypeOK, NetTypeOK
  <1>4. HashedInv => HashedInv'
    BY <1>1 DEF HashedInv, serverVars
  <1>5. HistoryInv => HistoryInv'
    BY <1>1, <1>2, QuietHistory DEF clientVars, serverVars
  <1>6. OrderInv => OrderInv'
    BY <1>1, OrderKept DEF clientVars
  <1>7. OnceInv => OnceInv'
    BY <1>1 DEF OnceInv, serverVars
  <1>8. ReceiptsInv => ReceiptsInv'
    BY <1>1, <1>2, ReceiptsKept DEF clientVars
  <1>9. \A lost : AnswerableInv(lost) => AnswerableInv(lost)'
    BY <1>1, <1>2 DEF AnswerableInv, clientVars, serverVars
  <1>10. ASSUME AckInv PROVE AckInv'
    BY <1>1, <1>2, <1>10 DEF AckInv, AcksReceived, clientVars, serverVars
  <1> QED BY <1>3, <1>4, <1>5, <1>6, <1>7, <1>8, <1>9, <1>10

-----------------------------------------------------------------------------
(* A server that stays up.                                                 *)

\* A conversation without failovers keeps the hash of whatever it has buffered.
LEMMA HashedInvariant == Spec => []HashedInv
  <1>1. Init => HashedInv
    BY DEF Init, ServerInit, HashedInv, EmptyMap
  <1>2. TypeOK /\ HashedInv /\ [Next]_vars => HashedInv'
    <2> SUFFICES ASSUME TypeOK, HashedInv, [Next]_vars PROVE HashedInv'
      OBVIOUS
    <2>1. CASE UNCHANGED serverVars
      BY <2>1 DEF serverVars, HashedInv
    <2>2. ASSUME NEW req \in c2s, DeliverRequest(req)
          PROVE  HashedInv'
      <3>1. req \in Request /\ on_request(req)
        BY <2>2 DEF DeliverRequest, TypeOK, NetTypeOK
      <3> QED BY <3>1, OnRequestOnce
    <2>3. CASE Commit
      BY <2>3, CommitOnce
    <2>4. UNCHANGED serverVars \/ Commit \/ \E req \in c2s : DeliverRequest(req)
      BY DEF Next, Generate, Resend, DeliverResponse, Lose, vars
    <2> QED BY <2>1, <2>2, <2>3, <2>4
  <1> QED BY <1>1, <1>2, TypeCorrect, PTL DEF Spec

-----------------------------------------------------------------------------
(* Results of the application.                                             *)

\* The payload is the result of a run of the application for n, on whatever server.
Ran(n, payload) == n \in DOMAIN app_runs /\ payload \in 1 .. app_runs[n]

\* A response that is a recovery signal, an empty reply or a result of the application.
Genuine(resp) == resp.no_op \/ resp.recover \/ Ran(resp.seq, resp.payload)

\* Whatever is delivered, buffered or on its way as a response is such a result.
ResultsInv ==
    /\ \A n \in DOMAIN received_payload : Ran(n, received_payload[n])
    /\ \A n \in DOMAIN resp_buffer : Ran(n, resp_buffer[n])
    /\ \A resp \in AllResponses : Genuine(resp)

\* So is what a checkpoint keeps.
CheckpointResults(cp) == \A n \in DOMAIN cp.buffer : Ran(n, cp.buffer[n].payload)

\* Once a result, always a result.
ResultsStand == \A n, d : Ran(n, d) => Ran(n, d)'

\* A run of the application adds its result and takes none away.
LEMMA RunAdds ==
    ASSUME ServerTypeOK, NEW k, app_runs' = Bump(app_runs, k)
    PROVE  /\ ResultsStand
           /\ \A d : d = AppResult(k) => Ran(k, d)'
  <1>1. CountOf(app_runs, k) \in Nat
    BY DEF ServerTypeOK, CountOf
  <1>2. /\ DOMAIN app_runs' = DOMAIN app_runs \cup {k}
        /\ app_runs'[k] = CountOf(app_runs, k) + 1
        /\ \A n \in DOMAIN app_runs : n # k => app_runs'[n] = app_runs[n]
    BY DEF Bump, Put
  <1>3. ASSUME NEW d, d = AppResult(k) PROVE Ran(k, d)'
    <2>1. d \in 1 .. app_runs'[k]
      BY <1>1, <1>2, <1>3 DEF AppResult
    <2> QED BY <1>2, <2>1 DEF Ran
  <1>4. ASSUME NEW n, NEW d, Ran(n, d) PROVE Ran(n, d)'
    <2>1. CASE n # k
      BY <1>2, <1>4, <2>1 DEF Ran
    <2>2. CASE n = k
      <3>1. CountOf(app_runs, k) = app_runs[k] /\ d \in 1 .. app_runs[k]
        BY <1>4, <2>2 DEF CountOf, Ran
      <3>2. d \in 1 .. app_runs'[k]
        BY <1>1, <1>2, <3>1
      <3> QED BY <1>2, <2>2, <3>2 DEF Ran
    <2> QED BY <2>1, <2>2
  <1> QED BY <1>3, <1>4 DEF ResultsStand

\* Responses may be released, handed out, received or lost, and a buffered one sent
\* again: no payload is made up.
LEMMA ResultsKept ==
    ASSUME ResultsInv, UNCHANGED << app_runs, received_payload >>,
           \A n \in DOMAIN resp_buffer' :
               n \in DOMAIN resp_buffer /\ resp_buffer'[n] = resp_buffer[n],
           \A resp \in AllResponses' : resp \in AllResponses \/ Genuine(resp)
    PROVE  ResultsInv' /\ ResultsStand
  <1>1. \A n, d : Ran(n, d)' <=> Ran(n, d)
    BY DEF Ran
  <1>2. \A n \in DOMAIN received_payload' : Ran(n, received_payload[n])'
    BY <1>1 DEF ResultsInv
  <1>3. \A n \in DOMAIN resp_buffer' : Ran(n, resp_buffer[n])'
    <2>1. \A n \in DOMAIN resp_buffer' : Ran(n, resp_buffer'[n])
      BY DEF ResultsInv
    <2> QED BY <1>1, <2>1
  <1>4. \A resp \in AllResponses' : Genuine(resp)'
    BY <1>1 DEF ResultsInv, Genuine
  <1> QED BY <1>1, <1>2, <1>3, <1>4 DEF ResultsInv, ResultsStand

\* A run of the application for k adds one result, buffered and to be sent.
LEMMA ResultsRun ==
    ASSUME ResultsInv, ServerTypeOK, NEW k, NEW buffer, NEW hashes,
           UNCHANGED received_payload,
           app_runs' = Bump(app_runs, k),
           \A n \in DOMAIN buffer : n \in DOMAIN resp_buffer /\ buffer[n] = resp_buffer[n],
           resp_buffer' = Put(buffer, k, AppResult(k)),
           AllResponses' \subseteq AllResponses
                                       \cup {make_response(k, AppResult(k), FALSE, hashes)}
    PROVE  ResultsInv' /\ ResultsStand
  <1>1. ResultsStand /\ \A d : d = AppResult(k) => Ran(k, d)'
    BY RunAdds
  <1>2. \A n, d : Ran(n, d) => Ran(n, d)'
    BY <1>1 DEF ResultsStand
  <1>3. \A n \in DOMAIN received_payload' : Ran(n, received_payload[n])'
    BY <1>2 DEF ResultsInv
  <1>4. \A n \in DOMAIN resp_buffer' : Ran(n, resp_buffer[n])'
    <2> SUFFICES ASSUME NEW n \in DOMAIN resp_buffer' PROVE Ran(n, resp_buffer[n])'
      OBVIOUS
    <2>1. CASE n = k
      BY <1>1, <2>1 DEF Put
    <2>2. CASE n # k
      <3>1. n \in DOMAIN resp_buffer /\ resp_buffer'[n] = resp_buffer[n]
        BY <2>2 DEF Put
      <3> QED BY <1>2, <3>1 DEF ResultsInv
    <2> QED BY <2>1, <2>2
  <1>5. \A resp \in AllResponses' : Genuine(resp)'
    <2> SUFFICES ASSUME NEW resp \in AllResponses'
                 PROVE  resp.no_op \/ resp.recover \/ Ran(resp.seq, resp.payload)'
      BY DEF Genuine
    <2>1. CASE resp \in AllResponses
      BY <1>2, <2>1 DEF ResultsInv, Genuine
    <2>2. CASE resp = make_response(k, AppResult(k), FALSE, hashes)
      <3>1. resp.seq = k /\ resp.payload = AppResult(k)
        BY <2>2 DEF make_response
      <3> QED BY <1>1, <3>1
    <2> QED BY <2>1, <2>2
  <1> QED BY <1>1, <1>3, <1>4, <1>5 DEF ResultsInv

\* on_request answers with a result, or with none.
LEMMA OnRequestResults ==
    ASSUME ResultsInv, ServerTypeOK, NEW req, on_request(req), UNCHANGED received_payload
    PROVE  ResultsInv' /\ ResultsStand
  <1>1. \A n \in DOMAIN release_acked(req) :
            n \in DOMAIN resp_buffer /\ release_acked(req)[n] = resp_buffer[n]
    BY DEF release_acked, Erase
  <1>2. CASE AskForReplay(req)
    <2>1. Genuine(RecoverSignal(req.seq))
      BY DEF Genuine, RecoverSignal
    <2>2. /\ UNCHANGED << app_runs, resp_buffer, out >>
          /\ s2c' = s2c \cup {RecoverSignal(req.seq)}
      BY <1>2 DEF AskForReplay, SendResponses, serverVars
    <2>3. \A resp \in AllResponses' : resp \in AllResponses \/ Genuine(resp)
      BY <2>1, <2>2 DEF AllResponses
    <2> QED BY <2>2, <2>3, ResultsKept
  <1>3. CASE ResendBuffered(req)
    <2> DEFINE r == make_response(req.seq, resp_buffer[req.seq], FALSE, s_req_hash)
    <2>1. Genuine(r)
      BY <1>1, <1>3 DEF Genuine, ResendBuffered, make_response, ResultsInv
    <2>2. /\ UNCHANGED << app_runs, out >> /\ resp_buffer' = release_acked(req)
          /\ s2c' = s2c \cup {r}
      BY <1>3 DEF ResendBuffered, SendResponses
    <2> HIDE DEF r
    <2>3. \A resp \in AllResponses' : resp \in AllResponses \/ Genuine(resp)
      BY <2>1, <2>2 DEF AllResponses
    <2> QED BY <1>1, <2>2, <2>3, ResultsKept
  <1>4. CASE ReprocessAwaiting(req)
    <2> DEFINE r == make_response(req.seq, AppResult(req.seq), FALSE, s_req_hash)
    <2>1. /\ app_runs' = Bump(app_runs, req.seq) /\ out' = out
          /\ resp_buffer' = Put(release_acked(req), req.seq, AppResult(req.seq))
          /\ s2c' = s2c \cup {r}
      BY <1>4 DEF ReprocessAwaiting, SendResponses
    <2> HIDE DEF r
    <2>2. AllResponses' \subseteq AllResponses \cup {r}
      BY <2>1 DEF AllResponses
    <2> QED BY <1>1, <2>1, <2>2, ResultsRun DEF r
  <1>5. CASE AcknowledgeOnly(req)
    <2> DEFINE r == make_response(req.seq, NoPayload, TRUE, s_req_hash)
    <2>1. Genuine(r)
      BY DEF Genuine, make_response
    <2>2. /\ UNCHANGED << app_runs, out >> /\ resp_buffer' = release_acked(req)
          /\ s2c' = s2c \cup {r}
      BY <1>5 DEF AcknowledgeOnly, SendResponses
    <2> HIDE DEF r
    <2>3. \A resp \in AllResponses' : resp \in AllResponses \/ Genuine(resp)
      BY <2>1, <2>2 DEF AllResponses
    <2> QED BY <1>1, <2>2, <2>3, ResultsKept
  <1>6. CASE Stage(req)
    <2>1. /\ UNCHANGED << app_runs, s2c >> /\ out' = {} /\ resp_buffer' = release_acked(req)
      BY <1>6 DEF Stage
    <2>2. AllResponses' \subseteq AllResponses
      BY <2>1 DEF AllResponses
    <2> QED BY <1>1, <2>1, <2>2, ResultsKept
  <1> QED BY <1>2, <1>3, <1>4, <1>5, <1>6 DEF on_request

\* The commit loop answers with the results of the runs it makes.
LEMMA CommitResults ==
    ASSUME ResultsInv, ServerTypeOK, CommitNext \/ CommitDone, UNCHANGED received_payload
    PROVE  ResultsInv' /\ ResultsStand
  <1>1. CASE CommitNext
    <2> DEFINE k == NextInOrder
               r == make_response(k, AppResult(k), FALSE, s_req_hash')
    <2>1. /\ app_runs' = Bump(app_runs, k) /\ s2c' = s2c
          /\ resp_buffer' = Put(resp_buffer, k, AppResult(k))
          /\ out' = out \cup {r}
      BY <1>1 DEF CommitNext
    <2> HIDE DEF r, k
    <2>2. AllResponses' \subseteq AllResponses \cup {r}
      BY <2>1 DEF AllResponses
    <2> QED BY <2>1, <2>2, ResultsRun DEF r
  <1>2. CASE CommitDone
    <2>1. /\ UNCHANGED << app_runs, resp_buffer >> /\ out' = {} /\ s2c' = s2c \cup out
      BY <1>2 DEF CommitDone, SendResponses
    <2>2. AllResponses' \subseteq AllResponses
      BY <2>1 DEF AllResponses
    <2> QED BY <2>1, <2>2, ResultsKept
  <1> QED BY <1>1, <1>2

\* The client delivers the payload of a response that is neither empty nor a signal.
LEMMA OnResponseResults ==
    ASSUME ResultsInv, NEW resp \in s2c, ~resp.recover,
           on_response(resp) \/ on_duplicate_response(resp),
           UNCHANGED serverVars, s2c' \subseteq s2c
    PROVE  ResultsInv' /\ ResultsStand
  <1>1. UNCHANGED << app_runs, resp_buffer, out >>
    BY DEF serverVars
  <1>2. \A m, d : Ran(m, d)' <=> Ran(m, d)
    BY <1>1 DEF Ran
  <1>3. resp.no_op \/ Ran(resp.seq, resp.payload)
    BY DEF ResultsInv, AllResponses, Genuine
  <1>4. \A m \in DOMAIN received_payload' : Ran(m, received_payload'[m])
    BY <1>3 DEF ResultsInv, on_response, on_duplicate_response, clientVars, Put
  <1>5. AllResponses' \subseteq AllResponses
    BY <1>1 DEF AllResponses
  <1>6. \A m \in DOMAIN received_payload' : Ran(m, received_payload[m])'
    BY <1>2, <1>4
  <1>7. \A m \in DOMAIN resp_buffer' : Ran(m, resp_buffer[m])'
    BY <1>1, <1>2 DEF ResultsInv
  <1>8. \A r \in AllResponses' : Genuine(r)'
    BY <1>2, <1>5 DEF ResultsInv, Genuine
  <1> QED BY <1>2, <1>6, <1>7, <1>8 DEF ResultsInv, ResultsStand

\* A checkpoint takes over the buffered payloads, and a replacement takes them back.
LEMMA RestoreResults ==
    ASSUME ResultsInv, NEW cp, CheckpointResults(cp), RestoreFrom(cp),
           UNCHANGED << app_runs, received_payload >>, s2c' \subseteq s2c
    PROVE  ResultsInv' /\ ResultsStand
  <1>1. \A n, d : Ran(n, d)' <=> Ran(n, d)
    BY DEF Ran
  <1>2. \A n \in DOMAIN received_payload' : Ran(n, received_payload[n])'
    BY <1>1 DEF ResultsInv
  <1>3. \A n \in DOMAIN resp_buffer' : Ran(n, resp_buffer'[n])
    BY DEF RestoreFrom, CheckpointResults
  <1>4. \A n \in DOMAIN resp_buffer' : Ran(n, resp_buffer[n])'
    BY <1>1, <1>3
  <1>5. AllResponses' \subseteq AllResponses
    BY DEF RestoreFrom, AllResponses
  <1>6. \A resp \in AllResponses' : Genuine(resp)'
    BY <1>1, <1>5 DEF ResultsInv, Genuine
  <1> QED BY <1>1, <1>2, <1>4, <1>6 DEF ResultsInv, ResultsStand

\* What is in the buffer when a checkpoint is taken is a result.
LEMMA SnapshotResults == ResultsInv => CheckpointResults(Snapshot)
  BY DEF ResultsInv, CheckpointResults, Snapshot

\* Nothing buffered is changed by a replay; some of it is released.
LEMMA IngestResults ==
    ASSUME ResultsInv, NEW rp, ingest_replay(rp), UNCHANGED << s2c, received_payload >>
    PROVE  ResultsInv' /\ ResultsStand
  <1>1. UNCHANGED << app_runs, out >> /\ resp_buffer' = Erase(resp_buffer, ResponsesIn(Unseen(rp)))
    BY DEF ingest_replay
  <1>2. \A n \in DOMAIN resp_buffer' : n \in DOMAIN resp_buffer /\ resp_buffer'[n] = resp_buffer[n]
    BY <1>1 DEF Erase
  <1>3. AllResponses' = AllResponses
    BY <1>1 DEF AllResponses
  <1> QED BY <1>1, <1>2, <1>3, ResultsKept

-----------------------------------------------------------------------------
(* Ids.                                                                    *)

\* Only requests that were generated are sent, staged or answered; what is delivered
\* was received.
IssuedInv ==
    /\ \A req \in AllRequests : req.seq < next_seq
    /\ \A resp \in AllResponses : resp.seq < next_seq
    /\ DOMAIN received_payload \subseteq received

LEMMA OnRequestIssued ==
    ASSUME IssuedInv, NEW req, on_request(req), c2s' \subseteq c2s, req.seq < next_seq,
           UNCHANGED clientVars
    PROVE  IssuedInv'
  <1>1. AllRequests' \subseteq AllRequests \cup {req}
    BY OnRequestCopies DEF clientVars
  <1>2. \A resp \in AllResponses' : resp \in AllResponses \/ resp.seq = req.seq
    BY DEF on_request, AskForReplay, ResendBuffered, ReprocessAwaiting, AcknowledgeOnly,
           Stage, SendResponses, serverVars, AllResponses, RecoverSignal, make_response
  <1> QED BY <1>1, <1>2 DEF IssuedInv, clientVars

LEMMA CommitIssued ==
    ASSUME IssuedInv, ServerTypeOK, Commit
    PROVE  IssuedInv'
  <1>1. UNCHANGED << c2s, clientVars >>
    BY DEF Commit
  <1>2. \A n \in DOMAIN pending_reqs' : n \in DOMAIN pending_reqs /\ pending_reqs'[n] = pending_reqs[n]
    BY DEF Commit, CommitNext, CommitDone, Erase
  <1>3. AllRequests' \subseteq AllRequests
    BY <1>1, <1>2 DEF AllRequests, clientVars
  <1>4. CASE CommitNext
    <2>1. NextInOrder \in DOMAIN pending_reqs /\ pending_reqs[NextInOrder].seq = NextInOrder
      BY <1>4 DEF CommitNext, ServerTypeOK
    <2>2. NextInOrder < next_seq
      BY <2>1 DEF IssuedInv, AllRequests
    <2>3. \A resp \in AllResponses' : resp \in AllResponses \/ resp.seq = NextInOrder
      BY <1>4 DEF CommitNext, AllResponses, make_response
    <2> QED BY <1>1, <1>3, <2>2, <2>3 DEF IssuedInv, clientVars
  <1>5. CASE CommitDone
    <2>1. AllResponses' \subseteq AllResponses
      BY <1>5 DEF CommitDone, SendResponses, AllResponses
    <2> QED BY <1>1, <1>3, <2>1 DEF IssuedInv, clientVars
  <1> QED BY <1>4, <1>5 DEF Commit

LEMMA GenerateIssued ==
    ASSUME IssuedInv, TypeOK, Generate
    PROVE  IssuedInv'
  <1>1. /\ next_seq \in Nat /\ next_seq' = next_seq + 1
        /\ UNCHANGED << s2c, out, received, received_payload, pending_reqs >>
        /\ NextRequest.seq = next_seq
    BY DEF TypeOK, ClientTypeOK, SeqNo, Generate, generate_request, serverVars, NextRequest
  <1>2. AllRequests' \subseteq AllRequests \cup {NextRequest}
    BY <1>1 DEF Generate, generate_request, SendRequest, AllRequests, Put
  <1>3. \A req \in AllRequests : req.seq \in Nat
    BY AllMessagesType DEF Request, SeqNo
  <1>4. \A resp \in AllResponses : resp.seq \in Nat
    BY AllMessagesType DEF Response, SeqNo
  <1>5. AllResponses' = AllResponses
    BY <1>1 DEF AllResponses
  <1>6. \A req \in AllRequests' : req.seq < next_seq'
    <2> SUFFICES ASSUME NEW req \in AllRequests' PROVE req.seq < next_seq'
      OBVIOUS
    <2>1. CASE req \in AllRequests
      BY <1>1, <1>3, <2>1 DEF IssuedInv
    <2>2. CASE req = NextRequest
      BY <1>1, <2>2
    <2> QED BY <1>2, <2>1, <2>2
  <1>7. \A resp \in AllResponses' : resp.seq < next_seq'
    BY <1>1, <1>4, <1>5 DEF IssuedInv
  <1> QED BY <1>1, <1>6, <1>7 DEF IssuedInv

LEMMA OnResponseIssued ==
    ASSUME IssuedInv, NEW resp, on_response(resp) \/ on_duplicate_response(resp),
           UNCHANGED << c2s, serverVars >>, s2c' \subseteq s2c
    PROVE  IssuedInv'
  <1>1. UNCHANGED << next_seq, out, pending_reqs >>
    BY DEF on_response, on_duplicate_response, clientVars, serverVars
  <1>2. \A n \in DOMAIN inflight' : n \in DOMAIN inflight /\ inflight'[n] = inflight[n]
    BY DEF on_response, on_duplicate_response, clientVars, Erase
  <1>3. AllRequests' \subseteq AllRequests /\ AllResponses' \subseteq AllResponses
    BY <1>1, <1>2 DEF AllRequests, AllResponses
  <1>4. (DOMAIN received_payload \subseteq received)'
    BY DEF IssuedInv, on_response, on_duplicate_response, clientVars, Put
  <1> QED BY <1>1, <1>3, <1>4 DEF IssuedInv

\* Fewer requests staged and fewer responses produced: a replay, or a replacement.
LEMMA IssuedKept ==
    ASSUME IssuedInv, UNCHANGED clientVars, AllRequests' \subseteq AllRequests,
           AllResponses' \subseteq AllResponses
    PROVE  IssuedInv'
  BY DEF IssuedInv, clientVars

-----------------------------------------------------------------------------
(* The recoverable history.                                                *)

\* The history h is the client's up to and including request n.
ReachedIn(h, n) ==
    \/ n = 0 /\ h = << >>
    \/ \E k \in DOMAIN c_history : c_history[k] = ReqEvent(n) /\ h = SubSeq(c_history, 1, k)

\* What the client recorded for a request ends with it.
LEMMA HistoryEnds ==
    ASSUME TypeOK, ClientHistoryInv, OrderInv, NEW n \in 0 .. (next_seq - 1)
    PROVE  ReachedIn(HistoryAt(n), n)
  <1>1. CASE n = 0
    BY <1>1 DEF HistoryAt, ReachedIn
  <1>2. CASE n # 0
    <2>1. /\ next_seq \in Nat /\ c_history \in Seq(Event) /\ 0 \in 0 .. (next_seq - 1)
          /\ n \in 1 .. (next_seq - 1)
      BY <1>2 DEF TypeOK, ClientTypeOK, SeqNo
    <2>2. /\ Len(HistoryAt(n)) \in 0 .. Len(c_history)
          /\ HistoryAt(n) = SubSeq(c_history, 1, Len(HistoryAt(n)))
      BY HistoryAtPrefix
    <2>3. Len(HistoryAt(0)) < Len(HistoryAt(n)) /\ Len(HistoryAt(0)) = 0
      BY <1>2, <2>1 DEF OrderInv, HistoryAt
    <2>4. Len(HistoryAt(n)) \in DOMAIN c_history
      BY <2>1, <2>2, <2>3
    <2>5. c_history[Len(HistoryAt(n))] = ReqEvent(n)
      BY <2>1 DEF OrderInv
    <2> QED BY <2>2, <2>4, <2>5 DEF ReachedIn
  <1> QED BY <1>1, <1>2

\* What the server has committed stands in its history.
LEMMA CommittedRecorded ==
    ASSUME TypeOK, HistoryInv, OrderInv, NEW n \in 1 .. committed_upto
    PROVE  n \in RequestsIn(s_history)
  <1> DEFINE k == Len(HistoryAt(n))
  <1>1. /\ next_seq \in Nat /\ committed_upto \in Nat /\ committed_upto < next_seq
        /\ c_history \in Seq(Event) /\ s_history = HistoryAt(committed_upto)
        /\ ClientHistoryInv
    BY DEF TypeOK, ClientTypeOK, ServerTypeOK, SeqNo, HistoryInv
  <1>2. n \in 0 .. (next_seq - 1) /\ committed_upto \in 0 .. (next_seq - 1) /\ n \in 1 .. (next_seq - 1)
        /\ 0 \in 0 .. (next_seq - 1)
    BY <1>1
  <1>3. /\ k \in 0 .. Len(c_history)
        /\ s_history \in Seq(Event) /\ Len(s_history) \in 0 .. Len(c_history)
        /\ s_history = SubSeq(c_history, 1, Len(s_history))
    BY <1>1, <1>2, HistoryAtPrefix
  <1>4. k <= Len(s_history)
    <2>1. CASE n = committed_upto
      BY <1>1, <1>3, <2>1
    <2>2. CASE n < committed_upto
      BY <1>1, <1>2, <1>3, <2>2 DEF OrderInv
    <2> QED BY <1>1, <2>1, <2>2
  <1>5. k > 0
    <2>1. Len(HistoryAt(0)) < k /\ Len(HistoryAt(0)) = 0
      BY <1>2 DEF OrderInv, HistoryAt
    <2> QED BY <1>3, <2>1
  <1>6. c_history[k] = ReqEvent(n)
    BY <1>2 DEF OrderInv
  <1> HIDE DEF k
  <1>7. k \in DOMAIN s_history /\ s_history[k] = c_history[k]
    BY <1>1, <1>3, <1>4, <1>5
  <1>8. ~s_history[k].is_response /\ s_history[k].seq = n
    BY <1>6, <1>7 DEF ReqEvent
  <1> QED BY <1>7, <1>8 DEF RequestsIn

\* The application is run for n, for the first time by this server.
RunsHere(n) ==
    /\ n \notin DOMAIN app_calls
    /\ DOMAIN app_calls' = DOMAIN app_calls \cup {n}
    /\ app_runs' = Bump(app_runs, n)

\* One iteration of the commit loop takes the next request of the history and runs it.
LEMMA CommitTakesNext ==
    ASSUME TypeOK, HistoryInv, HistoryInv', OrderInv, OnceInv, CommitNext,
           UNCHANGED clientVars
    PROVE  \E n \in 1 .. (next_seq - 1) :
               /\ ReachedIn(s_history, n - 1)
               /\ ReachedIn(s_history', n)
               /\ RunsHere(n)
  <1> DEFINE n == committed_upto + 1
  <1>1. /\ committed_upto \in Nat /\ next_seq \in Nat
        /\ committed_upto' = n /\ app_runs' = Bump(app_runs, n)
        /\ app_calls' = Bump(app_calls, n)
    BY DEF TypeOK, ServerTypeOK, ClientTypeOK, SeqNo, CommitNext, NextInOrder
  <1>2. UNCHANGED << next_seq, c_req_hash, c_history >>
    BY DEF clientVars
  <1>3. /\ ClientHistoryInv /\ s_history = HistoryAt(committed_upto)
        /\ committed_upto' < next_seq' /\ s_history' = HistoryAt(committed_upto')
    BY <1>1, <1>2 DEF HistoryInv, HistoryAt
  <1>4. n \in 1 .. (next_seq - 1) /\ n \in 0 .. (next_seq - 1) /\ n - 1 \in 0 .. (next_seq - 1)
        /\ n - 1 = committed_upto
    BY <1>1, <1>2, <1>3
  <1>5. n \notin DOMAIN app_calls /\ DOMAIN app_calls' = DOMAIN app_calls \cup {n}
    BY <1>1 DEF OnceInv, Bump, Put
  <1> HIDE DEF n
  <1>6. ReachedIn(s_history, n - 1) /\ ReachedIn(s_history', n)
    BY <1>1, <1>3, <1>4, HistoryEnds
  <1> QED BY <1>1, <1>4, <1>5, <1>6 DEF RunsHere

\* on_request itself runs at most one request, which the history holds already.
LEMMA OnRequestRunsLate ==
    ASSUME TypeOK, NEW req \in Request, on_request(req)
    PROVE  /\ s_history' = s_history
           /\ \/ UNCHANGED << app_calls, app_runs >>
              \/ app_runs' = Bump(app_runs, req.seq)
           /\ HistoryInv /\ OrderInv /\ OnceInv =>
                 \/ UNCHANGED << app_calls, app_runs >>
                 \/ \E n \in 1 .. (next_seq - 1) : n \in RequestsIn(s_history) /\ RunsHere(n)
  <1>1. CASE ~ReprocessAwaiting(req)
    BY <1>1 DEF on_request, AskForReplay, ResendBuffered, AcknowledgeOnly, Stage, serverVars
  <1>2. CASE ReprocessAwaiting(req)
    <2>1. /\ req.seq \in awaiting /\ s_history' = s_history
          /\ app_calls' = Bump(app_calls, req.seq) /\ app_runs' = Bump(app_runs, req.seq)
      BY <1>2 DEF ReprocessAwaiting, LeftAwaiting
    <2>2. ASSUME HistoryInv, OrderInv, OnceInv
          PROVE  \E n \in 1 .. (next_seq - 1) : n \in RequestsIn(s_history) /\ RunsHere(n)
      <3>1. req.seq \in 1 .. committed_upto /\ req.seq \notin DOMAIN app_calls
        BY <2>1, <2>2 DEF OnceInv
      <3>2. req.seq \in 1 .. (next_seq - 1)
        BY <2>2, <3>1 DEF HistoryInv, TypeOK, ServerTypeOK, ClientTypeOK, SeqNo
      <3>3. req.seq \in RequestsIn(s_history)
        BY <2>2, <3>1, CommittedRecorded
      <3>4. RunsHere(req.seq)
        BY <2>1, <3>1 DEF RunsHere, Bump, Put
      <3> QED BY <3>2, <3>3, <3>4
    <2> QED BY <2>1, <2>2
  <1> QED BY <1>1, <1>2

\* From one commit point of the history the server moves to another.
LEMMA MovesAlong ==
    ASSUME TypeOK, HistoryInv, HistoryInv', OrderInv, UNCHANGED clientVars,
           committed_upto' \in Nat
    PROVE  /\ committed_upto \in 0 .. (next_seq - 1)
           /\ committed_upto' \in 0 .. (next_seq - 1)
           /\ ReachedIn(s_history, committed_upto)
           /\ ReachedIn(s_history', committed_upto')
           /\ committed_upto = committed_upto' => s_history = s_history'
  <1>1. UNCHANGED << next_seq, c_req_hash, c_history >> /\ next_seq \in Nat
        /\ committed_upto \in Nat
    BY DEF clientVars, TypeOK, ClientTypeOK, ServerTypeOK, SeqNo
  <1>2. /\ ClientHistoryInv /\ s_history = HistoryAt(committed_upto)
        /\ committed_upto < next_seq
        /\ committed_upto' < next_seq /\ s_history' = HistoryAt(committed_upto')
    BY <1>1 DEF HistoryInv, HistoryAt
  <1>3. committed_upto \in 0 .. (next_seq - 1) /\ committed_upto' \in 0 .. (next_seq - 1)
    BY <1>1, <1>2
  <1> QED BY <1>2, <1>3, HistoryEnds
=============================================================================
