-------------------------- MODULE WritePathProofs --------------------------
(***************************************************************************)
(* Proofs about WritePipeline and about DocumentCache, whose steps are     *)
(* WritePipeline's, for any number of users, of writes, clears and faults, *)
(* and any limit on the pipeline.                                          *)
(*                                                                         *)
(* The pipeline is a prefix of the signed-in user's queue,                 *)
(* and while the call is live, the answers that have not been read and the *)
(* requests that have not been taken are the pipeline, in this order.  So  *)
(* an answer is the front's although it does not name its request, and a   *)
(* request arrives only when everything its user wrote before has either   *)
(* arrived or is behind it in nothing but answers.                         *)
(*                                                                         *)
(* Acknowledgements and snapshots can be told apart by their versions: the *)
(* field at the version of an answer has the answered write, versions of   *)
(* answers never decrease, and an unconfirmed document is not newer than   *)
(* the answers still to be read.                                           *)
(***************************************************************************)
EXTENDS DocumentCache, SequenceTheorems, TLAPS

----------------------------------------------------------------------------
(* The invariant's parts.                                                  *)
Ascending(q) ==
    \A i, j \in DOMAIN q : i < j => q[i].id < q[j].id /\ q[i].write < q[j].write

Owned(q, u) ==
    \A i \in DOMAIN q : q[i].write \in DOMAIN author /\ author[q[i].write] = u

QueueInv ==
    /\ \A u \in Users : Ascending(queue[u])
    /\ \A u \in Users : Owned(queue[u], u)
    /\ \A u \in Users : \A i \in DOMAIN queue[u] : queue[u][i].id < nextId

PrefixOf(p, q) == Len(p) <= Len(q) /\ \A i \in 1..Len(p) : p[i] = q[i]

CallbackInv ==
    \A u \in Users : \A b \in callbacks[u] :
        \E i \in DOMAIN queue[u] : queue[u][i] = b

\* What has left the queue has arrived.
Remembered ==
    \A w \in DOMAIN author :
        \/ w \in Arrived
        \/ \E i \in DOMAIN queue[author[w]] : queue[author[w]][i].write = w

\* The stream s by itself.
ShapeOf(s) ==
    /\ s.state # "open" => s.hello = "none" /\ s.status = "none"
    /\ s.hello # "done" => s.sent = << >> /\ s.answers = << >>
    /\ s.status = "permanent" => s.hello = "done"

\* What the stream s has sent and not read, over the pipeline p, when the
\* service has refused r.
Follows(s, p, r) ==
    /\ s.hello = "done" => PrefixOf(s.answers, p)
    /\ s.hello = "done" /\ s.status = "live" =>
           /\ Len(p) = Len(s.answers) + Len(s.sent)
           /\ \A i \in 1..Len(s.sent) : s.sent[i] = p[Len(s.answers) + i]
    /\ s.status = "permanent" =>
           /\ Len(s.answers) < Len(p)
           /\ p[Len(s.answers) + 1].write \in r

\* A stream is started for something, and is idle only with nothing to do.
Wanted(s, p) ==
    /\ s.state \in {"starting", "backoff"} => p # << >>
    /\ s.state = "open" /\ s.hello # "done" => p # << >>
    /\ s.idle => s.state = "open" /\ s.hello = "done" /\ p = << >>

Matches(s, p, r) == ShapeOf(s) /\ Follows(s, p, r) /\ Wanted(s, p)

Writers ==
    \A i \in DOMAIN stream.sent :
        /\ stream.sent[i].write \in DOMAIN author
        /\ author[stream.sent[i].write] = user

AnswersReached == \A i \in DOMAIN stream.answers : stream.answers[i].write \in reached

\* The earlier writes of w's user.
Before(w) == {v \in 1..(w - 1) : author[v] = author[w]}

\* When the requests s arrive in order, so do the writes of every user.
InOrder(s) ==
    \A i \in DOMAIN s :
        /\ s[i].write \in DOMAIN author
        /\ \A v \in Before(s[i].write) :
               v \in Arrived \/ \E j \in DOMAIN s : j < i /\ s[j].write = v

IInv ==
    /\ TypeOK
    /\ QueueInv
    /\ PrefixOf(pipeline, queue[user])
    /\ CallbackInv
    /\ Remembered
    /\ Matches(stream, pipeline, refused)
    /\ Writers
    /\ AnswersReached
    /\ InOrder(late)
    /\ AnswersAreTrue
----------------------------------------------------------------------------
(* The helpers on rows.                                                    *)

LEMMA Rows ==
    ASSUME NEW q \in Seq(Batch)
    PROVE  /\ Len(q) \in Nat
           /\ DOMAIN q = 1..Len(q)
           /\ \A i \in 1..Len(q) : q[i] \in Batch
           /\ \A i \in 1..Len(q) : q[i].id \in Nat \ {0} /\ q[i].write \in Nat
<1>1. Len(q) \in Nat /\ DOMAIN q = 1..Len(q)
  BY LenProperties
<1>2. \A i \in 1..Len(q) : q[i] \in Batch
  BY ElementOfSeq
<1>3. \A b \in Batch : b.id \in Nat \ {0} /\ b.write \in Nat
  BY PipelineAssumption DEF Batch, Writes
<1> QED BY <1>1, <1>2, <1>3

\* The rows up to the last one of a prefix are the prefix.
LEMMA RowsOfPrefix ==
    ASSUME NEW q \in Seq(Batch), NEW p \in Seq(Batch), Ascending(q), PrefixOf(p, q)
    PROVE  RowsUpTo(q, LastId(p)) = Len(p)
<1> DEFINE P(n) == /\ \A i \in 1..n : q[i].id <= LastId(p)
                   /\ n < Len(q) => q[n + 1].id > LastId(p)
<1>r. /\ Len(q) \in Nat /\ Len(p) \in Nat /\ DOMAIN q = 1..Len(q)
      /\ \A i \in 1..Len(q) : q[i].id \in Nat \ {0}
  BY Rows
<1>1. Len(p) \in 0..Len(q)
  BY <1>r DEF PrefixOf
<1>l. \/ p = << >> /\ Len(p) = 0 /\ LastId(p) = 0
      \/ p # << >> /\ Len(p) \in 1..Len(q) /\ LastId(p) = q[Len(p)].id
  <2>1. p = << >> => Len(p) = 0 /\ LastId(p) = 0
    BY DEF LastId
  <2>2. p # << >> => Len(p) \in 1..Len(q) /\ LastId(p) = q[Len(p)].id
    BY <1>r, EmptySeq DEF LastId, PrefixOf
  <2> QED BY <2>1, <2>2
<1>a. \A i, j \in 1..Len(q) : i < j => q[i].id < q[j].id
  BY <1>r DEF Ascending
<1>2. P(Len(p))
  BY <1>1, <1>r, <1>l, <1>a
<1>3. ASSUME NEW n \in 0..Len(q), P(n)
      PROVE  n = Len(p)
  <2>1. ASSUME n < Len(p)
        PROVE  FALSE
    <3>1. n + 1 \in 1..Len(q) /\ Len(p) \in 1..Len(q) /\ n < Len(q)
      BY <2>1, <1>1, <1>r
    <3>2. q[n + 1].id > LastId(p)
      BY <3>1, <1>3
    <3>3. LastId(p) = q[Len(p)].id
      BY <2>1, <1>l
    <3>4. n + 1 = Len(p) \/ q[n + 1].id < q[Len(p)].id
      BY <2>1, <3>1, <1>r, <1>a
    <3>5. q[n + 1].id \in Nat /\ q[Len(p)].id \in Nat
      BY <3>1, <1>r
    <3> QED BY <3>2, <3>3, <3>4, <3>5
  <2>2. ASSUME Len(p) < n
        PROVE  FALSE
    <3>1. Len(p) + 1 \in 1..n /\ Len(p) + 1 \in 1..Len(q)
      BY <2>2, <1>1, <1>r, <1>3
    <3>2. q[Len(p) + 1].id <= LastId(p)
      BY <3>1, <1>3
    <3>3. q[Len(p) + 1].id > LastId(p)
      BY <3>1, <1>2, <1>r
    <3>4. q[Len(p) + 1].id \in Nat /\ LastId(p) \in Nat
      BY <3>1, <1>r, <1>l
    <3> QED BY <3>2, <3>3, <3>4
  <2> QED BY <2>1, <2>2, <1>r
<1>4. RowsUpTo(q, LastId(p)) = CHOOSE n \in 0..Len(q) : P(n)
  BY DEF RowsUpTo
<1> HIDE DEF P
<1> QED BY <1>1, <1>2, <1>3, <1>4

\* The head of the queue is found by its number, and what remains is the rest.
LEMMA RemovesHead ==
    ASSUME NEW q \in Seq(Batch), q # << >>, Ascending(q)
    PROVE  RemoveBatch(q, Head(q).id) = Tail(q)
<1>1. 1 \in DOMAIN q /\ q[1] = Head(q)
  OBVIOUS
<1>2. \A i \in DOMAIN q : q[i].id = Head(q).id => i = 1
  BY <1>1, Rows DEF Ascending
<1> DEFINE n == CHOOSE i \in DOMAIN q : q[i].id = Head(q).id
<1>3. n = 1
  BY <1>1, <1>2
<1>4. RemoveBatch(q, Head(q).id) = SubSeq(q, 1, n - 1) \o SubSeq(q, n + 1, Len(q))
  BY DEF RemoveBatch
<1> HIDE DEF n
<1>5. SubSeq(q, 1, n - 1) = << >> /\ SubSeq(q, n + 1, Len(q)) = Tail(q)
  BY <1>1, <1>3
<1>6. << >> \o Tail(q) = Tail(q)
  OBVIOUS
<1> QED BY <1>4, <1>5, <1>6
----------------------------------------------------------------------------
(* FillWritePipeline keeps the pipeline a prefix and touches of the stream *)
(* only what it has to send, the timer and the start.                      *)
LEMMA Filling ==
    ASSUME NEW q \in Seq(Batch), NEW p \in Seq(Batch), NEW s \in Stream,
           Ascending(q), PrefixOf(p, q), FillWritePipeline(q, p, s)
    PROVE  \E more \in Seq(Batch) :
              /\ pipeline' = p \o more
              /\ PrefixOf(p \o more, q)
              /\ stream' \in Stream
              /\ stream'.hello = s.hello
              /\ stream'.status = s.status
              /\ stream'.answers = s.answers
              /\ stream'.state = "open" <=> s.state = "open"
              /\ stream'.sent = IF s.state = "open" /\ s.hello = "done"
                                THEN s.sent \o more ELSE s.sent
              /\ p \o more = << >> => stream'.state = s.state
              /\ stream'.idle =>
                     \/ p \o more = << >> /\ s.state = "open"
                     \/ s.idle /\ ~(s.state = "open" /\ s.hello = "done" /\ more # << >>)
<1> DEFINE last == Smaller(Len(q), Len(p) + (MaxPending - Len(p)))
           more == SubSeq(q, Len(p) + 1, last)
<1>1. NextBatches(q, p) = more
  BY RowsOfPrefix DEF NextBatches
<1>2. last \in Int /\ last <= Len(q)
  BY PipelineAssumption DEF Smaller
<1>3. /\ more \in Seq(Batch)
      /\ Len(more) = IF Len(p) + 1 <= last THEN last - Len(p) ELSE 0
      /\ \A i \in 1..Len(more) : more[i] = q[Len(p) + i]
  BY <1>2 DEF PrefixOf
<1>4. PrefixOf(p \o more, q)
  BY <1>2, <1>3, ConcatProperties DEF PrefixOf
<1> HIDE DEF more
<1>5. /\ pipeline' = p \o more
      /\ stream' = StartIfNeeded(MarkIdle(Send(s, more), p \o more), p \o more)
  BY <1>1 DEF FillWritePipeline
<1> DEFINE t == Send(s, more)
           r == MarkIdle(t, p \o more)
<1>6. /\ t \in Stream /\ t.hello = s.hello /\ t.status = s.status
      /\ t.answers = s.answers /\ t.state = s.state
      /\ t.sent = IF s.state = "open" /\ s.hello = "done" THEN s.sent \o more ELSE s.sent
      /\ t.idle => s.idle /\ ~(s.state = "open" /\ s.hello = "done" /\ more # << >>)
  <2> DEFINE sending == [s EXCEPT !.sent = @ \o more, !.idle = FALSE]
  <2>1. s.sent \o more \in Seq(Batch)
    BY <1>3, ConcatProperties DEF Stream
  <2>2. CASE s.state = "open" /\ s.hello = "done" /\ more # << >>
    <3>1. t = sending
      BY <2>2 DEF Send
    <3>2. /\ sending \in Stream /\ sending.hello = s.hello
          /\ sending.status = s.status /\ sending.answers = s.answers
          /\ sending.state = s.state /\ sending.sent = s.sent \o more
          /\ ~sending.idle
      BY <2>1 DEF Stream
    <3> QED BY <2>2, <3>1, <3>2
  <2>3. CASE s.state = "open" /\ s.hello = "done" /\ more = << >>
    <3>1. t = s
      BY <2>3 DEF Send
    <3>2. s.sent \o << >> = s.sent
      BY ConcatProperties DEF Stream
    <3> QED BY <2>3, <3>1, <3>2
  <2>4. CASE ~(s.state = "open" /\ s.hello = "done")
    <3>1. t = s
      BY <2>4 DEF Send
    <3> QED BY <2>4, <3>1
  <2> QED BY <2>2, <2>3, <2>4
<1> HIDE DEF t
<1>7. /\ r \in Stream /\ r.hello = t.hello /\ r.status = t.status
      /\ r.answers = t.answers /\ r.state = t.state /\ r.sent = t.sent
      /\ r.idle => t.idle \/ (p \o more = << >> /\ t.state = "open")
  BY <1>6 DEF MarkIdle, Stream
<1> HIDE DEF r
<1>8. /\ stream' \in Stream /\ stream'.hello = r.hello /\ stream'.status = r.status
      /\ stream'.answers = r.answers /\ stream'.sent = r.sent
      /\ stream'.state = "open" <=> r.state = "open"
      /\ p \o more = << >> => stream'.state = r.state
      /\ stream'.idle = r.idle
  BY <1>5, <1>7 DEF StartIfNeeded, Stream, r, t
<1> QED BY <1>3, <1>4, <1>5, <1>6, <1>7, <1>8

\* What is sent comes from what was sent and from the queue, and the stream
\* still matches the pipeline.
LEMMA FillingMatches ==
    ASSUME NEW q \in Seq(Batch), NEW p \in Seq(Batch), NEW s \in Stream, NEW r,
           Ascending(q), PrefixOf(p, q), Matches(s, p, r), FillWritePipeline(q, p, s)
    PROVE  /\ pipeline' \in Seq(Batch)
           /\ PrefixOf(pipeline', q)
           /\ stream' \in Stream
           /\ Matches(stream', pipeline', r)
           /\ stream'.answers = s.answers
           /\ \A i \in DOMAIN stream'.sent :
                  \/ i \in DOMAIN s.sent /\ stream'.sent[i] = s.sent[i]
                  \/ \E j \in DOMAIN q : stream'.sent[i] = q[j]
<1>1. PICK more \in Seq(Batch) :
         /\ pipeline' = p \o more
         /\ PrefixOf(p \o more, q)
         /\ stream' \in Stream
         /\ stream'.hello = s.hello
         /\ stream'.status = s.status
         /\ stream'.answers = s.answers
         /\ stream'.state = "open" <=> s.state = "open"
         /\ stream'.sent = IF s.state = "open" /\ s.hello = "done"
                           THEN s.sent \o more ELSE s.sent
         /\ p \o more = << >> => stream'.state = s.state
         /\ stream'.idle =>
                \/ p \o more = << >> /\ s.state = "open"
                \/ s.idle /\ ~(s.state = "open" /\ s.hello = "done" /\ more # << >>)
  BY Filling DEF Matches
<1> DEFINE t == stream'
           w == p \o more
           u == s.sent \o more
<1>t. /\ t \in Stream /\ t.hello = s.hello /\ t.status = s.status
      /\ t.answers = s.answers /\ (t.state = "open" <=> s.state = "open")
      /\ t.sent = IF s.state = "open" /\ s.hello = "done" THEN u ELSE s.sent
      /\ w = << >> => t.state = s.state
      /\ t.idle => \/ w = << >> /\ s.state = "open"
                   \/ s.idle /\ ~(s.state = "open" /\ s.hello = "done" /\ more # << >>)
  BY <1>1
<1> HIDE DEF t
<1>2. /\ s.sent \in Seq(Batch) /\ s.answers \in Seq(Batch)
      /\ Len(s.sent) \in Nat /\ Len(s.answers) \in Nat /\ Len(p) \in Nat
      /\ Len(more) \in Nat /\ Len(q) \in Nat
      /\ DOMAIN s.sent = 1..Len(s.sent) /\ DOMAIN q = 1..Len(q)
  BY Rows DEF Stream
<1>3. /\ w \in Seq(Batch) /\ Len(w) = Len(p) + Len(more)
      /\ \A i \in 1..Len(p) : w[i] = p[i]
      /\ \A i \in 1..Len(more) : w[Len(p) + i] = more[i]
      /\ u \in Seq(Batch)
      /\ Len(u) = Len(s.sent) + Len(more)
      /\ \A i \in 1..Len(s.sent) : (u)[i] = s.sent[i]
      /\ \A i \in 1..Len(more) : (u)[Len(s.sent) + i] = more[i]
  BY <1>2, ConcatProperties
<1>4. w = << >> => p = << >> /\ more = << >>
  BY <1>2, <1>3, EmptySeq
<1> HIDE DEF w, u
<1>5. ShapeOf(t)
  BY <1>t DEF ShapeOf, Matches
<1>6. Follows(t, w, r)
  <2>1. t.hello = "done" => PrefixOf(t.answers, w)
    BY <1>t, <1>2, <1>3 DEF Matches, Follows, PrefixOf
  <2>2. ASSUME t.hello = "done", t.status = "live"
        PROVE  /\ Len(w) = Len(t.answers) + Len(t.sent)
               /\ \A i \in 1..Len(t.sent) : t.sent[i] = w[Len(t.answers) + i]
    <3>1. t.sent = u /\ t.answers = s.answers
      BY <1>t, <2>2 DEF Matches, ShapeOf
    <3>2. /\ Len(p) = Len(s.answers) + Len(s.sent)
          /\ \A i \in 1..Len(s.sent) : s.sent[i] = p[Len(s.answers) + i]
      BY <1>t, <2>2 DEF Matches, Follows
    <3> DEFINE a == Len(s.answers)
               b == Len(s.sent)
               m == Len(more)
    <3>3. /\ a \in Nat /\ b \in Nat /\ m \in Nat
          /\ Len(p) = a + b /\ Len(w) = Len(p) + m /\ Len(u) = b + m
      BY <1>2, <1>3, <3>2
    <3>4. /\ \A i \in 1..b : u[i] = s.sent[i] /\ s.sent[i] = p[a + i]
          /\ \A i \in 1..m : u[b + i] = more[i] /\ w[Len(p) + i] = more[i]
          /\ \A i \in 1..Len(p) : w[i] = p[i]
      BY <1>3, <3>2
    <3>5. Len(t.answers) = a /\ Len(t.sent) = Len(u)
      BY <3>1
    <3> HIDE DEF a, b, m
    <3>6. Len(w) = a + (b + m)
      BY <3>3
    <3>7. ASSUME NEW i \in 1..(b + m)
          PROVE  u[i] = w[a + i]
      <4>1. CASE i <= b
        <5>1. i \in 1..b /\ a + i \in 1..Len(p)
          BY <4>1, <3>3
        <5> QED BY <5>1, <3>4
      <4>2. CASE ~(i <= b)
        <5>1. i - b \in 1..m /\ b + (i - b) = i /\ Len(p) + (i - b) = a + i
          BY <4>2, <3>3
        <5> QED BY <5>1, <3>4
      <4> QED BY <4>1, <4>2
    <3> QED BY <3>1, <3>3, <3>5, <3>6, <3>7
  <2>3. ASSUME t.status = "permanent"
        PROVE  Len(t.answers) < Len(w) /\ w[Len(t.answers) + 1].write \in r
    <3>1. Len(s.answers) < Len(p) /\ p[Len(s.answers) + 1].write \in r
      BY <2>3, <1>t DEF Matches, Follows
    <3>2. Len(s.answers) + 1 \in 1..Len(p)
      BY <3>1, <1>2
    <3> QED BY <3>1, <3>2, <1>t, <1>2, <1>3
  <2> QED BY <2>1, <2>2, <2>3 DEF Follows
<1>7. Wanted(t, w)
  <2>1. t.state \in {"starting", "backoff"} => w # << >>
    BY <1>t, <1>4 DEF Matches, Wanted
  <2>2. t.state = "open" /\ t.hello # "done" => w # << >>
    BY <1>t, <1>4 DEF Matches, Wanted
  <2>3. ASSUME t.idle
        PROVE  t.state = "open" /\ t.hello = "done" /\ w = << >>
    <3>1. CASE w = << >> /\ s.state = "open"
      BY <3>1, <2>2, <1>t
    <3>2. CASE s.idle /\ ~(s.state = "open" /\ s.hello = "done" /\ more # << >>)
      <4>1. s.state = "open" /\ s.hello = "done" /\ p = << >> /\ more = << >>
        BY <3>2 DEF Matches, Wanted
      <4>2. w = << >>
        BY <4>1, <1>2, <1>3, EmptySeq
      <4> QED BY <4>1, <4>2, <1>t
    <3> QED BY <2>3, <3>1, <3>2, <1>t
  <2> QED BY <2>1, <2>2, <2>3 DEF Wanted
<1>8. ASSUME NEW i \in DOMAIN t.sent
      PROVE  \/ i \in DOMAIN s.sent /\ t.sent[i] = s.sent[i]
             \/ \E j \in DOMAIN q : t.sent[i] = q[j]
  <2>1. CASE t.sent = s.sent
    BY <2>1
  <2>2. CASE t.sent = u
    <3>1. DOMAIN t.sent = 1..Len(s.sent) + Len(more)
      BY <2>2, <1>3, LenProperties
    <3>2. CASE i <= Len(s.sent)
      BY <3>1, <3>2, <2>2, <1>2, <1>3
    <3>3. CASE ~(i <= Len(s.sent))
      <4> DEFINE k == i - Len(s.sent)
      <4>1. k \in 1..Len(more) /\ i = Len(s.sent) + k
        BY <3>1, <3>3, <1>2
      <4> HIDE DEF k
      <4>2. t.sent[i] = w[Len(p) + k]
        BY <4>1, <2>2, <1>3
      <4>3. Len(p) + k \in 1..Len(w) /\ Len(w) <= Len(q)
        BY <4>1, <1>1, <1>2, <1>3 DEF PrefixOf, w
      <4>4. w[Len(p) + k] = q[Len(p) + k] /\ Len(p) + k \in DOMAIN q
        BY <4>3, <1>1, <1>2, <1>3 DEF PrefixOf, w
      <4> QED BY <4>2, <4>4
    <3> QED BY <3>2, <3>3
  <2> QED BY <2>1, <2>2, <1>t
<1>9. pipeline' = w
  BY <1>1 DEF w
<1>10. PrefixOf(w, q)
  BY <1>1 DEF w
<1>11. pipeline' \in Seq(Batch) /\ PrefixOf(pipeline', q) /\ Matches(t, pipeline', r)
  BY <1>3, <1>5, <1>6, <1>7, <1>9, <1>10 DEF Matches
<1> QED BY <1>8, <1>11, <1>t DEF t
----------------------------------------------------------------------------
(* The facts that several steps share.                                     *)

LEMMA QueueRows ==
    ASSUME IInv, NEW u \in Users
    PROVE  /\ queue[u] \in Seq(Batch)
           /\ Ascending(queue[u])
           /\ \A i \in DOMAIN queue[u] :
                  /\ queue[u][i].write \in DOMAIN author
                  /\ author[queue[u][i].write] = u
                  /\ queue[u][i].id < nextId
BY DEF IInv, TypeOK, QueueInv, Owned

LEMMA Authors ==
    ASSUME IInv
    PROVE  /\ Len(author) \in Nat
           /\ DOMAIN author = 1..Len(author)
           /\ \A w \in DOMAIN author : author[w] \in Users /\ w \in Nat
<1>1. author \in Seq(Users)
  BY DEF IInv, TypeOK
<1>2. Len(author) \in Nat /\ DOMAIN author = 1..Len(author)
  BY <1>1, LenProperties
<1>3. \A w \in 1..Len(author) : author[w] \in Users
  BY <1>1, ElementOfSeq
<1> QED BY <1>2, <1>3

\* The requests of a live call arrive in order: what its user wrote before
\* one of them has arrived, is answered, or is in front of it.
LEMMA SentInOrder ==
    ASSUME IInv, stream.status = "live"
    PROVE  InOrder(stream.sent)
<1> DEFINE q == queue[user]
           S == stream.sent
           A == stream.answers
           a == Len(A)
<1>1. /\ user \in Users /\ pipeline \in Seq(Batch) /\ stream \in Stream
      /\ PrefixOf(pipeline, q) /\ Matches(stream, pipeline, refused)
      /\ Writers /\ AnswersReached /\ Remembered
  BY DEF IInv, TypeOK
<1>2. S \in Seq(Batch) /\ A \in Seq(Batch)
  BY <1>1 DEF Stream
<1>3. CASE stream.hello # "done"
  <2>1. S = << >>
    BY <1>1, <1>3 DEF Matches, ShapeOf
  <2>2. DOMAIN S = {}
    BY <2>1
  <2> QED BY <2>2 DEF InOrder
<1>4. CASE stream.hello = "done"
  <2>1. /\ Len(pipeline) = a + Len(S)
        /\ \A i \in 1..Len(S) : S[i] = pipeline[a + i]
        /\ PrefixOf(A, pipeline)
    BY <1>1, <1>4 DEF Matches, Follows
  <2>2. /\ a \in Nat /\ Len(S) \in Nat /\ Len(q) \in Nat
        /\ DOMAIN S = 1..Len(S) /\ DOMAIN q = 1..Len(q) /\ DOMAIN A = 1..a
        /\ \A k \in 1..Len(q) : q[k].write \in Nat
    BY <1>1, <1>2, Rows, QueueRows
  <2>3. /\ a + Len(S) <= Len(q)
        /\ \A i \in 1..Len(S) : S[i] = q[a + i]
        /\ \A i \in 1..a : A[i] = q[i]
    <3>1. \A k \in 1..Len(pipeline) : pipeline[k] = q[k]
      BY <1>1 DEF PrefixOf
    <3>2. \A i \in 1..a : A[i] = pipeline[i]
      BY <2>1 DEF PrefixOf
    <3>3. Len(pipeline) <= Len(q) /\ a <= Len(pipeline)
      BY <1>1, <2>1 DEF PrefixOf
    <3> DEFINE b == Len(S)
               n == Len(pipeline)
               m == Len(q)
    <3>4. a \in Nat /\ b \in Nat /\ m \in Nat /\ n = a + b /\ n <= m
      BY <2>1, <2>2, <3>3
    <3> HIDE DEF a, b, n, m
    <3>5. a + b <= m
      BY <3>4
    <3>6. \A i \in 1..b : a + i \in 1..n
      BY <3>4
    <3>7. \A i \in 1..a : i \in 1..n
      BY <3>4
    <3> USE DEF a, b, n, m
    <3> QED BY <2>1, <3>1, <3>2, <3>5, <3>6, <3>7
  <2>4. \A k, l \in DOMAIN q : k < l => q[k].write < q[l].write
    BY <1>1, QueueRows DEF Ascending
  <2>5. /\ \A i \in DOMAIN S : S[i].write \in DOMAIN author /\ author[S[i].write] = user
        /\ \A i \in 1..a : A[i].write \in Arrived
    BY <1>1, <2>2 DEF Writers, AnswersReached, Arrived
  <2>6. ASSUME NEW i \in DOMAIN S, NEW v \in Before(S[i].write)
        PROVE  v \in Arrived \/ \E j \in DOMAIN S : j < i /\ S[j].write = v
    <3> DEFINE w == S[i].write
    <3>1. /\ w \in DOMAIN author /\ author[w] = user
          /\ v \in DOMAIN author /\ author[v] = user /\ v < w /\ v \in Nat
      BY <2>5, Authors DEF Before
    <3>2. CASE v \in Arrived
      BY <3>2
    <3>3. CASE \E k \in DOMAIN q : q[k].write = v
      <4>1. PICK k \in DOMAIN q : q[k].write = v
        BY <3>3
      <4> DEFINE b == Len(S)
                 m == Len(q)
      <4>2. /\ a \in Nat /\ b \in Nat /\ m \in Nat /\ a + b <= m
            /\ i \in 1..b /\ k \in 1..m
        BY <2>2, <2>3
      <4>i. S[i] = q[a + i]
        BY <2>2, <2>3
      <4> HIDE DEF a, b, m
      <4>3. a + i \in 1..m
        BY <4>2
      <4>4. k < a + i
        <5>1. q[a + i].write = w
          BY <4>i
        <5>2. a + i \in DOMAIN q
          BY <4>3, <2>2 DEF m
        <5>3. a + i \in Nat /\ k \in Nat
          BY <4>2
        <5>4. k # a + i
          BY <4>1, <5>1, <3>1, <2>2
        <5>5. ~(a + i < k)
          BY <2>4, <5>1, <5>2, <4>1, <3>1, Authors
        <5> QED BY <5>3, <5>4, <5>5
      <4>5. CASE k <= a
        <5>1. k \in 1..a
          BY <4>2, <4>5
        <5>2. A[k] = q[k]
          BY <5>1, <2>3
        <5> QED BY <5>1, <5>2, <4>1, <2>5
      <4>6. CASE ~(k <= a)
        <5>1. k - a \in 1..b /\ k - a < i /\ a + (k - a) = k
          BY <4>2, <4>4, <4>6
        <5>2. S[k - a] = q[k] /\ k - a \in DOMAIN S
          BY <5>1, <2>2, <2>3 DEF b
        <5> QED BY <5>1, <5>2, <4>1
      <4> QED BY <4>5, <4>6
    <3> QED BY <1>1, <3>1, <3>2, <3>3 DEF Remembered
  <2> QED BY <2>5, <2>6 DEF InOrder
<1> QED BY <1>3, <1>4

\* The requests that are still under way keep their order when a call is
\* given up.
LEMMA GivenUp ==
    ASSUME IInv, GiveUpCall, UNCHANGED <<author, reached, refused>>
    PROVE  late' \in Seq(Batch) /\ InOrder(late)'
<1>1. late \in Seq(Batch) /\ stream.sent \in Seq(Batch) /\ InOrder(late)
  BY DEF IInv, TypeOK, Stream
<1>2. \/ late' = late
      \/ late' = stream.sent /\ InOrder(stream.sent)
  BY SentInOrder DEF GiveUpCall
<1>3. InOrder(late')
  BY <1>1, <1>2
<1>4. InOrder(late)'
  BY <1>3 DEF InOrder, Before, Arrived
<1> QED BY <1>1, <1>2, <1>4

LEMMA LateKept ==
    ASSUME IInv, UNCHANGED <<late, author>>,
           reached \subseteq reached', refused \subseteq refused'
    PROVE  late' \in Seq(Batch) /\ InOrder(late)'
BY DEF IInv, TypeOK, InOrder, Before, Arrived

\* What a step does to the device that leaves the queue as it is.
LEMMA QueueKept ==
    ASSUME IInv, UNCHANGED <<queue, author, answered>>,
           \/ callbacks' = callbacks
           \/ callbacks' = [u \in Users |-> {}],
           \A u \in Users : \A i \in DOMAIN queue[u] : queue[u][i].id < nextId',
           reached \subseteq reached', refused \subseteq refused'
    PROVE  /\ queue' \in [Users -> Seq(Batch)]
           /\ callbacks' \in [Users -> SUBSET Batch]
           /\ author' \in Seq(Users) /\ Len(author') \in 0..MaxWrites
           /\ answered' \in [Writes -> {"nothing", "ok", "error"}]
           /\ QueueInv' /\ CallbackInv' /\ Remembered' /\ AnswersAreTrue'
<1>1. /\ queue' \in [Users -> Seq(Batch)]
      /\ callbacks' \in [Users -> SUBSET Batch]
      /\ author' \in Seq(Users) /\ Len(author') \in 0..MaxWrites
      /\ answered' \in [Writes -> {"nothing", "ok", "error"}]
  BY DEF IInv, TypeOK
<1>2. QueueInv'
  BY DEF IInv, QueueInv, Ascending, Owned
<1>3. CallbackInv'
  BY DEF IInv, CallbackInv
<1>4. Remembered'
  BY DEF IInv, Remembered, Arrived
<1>5. AnswersAreTrue'
  BY DEF IInv, AnswersAreTrue, Arrived
<1> QED BY <1>1, <1>2, <1>3, <1>4, <1>5

\* A stream without a call matches any pipeline.
LEMMA ClosedMatches ==
    ASSUME NEW p \in Seq(Batch), NEW r, NEW state \in {"initial", "error"}
    PROVE  /\ Closed(state) \in Stream
           /\ Matches(Closed(state), p, r)
           /\ Closed(state).sent = << >> /\ Closed(state).answers = << >>
<1>1. << >> \in Seq(Batch)
  BY EmptySeq
<1>2. /\ Closed(state) \in Stream
      /\ Closed(state).sent = << >> /\ Closed(state).answers = << >>
  BY <1>1 DEF Closed, Stream
<1>3. Matches(Closed(state), p, r)
  BY DEF Closed, Matches, ShapeOf, Follows, Wanted
<1> QED BY <1>2, <1>3

LEMMA StartedMatches ==
    ASSUME NEW p \in Seq(Batch), NEW r, stream' = StartIfNeeded(Closed("error"), p)
    PROVE  /\ stream' \in Stream
           /\ Matches(stream', p, r)
           /\ stream'.sent = << >> /\ stream'.answers = << >>
<1>1. CASE p = << >>
  BY <1>1, ClosedMatches DEF StartIfNeeded
<1>2. CASE p # << >>
  <2> DEFINE c == Closed("error")
             t == [c EXCEPT !.state = "backoff"]
  <2>1. stream' = t
    BY <1>2 DEF StartIfNeeded, Closed
  <2>2. /\ t \in Stream /\ t.sent = << >> /\ t.answers = << >>
        /\ t.hello = "none" /\ t.status = "none" /\ t.state = "backoff" /\ ~t.idle
    BY ClosedMatches DEF Closed, Stream
  <2> HIDE DEF t
  <2>3. Matches(t, p, r)
    BY <2>2, <1>2 DEF Matches, ShapeOf, Follows, Wanted
  <2> QED BY <2>1, <2>2, <2>3
<1> QED BY <1>1, <1>2

\* After a restart the pipeline is the start of the queue, and nothing is sent.
LEMMA Restarted ==
    ASSUME IInv, NEW u \in Users, user' = u, RestartNetwork(queue[u]),
           UNCHANGED <<queue, author, reached, refused>>
    PROVE  /\ pipeline' \in Seq(Batch) /\ stream' \in Stream
           /\ PrefixOf(pipeline', queue'[user'])
           /\ Matches(stream', pipeline', refused')
           /\ Writers' /\ AnswersReached'
<1> DEFINE q == queue[u]
           c == Closed("initial")
<1>1. q \in Seq(Batch) /\ Ascending(q)
  BY QueueRows
<1>2. << >> \in Seq(Batch) /\ PrefixOf(<< >>, q)
  BY <1>1, EmptySeq, LenProperties DEF PrefixOf
<1>3. /\ c \in Stream /\ Matches(c, << >>, refused)
      /\ c.sent = << >> /\ c.answers = << >>
  BY <1>2, ClosedMatches
<1>4. FillWritePipeline(q, << >>, c)
  BY DEF RestartNetwork
<1> HIDE DEF q, c
<1>5. /\ pipeline' \in Seq(Batch) /\ PrefixOf(pipeline', q) /\ stream' \in Stream
      /\ Matches(stream', pipeline', refused) /\ stream'.answers = c.answers
      /\ \A i \in DOMAIN stream'.sent :
             \/ i \in DOMAIN c.sent /\ stream'.sent[i] = c.sent[i]
             \/ \E j \in DOMAIN q : stream'.sent[i] = q[j]
  BY <1>1, <1>2, <1>3, <1>4, FillingMatches
<1>6. DOMAIN c.sent = {} /\ DOMAIN stream'.answers = {}
  BY <1>3, <1>5
<1>7. \A i \in DOMAIN stream'.sent :
          stream'.sent[i].write \in DOMAIN author /\ author[stream'.sent[i].write] = u
  BY <1>5, <1>6, QueueRows DEF q
<1>8. Writers' /\ AnswersReached'
  BY <1>6, <1>7 DEF Writers, AnswersReached
<1> QED BY <1>5, <1>8 DEF q
----------------------------------------------------------------------------
(* A batch is acknowledged or rejected.                                    *)

LEMMA FrontIsFirst ==
    ASSUME IInv, pipeline # << >>
    PROVE  /\ queue[user] \in Seq(Batch) /\ queue[user] # << >>
           /\ Head(pipeline) = Head(queue[user])
           /\ Head(pipeline) = pipeline[1] /\ Head(queue[user]) = queue[user][1]
           /\ 1 \in DOMAIN queue[user]
           /\ RemoveBatch(queue[user], Head(pipeline).id) = Tail(queue[user])
<1> DEFINE q == queue[user]
<1>1. /\ q \in Seq(Batch) /\ pipeline \in Seq(Batch)
      /\ Ascending(q) /\ PrefixOf(pipeline, q)
  BY QueueRows DEF IInv, TypeOK
<1> HIDE DEF q
<1>2. Len(pipeline) \in Nat /\ Len(q) \in Nat /\ 1 <= Len(pipeline) /\ DOMAIN q = 1..Len(q)
  BY <1>1, LenProperties, EmptySeq
<1>3. 1 \in 1..Len(pipeline) /\ 1 \in 1..Len(q)
  BY <1>1, <1>2 DEF PrefixOf
<1>4. pipeline[1] = q[1] /\ q # << >>
  BY <1>1, <1>3, EmptySeq DEF PrefixOf
<1>5. Head(pipeline) = pipeline[1] /\ Head(q) = q[1]
  BY <1>1, <1>4
<1>6. RemoveBatch(q, Head(q).id) = Tail(q)
  BY <1>1, <1>4, RemovesHead
<1> QED BY <1>1, <1>2, <1>3, <1>4, <1>5, <1>6 DEF q

\* The rows of a tail.
LEMMA TailRows ==
    ASSUME NEW q \in Seq(Batch), q # << >>
    PROVE  /\ Tail(q) \in Seq(Batch)
           /\ Len(q) \in Nat \ {0} /\ Len(Tail(q)) = Len(q) - 1
           /\ DOMAIN Tail(q) = 1..(Len(q) - 1) /\ DOMAIN q = 1..Len(q)
           /\ \A i \in DOMAIN Tail(q) : i + 1 \in DOMAIN q /\ Tail(q)[i] = q[i + 1]
           /\ \A i \in DOMAIN q : i # 1 => i - 1 \in DOMAIN Tail(q) /\ Tail(q)[i - 1] = q[i]
<1>1. /\ Tail(q) \in Seq(Batch) /\ Len(q) \in Nat \ {0}
      /\ Len(Tail(q)) = Len(q) - 1
      /\ \A i \in 1..Len(Tail(q)) : Tail(q)[i] = q[i + 1]
  BY HeadTailProperties, LenProperties, EmptySeq
<1> DEFINE n == Len(q)
           t == Tail(q)
<1>2. /\ n \in Nat \ {0} /\ DOMAIN t = 1..(n - 1) /\ DOMAIN q = 1..n
      /\ \A i \in 1..(n - 1) : t[i] = q[i + 1]
  BY <1>1, LenProperties
<1> HIDE DEF n, t
<1>3. \A i \in 1..(n - 1) : i + 1 \in 1..n
  BY <1>2
<1>4. \A i \in 1..n : i # 1 => i - 1 \in 1..(n - 1) /\ (i - 1) + 1 = i
  BY <1>2
<1>5. \A i \in DOMAIN q : i # 1 => i - 1 \in DOMAIN t /\ t[i - 1] = q[i]
  BY <1>2, <1>4
<1>6. \A i \in DOMAIN t : i + 1 \in DOMAIN q /\ t[i] = q[i + 1]
  BY <1>2, <1>3
<1> QED BY <1>1, <1>2, <1>5, <1>6 DEF n, t

\* The device when the front has been answered and has arrived.
LEMMA FrontForgotten ==
    ASSUME IInv, pipeline # << >>, NEW answer \in {"ok", "error"},
           queue' = [queue EXCEPT ![user] = RemoveBatch(queue[user], Head(pipeline).id)],
           NotifyUser(user, Head(pipeline).id, answer),
           Head(pipeline).write \in Arrived,
           answer = "ok" => Head(pipeline).write \in reached,
           UNCHANGED <<nextId, author, reached, refused>>
    PROVE  /\ queue' \in [Users -> Seq(Batch)]
           /\ callbacks' \in [Users -> SUBSET Batch]
           /\ answered' \in [Writes -> {"nothing", "ok", "error"}]
           /\ QueueInv' /\ CallbackInv' /\ Remembered' /\ AnswersAreTrue'
<1> DEFINE q == queue[user]
           front == Head(pipeline)
<1>1. /\ q \in Seq(Batch) /\ q # << >> /\ front = q[1] /\ 1 \in DOMAIN q
      /\ RemoveBatch(q, front.id) = Tail(q)
  BY FrontIsFirst
<1>2. /\ queue \in [Users -> Seq(Batch)] /\ user \in Users
      /\ callbacks \in [Users -> SUBSET Batch]
      /\ answered \in [Writes -> {"nothing", "ok", "error"}]
      /\ QueueInv /\ CallbackInv /\ Remembered /\ AnswersAreTrue
  BY DEF IInv, TypeOK
<1> DEFINE told == {b \in callbacks[user] : b.id = front.id}
<1>3. /\ callbacks' = [callbacks EXCEPT ![user] = @ \ told]
      /\ answered' = [w \in Writes |->
             IF \E b \in told : b.write = w THEN answer ELSE answered[w]]
  BY DEF NotifyUser
<1>4. Ascending(q) /\ Owned(q, user) /\ \A i \in DOMAIN q : q[i].id < nextId /\ q[i] \in Batch
  BY <1>1, <1>2, Rows DEF QueueInv
<1>5. \A i \in DOMAIN q : q[i].id = front.id => i = 1
  BY <1>1, <1>4, Rows DEF Ascending
<1>6. \A b \in told : b = front
  BY <1>2, <1>5, <1>1 DEF CallbackInv
<1>7. /\ Tail(q) \in Seq(Batch)
      /\ \A i \in DOMAIN Tail(q) : i \in Nat /\ i + 1 \in DOMAIN q /\ Tail(q)[i] = q[i + 1]
      /\ \A i \in DOMAIN q : i # 1 => i - 1 \in DOMAIN Tail(q) /\ Tail(q)[i - 1] = q[i]
  BY <1>1, TailRows
<1> DEFINE t == Tail(q)
<1>8. queue' = [queue EXCEPT ![user] = t]
  BY <1>1
<1> HIDE DEF t, q, front, told
<1>9. /\ queue' \in [Users -> Seq(Batch)]
      /\ queue'[user] = t
      /\ \A u \in Users : u # user => queue'[u] = queue[u]
  BY <1>2, <1>7, <1>8 DEF t
<1>10. QueueInv'
  <2>1. Ascending(t)
    <3>1. ASSUME NEW i \in DOMAIN t, NEW j \in DOMAIN t, i < j
          PROVE  t[i].id < t[j].id /\ t[i].write < t[j].write
      <4>1. /\ i + 1 \in DOMAIN q /\ j + 1 \in DOMAIN q /\ i + 1 < j + 1
            /\ t[i] = q[i + 1] /\ t[j] = q[j + 1]
        BY <3>1, <1>7 DEF t
      <4> QED BY <4>1, <1>4 DEF Ascending
    <3> QED BY <3>1 DEF Ascending
  <2>2. \A i \in DOMAIN t : /\ t[i].write \in DOMAIN author
                            /\ author[t[i].write] = user
                            /\ t[i].id < nextId
    BY <1>4, <1>7 DEF Owned, t
  <2>3. \A u \in Users : Ascending(queue'[u])
    BY <1>2, <1>9, <2>1 DEF QueueInv
  <2>4. \A u \in Users : \A i \in DOMAIN queue'[u] :
            /\ queue'[u][i].write \in DOMAIN author
            /\ author[queue'[u][i].write] = u
            /\ queue'[u][i].id < nextId
    BY <1>2, <1>9, <2>2 DEF QueueInv, Owned
  <2> QED BY <2>3, <2>4 DEF QueueInv, Owned, Ascending
<1>11. callbacks' \in [Users -> SUBSET Batch] /\ CallbackInv'
  <2>1. /\ callbacks' \in [Users -> SUBSET Batch]
        /\ callbacks'[user] = callbacks[user] \ told
        /\ \A u \in Users : u # user => callbacks'[u] = callbacks[u]
    BY <1>2, <1>3
  <2>2. ASSUME NEW b \in callbacks'[user]
        PROVE  \E i \in DOMAIN t : t[i] = b
    <3>1. b \in callbacks[user] /\ b.id # front.id
      BY <2>1, <2>2 DEF told
    <3>2. PICK i \in DOMAIN q : q[i] = b
      BY <3>1, <1>2 DEF CallbackInv, q
    <3>3. i # 1
      BY <3>1, <3>2, <1>1
    <3> QED BY <3>2, <3>3, <1>7 DEF t
  <2>3. \A u \in Users : \A b \in callbacks'[u] :
            \E i \in DOMAIN queue'[u] : queue'[u][i] = b
    BY <1>2, <1>9, <2>1, <2>2 DEF CallbackInv
  <2> QED BY <2>1, <2>3 DEF CallbackInv
<1>12. Remembered'
  <2>1. ASSUME NEW w \in DOMAIN author
        PROVE  \/ w \in Arrived
               \/ \E i \in DOMAIN queue'[author[w]] : queue'[author[w]][i].write = w
    <3>1. author[w] \in Users
      BY Authors
    <3>2. CASE w \in Arrived
      BY <3>2
    <3>3. CASE w \notin Arrived /\ author[w] # user
      BY <3>1, <3>3, <1>2, <1>9 DEF Remembered
    <3>4. CASE w \notin Arrived /\ author[w] = user
      <4>1. PICK i \in DOMAIN q : q[i].write = w
        BY <3>4, <1>2 DEF Remembered, q
      <4>2. i # 1
        BY <4>1, <3>4, <1>1 DEF front
      <4>3. i - 1 \in DOMAIN t /\ t[i - 1].write = w
        BY <4>1, <4>2, <1>7 DEF t
      <4> QED BY <4>3, <3>4, <1>9
    <3> QED BY <3>2, <3>3, <3>4
  <2> QED BY <2>1 DEF Remembered, Arrived
<1>13. /\ answered' \in [Writes -> {"nothing", "ok", "error"}]
       /\ AnswersAreTrue'
  <2>1. answered' \in [Writes -> {"nothing", "ok", "error"}]
    BY <1>2, <1>3
  <2>2. ASSUME NEW w \in Writes
        PROVE  /\ answered'[w] = "ok" => w \in reached
               /\ answered'[w] = "error" => w \in Arrived
    <3>1. CASE \E b \in told : b.write = w
      <4>1. answered'[w] = answer /\ w = front.write
        BY <3>1, <1>3, <1>6
      <4> QED BY <4>1 DEF front
    <3>2. CASE ~\E b \in told : b.write = w
      <4>1. answered'[w] = answered[w]
        BY <3>2, <1>3
      <4> QED BY <4>1, <1>2 DEF AnswersAreTrue
    <3> QED BY <3>1, <3>2
  <2> QED BY <2>1, <2>2 DEF AnswersAreTrue, Arrived
<1> QED BY <1>9, <1>10, <1>11, <1>12, <1>13

\* The whole of the state then, when s is the stream that is left.
LEMMA FrontAnswered ==
    ASSUME IInv, pipeline # << >>, NEW answer \in {"ok", "error"}, NEW s \in Stream,
           queue' = [queue EXCEPT ![user] = RemoveBatch(queue[user], Head(pipeline).id)],
           NotifyUser(user, Head(pipeline).id, answer),
           FillWritePipeline(RemoveBatch(queue[user], Head(pipeline).id),
                             Tail(pipeline), s),
           Matches(s, Tail(pipeline), refused),
           s.sent = stream.sent \/ s.sent = << >>,
           \A i \in DOMAIN s.answers : s.answers[i].write \in reached,
           Head(pipeline).write \in Arrived,
           answer = "ok" => Head(pipeline).write \in reached,
           UNCHANGED <<user, nextId, service, author, faults>>
    PROVE  IInv'
<1>1. /\ queue' \in [Users -> Seq(Batch)]
      /\ callbacks' \in [Users -> SUBSET Batch]
      /\ answered' \in [Writes -> {"nothing", "ok", "error"}]
      /\ QueueInv' /\ CallbackInv' /\ Remembered' /\ AnswersAreTrue'
  BY FrontForgotten DEF service
<1> DEFINE q == queue[user]
           t == Tail(q)
           p == pipeline
<1>2. /\ q \in Seq(Batch) /\ q # << >> /\ RemoveBatch(q, Head(p).id) = t
      /\ p \in Seq(Batch) /\ PrefixOf(p, q) /\ user \in Users
  BY FrontIsFirst DEF IInv, TypeOK
<1>3. queue' = [queue EXCEPT ![user] = t] /\ queue'[user] = t
  BY <1>2 DEF IInv, TypeOK
<1>4. t \in Seq(Batch) /\ Ascending(t)
  BY <1>1, <1>2, <1>3, TailRows DEF QueueInv, Ascending
<1>5. Tail(p) \in Seq(Batch) /\ PrefixOf(Tail(p), t)
  <2>1. /\ Tail(p) \in Seq(Batch)
        /\ \A i \in 1..(Len(p) - 1) : i + 1 \in 1..Len(p) /\ Tail(p)[i] = p[i + 1]
        /\ Len(Tail(p)) = Len(p) - 1 /\ Len(p) \in Nat \ {0}
        /\ \A i \in 1..(Len(q) - 1) : t[i] = q[i + 1]
        /\ Len(t) = Len(q) - 1 /\ Len(q) \in Nat \ {0}
    BY <1>2, TailRows
  <2>2. Len(p) <= Len(q) /\ \A i \in 1..Len(p) : p[i] = q[i]
    BY <1>2 DEF PrefixOf
  <2> DEFINE m == Len(p)
             n == Len(q)
  <2>3. /\ m \in Nat \ {0} /\ n \in Nat \ {0} /\ m <= n
        /\ \A i \in 1..(m - 1) : i + 1 \in 1..m /\ Tail(p)[i] = p[i + 1]
        /\ \A i \in 1..(n - 1) : t[i] = q[i + 1]
        /\ Len(Tail(p)) = m - 1 /\ Len(t) = n - 1
        /\ \A i \in 1..m : p[i] = q[i]
    BY <2>1, <2>2
  <2> HIDE DEF m, n, t, p, q
  <2>4. \A i \in 1..(m - 1) : i \in 1..(n - 1)
    BY <2>3
  <2>5. \A i \in 1..(m - 1) : Tail(p)[i] = t[i]
    BY <2>3, <2>4
  <2>6. m - 1 <= n - 1
    BY <2>3
  <2> QED BY <2>1, <2>3, <2>5, <2>6 DEF PrefixOf
<1>6. FillWritePipeline(t, Tail(p), s)
  BY <1>2
<1> HIDE DEF t
<1>7. /\ pipeline' \in Seq(Batch) /\ PrefixOf(pipeline', t) /\ stream' \in Stream
      /\ Matches(stream', pipeline', refused) /\ stream'.answers = s.answers
      /\ \A i \in DOMAIN stream'.sent :
             \/ i \in DOMAIN s.sent /\ stream'.sent[i] = s.sent[i]
             \/ \E j \in DOMAIN t : stream'.sent[i] = t[j]
  BY <1>4, <1>5, <1>6, FillingMatches
<1>8. Writers'
  <2>1. \A j \in DOMAIN t : t[j].write \in DOMAIN author /\ author[t[j].write] = user
    <3>1. Owned(queue[user], user)
      BY <1>2 DEF IInv, QueueInv
    <3>2. \A j \in DOMAIN t : \E i \in DOMAIN q : t[j] = q[i]
      BY <1>2, TailRows DEF t
    <3> QED BY <3>1, <3>2 DEF Owned
  <2>2. \A i \in DOMAIN s.sent :
            s.sent[i].write \in DOMAIN author /\ author[s.sent[i].write] = user
    <3>1. DOMAIN << >> = {}
      OBVIOUS
    <3> QED BY <3>1 DEF IInv, Writers
  <2>3. \A i \in DOMAIN stream'.sent :
            stream'.sent[i].write \in DOMAIN author /\ author[stream'.sent[i].write] = user
    BY <1>7, <2>1, <2>2
  <2> QED BY <2>3 DEF Writers
<1>9. AnswersReached'
  BY <1>7 DEF AnswersReached, service
<1>10. late' \in Seq(Batch) /\ InOrder(late)'
  BY LateKept DEF service
<1>11. TypeOK'
  BY <1>1, <1>7, <1>10 DEF IInv, TypeOK, service
<1>12. PrefixOf(pipeline', queue'[user']) /\ Matches(stream', pipeline', refused')
  BY <1>3, <1>7 DEF service
<1> QED BY <1>1, <1>8, <1>9, <1>10, <1>11, <1>12 DEF IInv

LEMMA ResultRead ==
    ASSUME IInv, ReadResult
    PROVE  /\ pipeline # << >>
           /\ Head(pipeline).write \in reached
           /\ IInv'
<1> DEFINE p == pipeline
           A == stream.answers
           s == [stream EXCEPT !.answers = Tail(@)]
<1>1. /\ stream.hello = "done" /\ A # << >>
      /\ p \in Seq(Batch) /\ A \in Seq(Batch) /\ stream \in Stream
      /\ Matches(stream, p, refused) /\ AnswersReached
  BY DEF ReadResult, IInv, TypeOK, Stream
<1>2. PrefixOf(A, p)
  BY <1>1 DEF Matches, Follows
<1>3. /\ Len(A) \in Nat \ {0} /\ Tail(A) \in Seq(Batch)
      /\ Len(Tail(A)) = Len(A) - 1 /\ DOMAIN A = 1..Len(A)
      /\ DOMAIN Tail(A) = 1..(Len(A) - 1)
      /\ \A i \in DOMAIN Tail(A) : i + 1 \in DOMAIN A /\ Tail(A)[i] = A[i + 1]
  BY <1>1, TailRows
<1>4. p # << >> /\ p[1] = A[1] /\ A[1].write \in reached /\ Head(p) = p[1]
  <2>1. 1 \in 1..Len(A) /\ Len(A) <= Len(p)
    BY <1>2, <1>3 DEF PrefixOf
  <2>2. Len(p) # 0
    BY <2>1, <1>3
  <2>3. p # << >>
    BY <2>2, <1>1, EmptySeq
  <2>4. Head(p) = p[1]
    BY <2>3, <1>1
  <2> QED BY <2>1, <2>3, <2>4, <1>1, <1>2, <1>3 DEF PrefixOf, AnswersReached
<1>5. /\ Len(p) \in Nat \ {0} /\ Tail(p) \in Seq(Batch)
      /\ Len(Tail(p)) = Len(p) - 1
      /\ DOMAIN Tail(p) = 1..(Len(p) - 1)
      /\ \A i \in DOMAIN Tail(p) : Tail(p)[i] = p[i + 1]
  BY <1>1, <1>4, TailRows
<1>6. /\ s \in Stream /\ s.answers = Tail(A) /\ s.sent = stream.sent
      /\ s.state = stream.state /\ s.hello = stream.hello
      /\ s.status = stream.status /\ s.idle = stream.idle
  BY <1>1, <1>3 DEF Stream
<1>7. Head(p).write \in Arrived
  BY <1>4 DEF Arrived
<1>8. \A i \in DOMAIN s.answers : s.answers[i].write \in reached
  BY <1>1, <1>3, <1>6 DEF AnswersReached
<1>9. /\ queue' = [queue EXCEPT ![user] = RemoveBatch(queue[user], Head(p).id)]
      /\ NotifyUser(user, Head(p).id, "ok")
      /\ FillWritePipeline(RemoveBatch(queue[user], Head(p).id), Tail(p), s)
      /\ UNCHANGED <<user, nextId, service, author, faults>>
  BY DEF ReadResult
<1>10. Matches(s, Tail(p), refused)
  <2> DEFINE a == Len(A)
             b == Len(stream.sent)
             n == Len(p)
  <2>1. a \in Nat \ {0} /\ n \in Nat \ {0} /\ b \in Nat
    BY <1>1, <1>3, <1>5, LenProperties DEF Stream
  <2>2. /\ a <= n /\ \A i \in 1..a : A[i] = p[i]
        /\ \A i \in 1..(a - 1) : Tail(A)[i] = A[i + 1]
        /\ \A i \in 1..(n - 1) : Tail(p)[i] = p[i + 1]
        /\ Len(s.answers) = a - 1 /\ Len(Tail(p)) = n - 1 /\ Len(s.sent) = b
    BY <1>2, <1>3, <1>5, <1>6 DEF PrefixOf
  <2>3. stream.status = "live" =>
            n = a + b /\ \A i \in 1..b : stream.sent[i] = p[a + i]
    BY <1>1 DEF Matches, Follows
  <2>4. stream.status = "permanent" => a < n /\ p[a + 1].write \in refused
    BY <1>1 DEF Matches, Follows
  <2> HIDE DEF a, b, n
  <2>5. a - 1 <= n - 1 /\ \A i \in 1..(a - 1) : i \in 1..(n - 1) /\ i + 1 \in 1..a
    BY <2>1, <2>2
  <2>6. \A i \in 1..(a - 1) : Tail(A)[i] = Tail(p)[i]
    BY <2>2, <2>5
  <2>7. PrefixOf(s.answers, Tail(p))
    BY <1>6, <2>2, <2>5, <2>6 DEF PrefixOf
  <2>8. ASSUME stream.status = "live"
        PROVE  n - 1 = (a - 1) + b /\ \A i \in 1..b : stream.sent[i] = Tail(p)[(a - 1) + i]
    <3>1. n = a + b /\ \A i \in 1..b : stream.sent[i] = p[a + i]
      BY <2>3, <2>8
    <3>2. \A i \in 1..b : (a - 1) + i \in 1..(n - 1) /\ ((a - 1) + i) + 1 = a + i
      BY <2>1, <3>1
    <3>3. n - 1 = (a - 1) + b
      BY <2>1, <3>1
    <3> QED BY <2>2, <3>1, <3>2, <3>3
  <2>9. ASSUME stream.status = "permanent"
        PROVE  a - 1 < n - 1 /\ Tail(p)[(a - 1) + 1].write \in refused
    <3>1. a < n /\ p[a + 1].write \in refused
      BY <2>4, <2>9
    <3>2. (a - 1) + 1 \in 1..(n - 1) /\ ((a - 1) + 1) + 1 = a + 1 /\ a - 1 < n - 1
      BY <2>1, <3>1
    <3>3. Tail(p)[(a - 1) + 1] = p[((a - 1) + 1) + 1]
      BY <2>2, <3>2
    <3> QED BY <3>1, <3>2, <3>3
  <2>10. Follows(s, Tail(p), refused)
    <3>1. s.status = "live" => /\ Len(Tail(p)) = Len(s.answers) + Len(s.sent)
                               /\ \A i \in 1..Len(s.sent) :
                                      s.sent[i] = Tail(p)[Len(s.answers) + i]
      BY <1>6, <2>2, <2>8
    <3>2. s.status = "permanent" => /\ Len(s.answers) < Len(Tail(p))
                                    /\ Tail(p)[Len(s.answers) + 1].write \in refused
      BY <1>6, <2>2, <2>9
    <3> QED BY <2>7, <3>1, <3>2 DEF Follows
  <2>11. ShapeOf(s)
    BY <1>1, <1>6 DEF Matches, ShapeOf
  <2>12. Wanted(s, Tail(p))
    <3>1. stream.state = "open" /\ ~stream.idle
      BY <1>1, <1>4 DEF Matches, ShapeOf, Wanted
    <3> QED BY <3>1, <1>1, <1>6 DEF Wanted
  <2> QED BY <2>10, <2>11, <2>12 DEF Matches
<1> HIDE DEF s
<1>11. IInv'
  BY <1>4, <1>6, <1>7, <1>8, <1>9, <1>10, FrontAnswered
<1> QED BY <1>4, <1>11

LEMMA FrontRejected ==
    ASSUME IInv, RejectFront
    PROVE  /\ pipeline # << >>
           /\ Head(pipeline).write \in Arrived
           /\ IInv'
<1> DEFINE p == pipeline
           A == stream.answers
           s == Closed("initial")
<1>1. /\ p \in Seq(Batch) /\ A \in Seq(Batch) /\ p # << >>
      /\ Matches(stream, p, refused) /\ AnswersReached
      /\ stream.hello = "done" /\ stream.status = "permanent"
  BY DEF RejectFront, WriteError, IInv, TypeOK, Stream
<1>2. /\ Tail(p) \in Seq(Batch) /\ Head(p) = p[1]
      /\ Len(A) \in Nat /\ DOMAIN A = 1..Len(A)
  BY <1>1, TailRows, LenProperties
<1>3. p[1].write \in Arrived
  <2>1. CASE Len(A) = 0
    <3>1. p[Len(A) + 1].write \in refused
      BY <1>1 DEF Matches, Follows
    <3>2. Len(A) + 1 = 1
      BY <2>1
    <3> QED BY <3>1, <3>2 DEF Arrived
  <2>2. CASE Len(A) # 0
    <3>1. 1 \in 1..Len(A)
      BY <1>2, <2>2
    <3>2. p[1] = A[1]
      BY <3>1, <1>1 DEF Matches, Follows, PrefixOf
    <3> QED BY <3>1, <3>2, <1>1, <1>2 DEF AnswersReached, Arrived
  <2> QED BY <2>1, <2>2
<1>4. s \in Stream /\ Matches(s, Tail(p), refused) /\ s.sent = << >> /\ s.answers = << >>
  BY <1>2, ClosedMatches
<1>5. \A i \in DOMAIN s.answers : s.answers[i].write \in reached
  <2>1. DOMAIN s.answers = {}
    BY <1>4
  <2> QED BY <2>1
<1>6. /\ queue' = [queue EXCEPT ![user] = RemoveBatch(queue[user], Head(p).id)]
      /\ NotifyUser(user, Head(p).id, "error")
      /\ FillWritePipeline(RemoveBatch(queue[user], Head(p).id), Tail(p), s)
      /\ UNCHANGED <<user, nextId, service, author, faults>>
  BY DEF RejectFront, Blamed
<1> HIDE DEF s
<1>7. IInv'
  BY <1>1, <1>2, <1>3, <1>4, <1>5, <1>6, FrontAnswered
<1> QED BY <1>1, <1>2, <1>3, <1>7
----------------------------------------------------------------------------
(* A write is issued.                                                      *)

LEMMA Appended ==
    ASSUME NEW q \in Seq(Batch), NEW b \in Batch
    PROVE  /\ Append(q, b) \in Seq(Batch)
           /\ Len(q) \in Nat /\ Len(Append(q, b)) = Len(q) + 1
           /\ DOMAIN q = 1..Len(q)
           /\ DOMAIN Append(q, b) = 1..(Len(q) + 1)
           /\ \A i \in DOMAIN q : i \in DOMAIN Append(q, b) /\ Append(q, b)[i] = q[i]
           /\ Append(q, b)[Len(q) + 1] = b
<1>1. /\ Append(q, b) \in Seq(Batch)
      /\ Len(q) \in Nat /\ Len(Append(q, b)) = Len(q) + 1
      /\ \A i \in 1..Len(q) : Append(q, b)[i] = q[i]
      /\ Append(q, b)[Len(q) + 1] = b
  BY AppendProperties, LenProperties
<1>2. DOMAIN q = 1..Len(q) /\ DOMAIN Append(q, b) = 1..(Len(q) + 1)
  BY <1>1, LenProperties
<1>3. \A i \in 1..Len(q) : i \in 1..(Len(q) + 1)
  BY <1>1
<1> QED BY <1>1, <1>2, <1>3

LEMMA Issued ==
    ASSUME IInv, WriteMutations
    PROVE  IInv'
<1> DEFINE q == queue[user]
           b == [id |-> nextId, write |-> Len(author) + 1]
           r == Append(q, b)
           w == Len(author) + 1
<1>1. /\ queue' = [queue EXCEPT ![user] = r]
      /\ callbacks' = IF \E c \in callbacks[user] : c.id = nextId
                      THEN callbacks
                      ELSE [callbacks EXCEPT ![user] = @ \cup {b}]
      /\ FillWritePipeline(r, pipeline, stream)
      /\ nextId' = nextId + 1 /\ author' = Append(author, user)
      /\ UNCHANGED <<user, service, answered, faults>>
      /\ Len(author) < MaxWrites
  BY DEF WriteMutations
<1>2. /\ TypeOK /\ QueueInv /\ PrefixOf(pipeline, q) /\ CallbackInv /\ Remembered
      /\ Matches(stream, pipeline, refused) /\ Writers /\ AnswersReached
      /\ InOrder(late) /\ AnswersAreTrue /\ user \in Users
  BY DEF IInv, TypeOK
<1>3. Len(author) \in Nat /\ DOMAIN author = 1..Len(author) /\ author \in Seq(Users)
  BY <1>2, Authors DEF TypeOK
<1>4. /\ DOMAIN author' = 1..w /\ author'[w] = user /\ author' \in Seq(Users)
      /\ \A v \in DOMAIN author : v \in DOMAIN author' /\ author'[v] = author[v]
      /\ Len(author') = w
  <2>1. /\ author' \in Seq(Users) /\ Len(author') = w
        /\ \A v \in 1..Len(author) : author'[v] = author[v]
        /\ author'[w] = user
    BY <1>1, <1>2, <1>3, AppendProperties
  <2>2. DOMAIN author' = 1..w
    BY <2>1, LenProperties
  <2>3. \A v \in 1..Len(author) : v \in 1..w
    BY <1>3
  <2> QED BY <2>1, <2>2, <2>3, <1>3
<1>5. w \in Writes /\ b \in Batch /\ w \notin DOMAIN author
  <2>1. w \in 1..MaxWrites /\ w \notin 1..Len(author)
    BY <1>1, <1>3, PipelineAssumption
  <2> QED BY <2>1, <1>2, <1>3 DEF Writes, Batch, TypeOK
<1>6. /\ q \in Seq(Batch) /\ Ascending(q)
      /\ \A i \in DOMAIN q : /\ q[i].write \in DOMAIN author
                            /\ author[q[i].write] = user /\ q[i].id < nextId
  BY <1>2, QueueRows
<1> DEFINE n == Len(q)
<1>7. /\ r \in Seq(Batch) /\ n \in Nat /\ Len(r) = n + 1
      /\ DOMAIN q = 1..n /\ DOMAIN r = 1..(n + 1)
      /\ \A i \in DOMAIN q : i \in DOMAIN r /\ r[i] = q[i]
      /\ r[n + 1] = b
  BY <1>5, <1>6, Appended
<1>b. b.id = nextId /\ b.write = w
  OBVIOUS
<1>m. \A v \in DOMAIN author : v < w
  BY <1>3
<1> HIDE DEF q, r, b, w, n
<1>8. \A i \in DOMAIN r : i \in DOMAIN q \/ i = n + 1
  BY <1>7
<1>9. Ascending(r)
  <2>1. ASSUME NEW i \in DOMAIN r, NEW j \in DOMAIN r, i < j
        PROVE  r[i].id < r[j].id /\ r[i].write < r[j].write
    <3>1. i \in DOMAIN q
      BY <2>1, <1>7
    <3>2. CASE j \in DOMAIN q
      BY <2>1, <3>1, <3>2, <1>6, <1>7 DEF Ascending
    <3>3. CASE j = n + 1
      BY <3>1, <3>3, <1>6, <1>7, <1>b, <1>m
    <3> QED BY <1>8, <3>2, <3>3
  <2> QED BY <2>1 DEF Ascending
<1>10. PrefixOf(pipeline, r)
  <2> DEFINE k == Len(pipeline)
  <2>1. k \in Nat /\ k <= n /\ \A i \in 1..k : pipeline[i] = q[i]
    BY <1>2, LenProperties DEF TypeOK, PrefixOf, n
  <2> HIDE DEF k
  <2>2. k <= n + 1 /\ \A i \in 1..k : i \in 1..n
    BY <2>1, <1>7
  <2>3. \A i \in 1..k : pipeline[i] = r[i]
    BY <2>1, <2>2, <1>7
  <2> QED BY <2>2, <2>3, <1>7 DEF PrefixOf, k
<1>11. /\ pipeline' \in Seq(Batch) /\ PrefixOf(pipeline', r) /\ stream' \in Stream
       /\ Matches(stream', pipeline', refused) /\ stream'.answers = stream.answers
       /\ \A i \in DOMAIN stream'.sent :
              \/ i \in DOMAIN stream.sent /\ stream'.sent[i] = stream.sent[i]
              \/ \E j \in DOMAIN r : stream'.sent[i] = r[j]
  BY <1>1, <1>2, <1>7, <1>9, <1>10, FillingMatches DEF TypeOK
<1>12. /\ queue' \in [Users -> Seq(Batch)] /\ queue'[user] = r
       /\ \A u \in Users : u # user => queue'[u] = queue[u]
  BY <1>1, <1>2, <1>7 DEF TypeOK
<1>13. \A j \in DOMAIN r : /\ r[j].write \in DOMAIN author'
                           /\ author'[r[j].write] = user
                           /\ r[j].id < nextId'
  <2>1. ASSUME NEW j \in DOMAIN r
        PROVE  /\ r[j].write \in DOMAIN author' /\ author'[r[j].write] = user
               /\ r[j].id < nextId + 1
    <3>1. CASE j \in DOMAIN q
      <4>1. q[j].id \in Nat /\ nextId \in Nat /\ q[j].id < nextId
        BY <3>1, <1>2, <1>6, Rows DEF TypeOK
      <4> QED BY <3>1, <4>1, <1>4, <1>6, <1>7
    <3>2. CASE j = n + 1
      <4>1. w \in DOMAIN author'
        BY <1>3, <1>4 DEF w
      <4> QED BY <4>1, <3>2, <1>2, <1>4, <1>7, <1>b DEF TypeOK
    <3> QED BY <1>8, <3>1, <3>2
  <2> QED BY <2>1, <1>1
<1>14. QueueInv'
  <2>1. \A u \in Users : Ascending(queue'[u])
    BY <1>2, <1>9, <1>12 DEF QueueInv
  <2>2. \A u \in Users : \A i \in DOMAIN queue'[u] :
            /\ queue'[u][i].write \in DOMAIN author'
            /\ author'[queue'[u][i].write] = u
            /\ queue'[u][i].id < nextId'
    <3>1. ASSUME NEW u \in Users, u # user, NEW i \in DOMAIN queue[u]
          PROVE  /\ queue[u][i].write \in DOMAIN author'
                 /\ author'[queue[u][i].write] = u
                 /\ queue[u][i].id < nextId'
      <4>1. /\ queue[u][i].write \in DOMAIN author /\ author[queue[u][i].write] = u
            /\ queue[u][i].id < nextId
        BY QueueRows
      <4>2. queue[u][i].id \in Nat /\ nextId \in Nat
        BY <1>2, Rows DEF TypeOK
      <4> QED BY <4>1, <4>2, <1>1, <1>4
    <3> QED BY <3>1, <1>12, <1>13
  <2> QED BY <2>1, <2>2 DEF QueueInv, Owned, Ascending
<1>15. callbacks' \in [Users -> SUBSET Batch] /\ CallbackInv'
  <2>1. /\ callbacks' \in [Users -> SUBSET Batch]
        /\ callbacks'[user] \subseteq callbacks[user] \cup {b}
        /\ \A u \in Users : u # user => callbacks'[u] = callbacks[u]
    BY <1>1, <1>2, <1>5 DEF TypeOK
  <2>2. ASSUME NEW c \in callbacks'[user]
        PROVE  \E i \in DOMAIN r : r[i] = c
    <3>1. CASE c \in callbacks[user]
      <4>1. PICK i \in DOMAIN q : q[i] = c
        BY <3>1, <1>2 DEF CallbackInv, q
      <4> QED BY <4>1, <1>7
    <3>2. CASE c = b
      BY <3>2, <1>7
    <3> QED BY <2>1, <2>2, <3>1, <3>2
  <2>3. \A u \in Users : \A c \in callbacks'[u] :
            \E i \in DOMAIN queue'[u] : queue'[u][i] = c
    BY <1>2, <1>12, <2>1, <2>2 DEF CallbackInv
  <2> QED BY <2>1, <2>3 DEF CallbackInv
<1>16. Remembered'
  <2>1. ASSUME NEW v \in DOMAIN author'
        PROVE  \/ v \in Arrived
               \/ \E i \in DOMAIN queue'[author'[v]] : queue'[author'[v]][i].write = v
    <3>1. CASE v = w
      BY <3>1, <1>4, <1>7, <1>12, <1>b
    <3>2. CASE v # w
      <4>1. v \in DOMAIN author /\ author'[v] = author[v] /\ author[v] \in Users
        BY <3>2, <1>3, <1>4, Authors DEF w
      <4>2. CASE v \in Arrived
        BY <4>2
      <4>3. CASE v \notin Arrived
        <5>1. PICK i \in DOMAIN queue[author[v]] : queue[author[v]][i].write = v
          BY <4>1, <4>3, <1>2 DEF Remembered
        <5>2. CASE author[v] = user
          <6>1. i \in DOMAIN q /\ q[i].write = v
            BY <5>1, <5>2 DEF q
          <6> QED BY <6>1, <5>2, <4>1, <1>7, <1>12
        <5>3. CASE author[v] # user
          BY <5>1, <5>3, <4>1, <1>12
        <5> QED BY <5>2, <5>3
      <4> QED BY <4>2, <4>3
    <3> QED BY <3>1, <3>2
  <2> QED BY <2>1, <1>1 DEF Remembered, Arrived, service
<1>17. Writers' /\ AnswersReached' /\ AnswersAreTrue'
  <2>1. \A i \in DOMAIN stream'.sent :
            /\ stream'.sent[i].write \in DOMAIN author'
            /\ author'[stream'.sent[i].write] = user
    BY <1>2, <1>4, <1>11, <1>13 DEF Writers
  <2>2. Writers'
    BY <2>1, <1>1 DEF Writers
  <2> QED BY <2>2, <1>1, <1>2, <1>11 DEF AnswersReached, AnswersAreTrue, Arrived, service
<1>18. InOrder(late)'
  <2>1. ASSUME NEW v \in DOMAIN author
        PROVE  {x \in 1..(v - 1) : author'[x] = author'[v]} = Before(v)
    <3>1. \A x \in 1..(v - 1) : x \in DOMAIN author
      BY <1>3
    <3> QED BY <3>1, <1>4 DEF Before
  <2> QED BY <2>1, <1>1, <1>2, <1>4 DEF InOrder, Before, Arrived, service
<1>19. TypeOK'
  <2>1. nextId' \in Nat \ {0}
    BY <1>1, <1>2 DEF TypeOK
  <2>2. Len(author') \in 0..MaxWrites
    BY <1>1, <1>3, <1>4, PipelineAssumption DEF w
  <2> QED BY <2>1, <2>2, <1>1, <1>2, <1>4, <1>11, <1>12, <1>15 DEF TypeOK, service
<1>20. PrefixOf(pipeline', queue'[user']) /\ Matches(stream', pipeline', refused')
  BY <1>1, <1>11, <1>12 DEF service
<1> QED BY <1>14, <1>15, <1>16, <1>17, <1>18, <1>19, <1>20 DEF IInv
----------------------------------------------------------------------------
(* The steps of the stream and of the service.                             *)

\* What such a step leaves to show.
LEMMA StreamStep ==
    ASSUME IInv, UNCHANGED <<device, pipeline, author, answered>>,
           reached \subseteq reached', refused \subseteq refused',
           reached' \subseteq Writes, refused' \subseteq Writes,
           faults' \in 0..MaxFaults,
           late' \in Seq(Batch), InOrder(late)',
           stream' \in Stream, Matches(stream', pipeline, refused'),
           Writers', AnswersReached'
    PROVE  IInv'
<1>1. /\ queue' = queue /\ user' = user /\ nextId' = nextId /\ callbacks' = callbacks
      /\ pipeline' = pipeline /\ author' = author /\ answered' = answered
  BY DEF device
<1>2. /\ QueueInv' /\ CallbackInv' /\ Remembered' /\ AnswersAreTrue'
  <2>1. \A u \in Users : \A i \in DOMAIN queue[u] : queue[u][i].id < nextId'
    BY <1>1 DEF IInv, QueueInv
  <2> QED BY <1>1, <2>1, QueueKept
<1>3. TypeOK'
  BY <1>1 DEF IInv, TypeOK
<1>4. PrefixOf(pipeline', queue'[user']) /\ Matches(stream', pipeline', refused')
  BY <1>1 DEF IInv
<1> QED BY <1>2, <1>3, <1>4 DEF IInv

\* A step of the stream that sends nothing and reads nothing.
LEMMA QuietStep ==
    ASSUME IInv, UNCHANGED <<device, pipeline, author, answered, reached, refused>>,
           faults' \in 0..MaxFaults, late' = late \/ GiveUpCall,
           stream' \in Stream, Matches(stream', pipeline, refused),
           stream'.sent = stream.sent \/ stream'.sent = << >>,
           \A i \in DOMAIN stream'.answers :
               i \in DOMAIN stream.answers /\ stream'.answers[i] = stream.answers[i]
    PROVE  IInv'
<1>1. /\ user' = user /\ author' = author /\ reached' = reached /\ refused' = refused
  BY DEF device
<1>2. late' \in Seq(Batch) /\ InOrder(late)'
  BY <1>1, GivenUp, LateKept
<1>3. DOMAIN << >> = {}
  OBVIOUS
<1>4. Writers'
  BY <1>1, <1>3 DEF IInv, Writers
<1>5. AnswersReached'
  BY <1>1 DEF IInv, AnswersReached
<1>6. reached' \subseteq Writes /\ refused' \subseteq Writes
  BY <1>1 DEF IInv, TypeOK
<1> QED BY <1>1, <1>2, <1>4, <1>5, <1>6, StreamStep

LEMMA Opened ==
    ASSUME IInv, OpenStream
    PROVE  IInv'
<1> DEFINE t == [stream EXCEPT !.state = "open", !.hello = "asked", !.status = "live"]
<1>1. stream' = t /\ stream.state = "starting"
  BY DEF OpenStream
<1>2. stream \in Stream /\ Matches(stream, pipeline, refused) /\ faults \in 0..MaxFaults
  BY DEF IInv, TypeOK
<1>3. /\ t \in Stream /\ t.state = "open" /\ t.hello = "asked" /\ t.status = "live"
      /\ t.sent = stream.sent /\ t.answers = stream.answers /\ t.idle = stream.idle
  BY <1>2 DEF Stream
<1> HIDE DEF t
<1>4. Matches(t, pipeline, refused)
  BY <1>1, <1>2, <1>3 DEF Matches, ShapeOf, Follows, Wanted
<1>5. UNCHANGED <<device, pipeline, author, answered, reached, refused, late, faults>>
  BY DEF OpenStream, service
<1> QED BY <1>1, <1>2, <1>3, <1>4, <1>5, QuietStep

LEMMA BackedOff ==
    ASSUME IInv, BackoffElapses
    PROVE  IInv'
<1> DEFINE t == [stream EXCEPT !.state = "starting"]
<1>1. stream' = t /\ stream.state = "backoff"
  BY DEF BackoffElapses
<1>2. stream \in Stream /\ Matches(stream, pipeline, refused) /\ faults \in 0..MaxFaults
  BY DEF IInv, TypeOK
<1>3. /\ t \in Stream /\ t.state = "starting" /\ t.hello = stream.hello
      /\ t.status = stream.status
      /\ t.sent = stream.sent /\ t.answers = stream.answers /\ t.idle = stream.idle
  BY <1>2 DEF Stream
<1> HIDE DEF t
<1>4. Matches(t, pipeline, refused)
  BY <1>1, <1>2, <1>3 DEF Matches, ShapeOf, Follows, Wanted
<1>5. UNCHANGED <<device, pipeline, author, answered, reached, refused, late, faults>>
  BY DEF BackoffElapses, service
<1> QED BY <1>1, <1>2, <1>3, <1>4, <1>5, QuietStep

LEMMA Greeted ==
    ASSUME IInv, Greet
    PROVE  IInv'
<1> DEFINE t == [stream EXCEPT !.hello = "answered"]
<1>1. stream' = t /\ stream.hello = "asked" /\ stream.status = "live"
  BY DEF Greet
<1>2. stream \in Stream /\ Matches(stream, pipeline, refused) /\ faults \in 0..MaxFaults
  BY DEF IInv, TypeOK
<1>3. /\ t \in Stream /\ t.hello = "answered" /\ t.state = stream.state
      /\ t.status = stream.status
      /\ t.sent = stream.sent /\ t.answers = stream.answers /\ t.idle = stream.idle
  BY <1>2 DEF Stream
<1> HIDE DEF t
<1>4. Matches(t, pipeline, refused)
  BY <1>1, <1>2, <1>3 DEF Matches, ShapeOf, Follows, Wanted
<1>5. UNCHANGED <<device, pipeline, author, answered, reached, refused, late, faults>>
  BY DEF Greet, service
<1> QED BY <1>1, <1>2, <1>3, <1>4, <1>5, QuietStep

LEMMA Stopped ==
    ASSUME IInv, stream' = Closed("initial") \/ stream' = StartIfNeeded(Closed("error"), pipeline),
           UNCHANGED <<device, pipeline, service, author, answered>>,
           faults' \in 0..MaxFaults
    PROVE  IInv'
<1>1. pipeline \in Seq(Batch)
  BY DEF IInv, TypeOK
<1>2. /\ stream' \in Stream /\ Matches(stream', pipeline, refused)
      /\ stream'.sent = << >> /\ stream'.answers = << >>
  BY <1>1, ClosedMatches, StartedMatches
<1>3. DOMAIN stream'.answers = {}
  BY <1>2
<1>4. UNCHANGED <<device, pipeline, author, answered, reached, refused, late>>
  BY DEF service
<1> QED BY <1>2, <1>3, <1>4, QuietStep

LEMMA Broken ==
    ASSUME IInv, Break
    PROVE  IInv'
<1>1. PICK n \in 0..Len(stream.answers) :
          stream' = [stream EXCEPT !.status = "transient",
                                   !.answers = SubSeq(@, 1, n)]
  BY DEF Break
<1>2. /\ stream \in Stream /\ Matches(stream, pipeline, refused) /\ faults' \in 0..MaxFaults
      /\ stream.answers \in Seq(Batch) /\ pipeline \in Seq(Batch)
      /\ stream.status = "live"
  <2>1. faults \in 0..MaxFaults /\ faults < MaxFaults /\ faults' = faults + 1
    BY DEF IInv, TypeOK, Break, Fault
  <2>2. faults' \in 0..MaxFaults
    BY <2>1, PipelineAssumption
  <2> QED BY <2>2 DEF IInv, TypeOK, Break, Stream
<1> DEFINE A == stream.answers
           B == SubSeq(A, 1, n)
           a == Len(A)
           m == Len(pipeline)
<1>3. /\ B \in Seq(Batch) /\ Len(B) = n /\ a \in Nat /\ m \in Nat
      /\ n \in Nat /\ n <= a /\ \A i \in 1..n : B[i] = A[i]
      /\ DOMAIN B = 1..n /\ DOMAIN A = 1..a
  <2>1. a \in Nat /\ m \in Nat /\ DOMAIN A = 1..a
    BY <1>2, LenProperties
  <2>2. n \in Nat /\ n <= a
    BY <2>1
  <2>3. B \in Seq(Batch) /\ Len(B) = n /\ \A i \in 1..n : B[i] = A[i]
    BY <1>2, <2>1, <2>2
  <2>4. DOMAIN B = 1..n
    BY <2>3, LenProperties
  <2> QED BY <2>1, <2>2, <2>3, <2>4
<1> DEFINE t == [stream EXCEPT !.status = "transient", !.answers = B]
<1>4. /\ t \in Stream /\ t.state = stream.state /\ t.hello = stream.hello
      /\ t.status = "transient" /\ t.sent = stream.sent /\ t.answers = B
      /\ t.idle = stream.idle /\ stream' = t
  BY <1>1, <1>2, <1>3 DEF Stream
<1>5. stream.hello = "done" => a <= m /\ \A i \in 1..a : A[i] = pipeline[i]
  BY <1>2 DEF Matches, Follows, PrefixOf
<1>6. stream.hello # "done" => stream.sent = << >> /\ A = << >>
  BY <1>2 DEF Matches, ShapeOf
<1>7. a = 0 => B = << >>
  BY <1>3, EmptySeq
<1>8. A = << >> => a = 0
  OBVIOUS
<1> HIDE DEF t, A, B, a, m
<1>9. \A i \in 1..n : i \in 1..a
  BY <1>3
<1>10. stream.hello = "done" => PrefixOf(B, pipeline)
  <2>1. stream.hello = "done" => n <= m
    BY <1>3, <1>5
  <2> QED BY <2>1, <1>3, <1>5, <1>9 DEF PrefixOf, m
<1>11. Matches(t, pipeline, refused)
  BY <1>2, <1>4, <1>6, <1>7, <1>8, <1>10 DEF Matches, ShapeOf, Follows, Wanted
<1>12. \A i \in DOMAIN stream'.answers :
           i \in DOMAIN stream.answers /\ stream'.answers[i] = stream.answers[i]
  BY <1>3, <1>4, <1>9 DEF A
<1>13. UNCHANGED <<device, pipeline, author, answered, reached, refused>> /\ GiveUpCall
  BY DEF Break
<1> QED BY <1>2, <1>4, <1>11, <1>12, <1>13, QuietStep

LEMMA ShookHands ==
    ASSUME IInv, ReadHandshake
    PROVE  IInv'
<1> DEFINE p == pipeline
           c == [stream EXCEPT !.hello = "done"]
           t == [c EXCEPT !.sent = @ \o p, !.idle = FALSE]
<1>1. /\ stream \in Stream /\ p \in Seq(Batch) /\ faults \in 0..MaxFaults
      /\ Matches(stream, p, refused) /\ stream.hello = "answered"
      /\ stream' = Send(c, p) /\ PrefixOf(p, queue[user]) /\ user \in Users
  BY DEF IInv, TypeOK, ReadHandshake
<1>2. /\ stream.state = "open" /\ p # << >>
      /\ stream.sent = << >> /\ stream.answers = << >>
      /\ stream.status # "permanent"
  BY <1>1 DEF Matches, ShapeOf, Wanted
<1>3. /\ c \in Stream /\ c.state = "open" /\ c.hello = "done" /\ c.sent = << >>
      /\ c.answers = << >> /\ c.status = stream.status
  BY <1>1, <1>2 DEF Stream
<1>4. stream' = t
  BY <1>1, <1>2, <1>3 DEF Send
<1>5. << >> \o p = p
  BY <1>1, ConcatProperties
<1>6. /\ t \in Stream /\ t.state = "open" /\ t.hello = "done" /\ t.sent = p
      /\ t.answers = << >> /\ t.status = stream.status /\ ~t.idle
  BY <1>1, <1>3, <1>5 DEF Stream
<1> HIDE DEF t
<1>7. Matches(t, p, refused)
  <2>1. Len(p) \in Nat /\ \A i \in 1..Len(p) : 0 + i = i
    BY <1>1, LenProperties
  <2>2. PrefixOf(<< >>, p) /\ Len(<< >>) = 0
    BY <2>1, EmptySeq DEF PrefixOf
  <2>3. Len(p) = Len(t.answers) + Len(t.sent)
    BY <1>6, <2>1, <2>2
  <2>4. \A i \in 1..Len(t.sent) : t.sent[i] = p[Len(t.answers) + i]
    BY <1>6, <2>1, <2>2
  <2>5. Follows(t, p, refused)
    BY <1>2, <1>6, <2>2, <2>3, <2>4 DEF Follows
  <2> QED BY <1>2, <1>6, <2>5 DEF Matches, ShapeOf, Wanted
<1>8. UNCHANGED <<device, p, author, answered, reached, refused, late, faults>>
  BY DEF ReadHandshake, service
<1>9. Writers'
  <2>1. \A i \in DOMAIN p : i \in DOMAIN queue[user] /\ p[i] = queue[user][i]
    <3> DEFINE q == queue[user]
    <3>1. /\ Len(p) \in Nat /\ Len(q) \in Nat /\ DOMAIN p = 1..Len(p)
          /\ DOMAIN q = 1..Len(q)
      BY <1>1, QueueRows, LenProperties
    <3>2. Len(p) <= Len(q) /\ \A i \in 1..Len(p) : p[i] = q[i]
      BY <1>1 DEF PrefixOf
    <3>3. \A i \in 1..Len(p) : i \in 1..Len(q)
      BY <3>1, <3>2
    <3> QED BY <3>1, <3>2, <3>3
  <2>2. \A i \in DOMAIN t.sent :
            t.sent[i].write \in DOMAIN author /\ author[t.sent[i].write] = user
    BY <1>1, <1>6, <2>1, QueueRows
  <2> QED BY <1>4, <1>8, <2>2 DEF Writers, device
<1>10. AnswersReached'
  <2>1. DOMAIN stream'.answers = {}
    BY <1>4, <1>6
  <2> QED BY <2>1 DEF AnswersReached
<1>11. late' \in Seq(Batch) /\ InOrder(late)'
  BY <1>8, LateKept
<1>12. reached' \subseteq Writes /\ refused' \subseteq Writes
  BY <1>8 DEF IInv, TypeOK
<1> QED BY <1>1, <1>4, <1>6, <1>7, <1>8, <1>9, <1>10, <1>11, <1>12, StreamStep

\* The first request of a live call: its place in the pipeline.
LEMMA NextRequest ==
    ASSUME IInv, stream.status = "live", stream.sent # << >>
    PROVE  /\ Head(stream.sent) = stream.sent[1] /\ 1 \in DOMAIN stream.sent
           /\ Head(stream.sent) \in Batch
           /\ stream.hello = "done" /\ stream.state = "open"
           /\ Len(stream.answers) < Len(pipeline)
           /\ Head(stream.sent) = pipeline[Len(stream.answers) + 1]
<1> DEFINE S == stream.sent
           a == Len(stream.answers)
           b == Len(S)
           m == Len(pipeline)
<1>1. /\ S \in Seq(Batch) /\ stream.answers \in Seq(Batch) /\ pipeline \in Seq(Batch)
      /\ Matches(stream, pipeline, refused)
  BY DEF IInv, TypeOK, Stream
<1>2. stream.hello = "done" /\ stream.state = "open"
  BY <1>1 DEF Matches, ShapeOf
<1>3. m = a + b /\ \A i \in 1..b : S[i] = pipeline[a + i]
  BY <1>1, <1>2 DEF Matches, Follows
<1>4. a \in Nat /\ b \in Nat \ {0} /\ m \in Nat /\ DOMAIN S = 1..b
  BY <1>1, LenProperties, EmptySeq
<1>5. Head(S) = S[1]
  BY <1>1
<1> HIDE DEF a, b, m
<1>6. 1 \in 1..b /\ a < m
  BY <1>3, <1>4
<1>7. S[1] \in Batch
  BY <1>1, <1>6, ElementOfSeq DEF b
<1> QED BY <1>2, <1>3, <1>4, <1>5, <1>6, <1>7 DEF a, b, m

LEMMA Applied ==
    ASSUME IInv, Apply
    PROVE  IInv'
<1> DEFINE S == stream.sent
           A == stream.answers
           p == pipeline
           h == Head(S)
           t == [stream EXCEPT !.sent = Tail(@), !.answers = Append(@, h)]
<1>1. /\ S # << >> /\ stream.status = "live" /\ stream' = t
      /\ reached' = reached \cup {h.write}
      /\ UNCHANGED <<device, p, late, refused, author, answered, faults>>
  BY DEF Apply
<1>2. /\ stream \in Stream /\ Matches(stream, p, refused) /\ faults \in 0..MaxFaults
      /\ S \in Seq(Batch) /\ A \in Seq(Batch) /\ p \in Seq(Batch)
      /\ Writers /\ AnswersReached
  BY DEF IInv, TypeOK, Stream
<1>3. /\ h = S[1] /\ h \in Batch /\ stream.hello = "done" /\ stream.state = "open"
      /\ h = p[Len(A) + 1]
  BY <1>1, NextRequest
<1>4. h.write \in Writes
  BY <1>3 DEF Batch
<1> DEFINE T == Tail(S)
           B == Append(A, h)
           a == Len(A)
           b == Len(S)
           m == Len(p)
<1>5. /\ T \in Seq(Batch) /\ b \in Nat \ {0} /\ Len(T) = b - 1
      /\ DOMAIN T = 1..(b - 1)
      /\ \A i \in DOMAIN T : i + 1 \in DOMAIN S /\ T[i] = S[i + 1]
  BY <1>1, <1>2, TailRows
<1>6. /\ B \in Seq(Batch) /\ a \in Nat /\ Len(B) = a + 1
      /\ DOMAIN A = 1..a /\ DOMAIN B = 1..(a + 1)
      /\ \A i \in DOMAIN A : B[i] = A[i]
      /\ B[a + 1] = h
  BY <1>2, <1>3, Appended
<1>7. /\ t \in Stream /\ t.sent = T /\ t.answers = B /\ t.state = stream.state
      /\ t.hello = stream.hello /\ t.status = stream.status /\ t.idle = stream.idle
  BY <1>2, <1>5, <1>6 DEF Stream
<1>8. /\ m = a + b /\ \A i \in 1..b : S[i] = p[a + i]
      /\ a <= m /\ \A i \in 1..a : A[i] = p[i]
  BY <1>1, <1>2, <1>3 DEF Matches, Follows, PrefixOf
<1>9. m \in Nat /\ DOMAIN S = 1..b
  BY <1>2, LenProperties
<1> HIDE DEF t, T, B, a, b, m, h
<1>10. Matches(t, p, refused)
  <2>1. a + 1 <= m /\ m = (a + 1) + (b - 1)
    BY <1>5, <1>6, <1>8, <1>9
  <2>2. \A i \in 1..(a + 1) : i \in 1..a \/ i = a + 1
    BY <1>6
  <2>3. \A i \in 1..(a + 1) : B[i] = p[i]
    BY <2>2, <1>3, <1>6, <1>8 DEF a
  <2>4. PrefixOf(B, p)
    BY <1>6, <2>1, <2>3 DEF PrefixOf, m
  <2>5. ASSUME NEW i \in 1..(b - 1)
        PROVE  T[i] = p[(a + 1) + i]
    <3>1. i + 1 \in 1..b /\ a + (i + 1) = (a + 1) + i
      BY <1>5, <1>6
    <3> QED BY <3>1, <1>5, <1>8
  <2>6. Follows(t, p, refused)
    <3>1. Len(t.sent) = b - 1 /\ Len(t.answers) = a + 1 /\ Len(p) = m
      BY <1>5, <1>6, <1>7 DEF m
    <3> QED BY <3>1, <2>1, <2>4, <2>5, <1>1, <1>7 DEF Follows
  <2> QED BY <2>6, <1>2, <1>3, <1>7 DEF Matches, ShapeOf, Wanted
<1>11. Writers'
  <2>1. \A i \in DOMAIN T : T[i].write \in DOMAIN author /\ author[T[i].write] = user
    BY <1>2, <1>5 DEF Writers
  <2> QED BY <2>1, <1>1, <1>7 DEF Writers, device
<1>12. AnswersReached'
  <2>1. \A i \in DOMAIN B : i \in DOMAIN A \/ i = a + 1
    BY <1>6
  <2>2. \A i \in DOMAIN B : B[i].write \in reached'
    BY <2>1, <1>1, <1>2, <1>6 DEF AnswersReached
  <2> QED BY <2>2, <1>1, <1>7 DEF AnswersReached
<1>13. /\ reached \subseteq reached' /\ refused \subseteq refused'
       /\ reached' \subseteq Writes /\ refused' \subseteq Writes
  BY <1>1, <1>4 DEF IInv, TypeOK
<1>14. late' \in Seq(Batch) /\ InOrder(late)'
  BY <1>1, <1>13, LateKept
<1> QED BY <1>1, <1>2, <1>7, <1>10, <1>11, <1>12, <1>13, <1>14, StreamStep

LEMMA Refused ==
    ASSUME IInv, Refuse
    PROVE  IInv'
<1> DEFINE S == stream.sent
           p == pipeline
           h == Head(S)
           t == [stream EXCEPT !.sent = Tail(@), !.status = "permanent"]
<1>1. /\ S # << >> /\ stream.status = "live" /\ stream' = t
      /\ refused' = refused \cup {h.write}
      /\ UNCHANGED <<device, p, late, reached, author, answered, faults>>
  BY DEF Refuse
<1>2. /\ stream \in Stream /\ Matches(stream, p, refused) /\ faults \in 0..MaxFaults
      /\ S \in Seq(Batch) /\ p \in Seq(Batch) /\ Writers /\ AnswersReached
  BY DEF IInv, TypeOK, Stream
<1>3. /\ h \in Batch /\ stream.hello = "done" /\ stream.state = "open"
      /\ Len(stream.answers) < Len(p) /\ h = p[Len(stream.answers) + 1]
  BY <1>1, NextRequest
<1>4. h.write \in Writes
  BY <1>3 DEF Batch
<1> DEFINE T == Tail(S)
<1>5. /\ T \in Seq(Batch)
      /\ \A i \in DOMAIN T : i + 1 \in DOMAIN S /\ T[i] = S[i + 1]
  BY <1>1, <1>2, TailRows
<1>6. /\ t \in Stream /\ t.sent = T /\ t.answers = stream.answers
      /\ t.state = stream.state /\ t.hello = stream.hello
      /\ t.status = "permanent" /\ t.idle = stream.idle
  BY <1>2, <1>5 DEF Stream
<1> HIDE DEF t, T, h
<1>7. Matches(t, p, refused')
  <2>1. Follows(t, p, refused')
    BY <1>1, <1>2, <1>3, <1>6 DEF Matches, Follows
  <2> QED BY <2>1, <1>2, <1>3, <1>6 DEF Matches, ShapeOf, Wanted
<1>8. Writers'
  <2>1. \A i \in DOMAIN T : T[i].write \in DOMAIN author /\ author[T[i].write] = user
    BY <1>2, <1>5 DEF Writers
  <2> QED BY <2>1, <1>1, <1>6 DEF Writers, device
<1>9. AnswersReached'
  BY <1>1, <1>2, <1>6 DEF AnswersReached
<1>10. /\ reached \subseteq reached' /\ refused \subseteq refused'
       /\ reached' \subseteq Writes /\ refused' \subseteq Writes
  BY <1>1, <1>4 DEF IInv, TypeOK
<1>11. late' \in Seq(Batch) /\ InOrder(late)'
  BY <1>1, <1>10, LateKept
<1> QED BY <1>1, <1>2, <1>6, <1>7, <1>8, <1>9, <1>10, <1>11, StreamStep

LEMMA CameLate ==
    ASSUME IInv, ArriveLate
    PROVE  IInv'
<1> DEFINE h == Head(late)
           T == Tail(late)
<1>1. late # << >> /\ late \in Seq(Batch) /\ InOrder(late)
  BY DEF ArriveLate, IInv, TypeOK
<1>2. /\ T \in Seq(Batch) /\ h = late[1] /\ h \in Batch /\ h.write \in Writes
      /\ \A i \in DOMAIN T : i \in Nat /\ i + 1 \in DOMAIN late /\ T[i] = late[i + 1]
      /\ \A j \in DOMAIN late : j \in Nat /\
                (j # 1 => j - 1 \in DOMAIN T /\ T[j - 1] = late[j])
  <2>1. /\ T \in Seq(Batch)
        /\ DOMAIN T = 1..(Len(late) - 1) /\ DOMAIN late = 1..Len(late)
        /\ Len(late) \in Nat \ {0}
        /\ \A i \in DOMAIN T : i + 1 \in DOMAIN late /\ T[i] = late[i + 1]
        /\ \A j \in DOMAIN late :
               j # 1 => j - 1 \in DOMAIN T /\ T[j - 1] = late[j]
    BY <1>1, TailRows
  <2>2. h = late[1] /\ 1 \in 1..Len(late)
    BY <1>1, <2>1
  <2>3. h \in Batch
    BY <1>1, <2>2, ElementOfSeq
  <2>4. h.write \in Writes
    BY <2>3 DEF Batch
  <2>5. (\A i \in DOMAIN T : i \in Nat) /\ (\A j \in DOMAIN late : j \in Nat)
    BY <2>1
  <2> QED BY <2>1, <2>2, <2>3, <2>4, <2>5
<1>3. /\ UNCHANGED <<device, pipeline, stream, author, answered, faults>>
      /\ \/ /\ refused' = refused \cup {h.write} /\ late' = << >> /\ reached' = reached
         \/ /\ reached' = reached \cup {h.write} /\ late' = T /\ refused' = refused
  BY DEF ArriveLate
<1> HIDE DEF h, T
<1>4. /\ reached \subseteq reached' /\ refused \subseteq refused'
      /\ reached' \subseteq Writes /\ refused' \subseteq Writes
  BY <1>2, <1>3 DEF IInv, TypeOK
<1>5. late' \in Seq(Batch)
  BY <1>2, <1>3, EmptySeq
<1>6. InOrder(late)'
  <2>1. CASE late' = << >>
    <3>1. DOMAIN late' = {}
      BY <2>1
    <3> QED BY <3>1 DEF InOrder
  <2>2. CASE late' = T /\ reached' = reached \cup {h.write} /\ refused' = refused
    <3>1. ASSUME NEW i \in DOMAIN T
          PROVE  /\ T[i].write \in DOMAIN author
                 /\ \A v \in Before(T[i].write) :
                        v \in Arrived \cup {h.write} \/ \E j \in DOMAIN T : j < i /\ T[j].write = v
      <4>1. i \in Nat /\ i + 1 \in DOMAIN late /\ T[i] = late[i + 1]
        BY <1>2
      <4>2. ASSUME NEW v \in Before(T[i].write), v \notin Arrived, v # h.write
            PROVE  \E j \in DOMAIN T : j < i /\ T[j].write = v
        <5>1. PICK j \in DOMAIN late : j < i + 1 /\ late[j].write = v
          BY <4>1, <4>2, <1>1 DEF InOrder
        <5>2. j # 1 /\ j \in Nat
          BY <5>1, <4>2, <1>2
        <5>3. j - 1 \in DOMAIN T /\ T[j - 1].write = v
          BY <5>1, <5>2, <1>2
        <5>4. j - 1 < i
          BY <5>1, <5>2, <4>1
        <5> QED BY <5>3, <5>4
      <4> QED BY <4>1, <4>2, <1>1 DEF InOrder
    <3> QED BY <3>1, <2>2, <1>3 DEF InOrder, Before, Arrived
  <2> QED BY <1>3, <2>1, <2>2
<1>7. Writers'
  BY <1>3 DEF IInv, Writers, device
<1>8. AnswersReached'
  BY <1>3, <1>4 DEF IInv, AnswersReached
<1>9. Matches(stream', pipeline, refused') /\ stream' \in Stream /\ faults' \in 0..MaxFaults
  <2>1. Matches(stream, pipeline, refused) /\ stream \in Stream /\ faults \in 0..MaxFaults
    BY DEF IInv, TypeOK
  <2>2. Matches(stream, pipeline, refused')
    BY <2>1, <1>4 DEF Matches, Follows
  <2> QED BY <2>1, <2>2, <1>3
<1>10. UNCHANGED <<device, pipeline, author, answered>>
  BY <1>3
<1> QED BY <1>4, <1>5, <1>6, <1>7, <1>8, <1>9, <1>10, StreamStep
----------------------------------------------------------------------------
(* The restarts.                                                           *)

LEMMA FaultCounted ==
    ASSUME IInv, Fault
    PROVE  faults' \in 0..MaxFaults
BY PipelineAssumption DEF IInv, TypeOK, Fault

LEMMA RestartStep ==
    ASSUME IInv, Fault, GiveUpCall, NEW u \in Users, user' = u,
           RestartNetwork(queue[u]),
           UNCHANGED <<queue, author, answered, reached, refused>>,
           \/ callbacks' = callbacks
           \/ callbacks' = [v \in Users |-> {}],
           nextId' = nextId \/ nextId' \in LoadNextBatchId(queue)
    PROVE  IInv'
<1>1. /\ pipeline' \in Seq(Batch) /\ stream' \in Stream
      /\ PrefixOf(pipeline', queue'[user'])
      /\ Matches(stream', pipeline', refused')
      /\ Writers' /\ AnswersReached'
  BY Restarted
<1>2. late' \in Seq(Batch) /\ InOrder(late)'
  BY GivenUp
<1>3. /\ nextId' \in Nat \ {0}
      /\ \A v \in Users : \A i \in DOMAIN queue[v] : queue[v][i].id < nextId'
  BY PipelineAssumption DEF IInv, TypeOK, QueueInv, LoadNextBatchId
<1>4. /\ queue' \in [Users -> Seq(Batch)]
      /\ callbacks' \in [Users -> SUBSET Batch]
      /\ author' \in Seq(Users) /\ Len(author') \in 0..MaxWrites
      /\ answered' \in [Writes -> {"nothing", "ok", "error"}]
      /\ QueueInv' /\ CallbackInv' /\ Remembered' /\ AnswersAreTrue'
  BY <1>3, QueueKept
<1>5. TypeOK'
  BY <1>1, <1>2, <1>3, <1>4, FaultCounted DEF IInv, TypeOK
<1> QED BY <1>1, <1>2, <1>4, <1>5 DEF IInv

LEMMA Failed ==
    ASSUME IInv, Failure
    PROVE  IInv'
<1>0. user \in Users
  BY DEF IInv, TypeOK
<1>1. CASE Break
  BY <1>1, Broken
<1>2. CASE NoToken
  <2>1. /\ stream' = StartIfNeeded(Closed("error"), pipeline)
        /\ UNCHANGED <<device, pipeline, service, author, answered>>
        /\ Fault
    BY <1>2 DEF NoToken
  <2> QED BY <2>1, FaultCounted, Stopped
<1>3. CASE ConnectivityChange
  <2>1. /\ Fault /\ GiveUpCall /\ user' = user /\ RestartNetwork(queue[user])
        /\ UNCHANGED <<queue, author, answered, reached, refused>>
        /\ callbacks' = callbacks /\ nextId' = nextId
    BY <1>3 DEF ConnectivityChange, device
  <2> QED BY <1>0, <2>1, RestartStep
<1>4. CASE \E u \in Users : HandleCredentialChange(u)
  <2>1. PICK u \in Users : HandleCredentialChange(u)
    BY <1>4
  <2>2. /\ Fault /\ GiveUpCall /\ user' = u /\ RestartNetwork(queue[u])
        /\ UNCHANGED <<queue, author, answered, reached, refused>>
        /\ callbacks' = callbacks /\ nextId' \in LoadNextBatchId(queue)
    BY <2>1 DEF HandleCredentialChange
  <2> QED BY <2>2, RestartStep
<1>5. CASE Relaunch
  <2>1. /\ Fault /\ GiveUpCall /\ user' = user /\ RestartNetwork(queue[user])
        /\ UNCHANGED <<queue, author, answered, reached, refused>>
        /\ callbacks' = [v \in Users |-> {}] /\ nextId' \in LoadNextBatchId(queue)
    BY <1>5 DEF Relaunch
  <2> QED BY <1>0, <2>1, RestartStep
<1> QED BY <1>1, <1>2, <1>3, <1>4, <1>5 DEF Failure
----------------------------------------------------------------------------
(* The invariant.                                                          *)

LEMMA Initially == Init => IInv
<1> SUFFICES ASSUME Init PROVE IInv
  OBVIOUS
<1>1. /\ << >> \in Seq(Batch) /\ << >> \in Seq(Users)
      /\ Len(<< >>) = 0 /\ DOMAIN << >> = {}
  OBVIOUS
<1>2. /\ \A u \in Users : queue[u] = << >> /\ callbacks[u] = {}
      /\ user \in Users /\ pipeline = << >> /\ late = << >> /\ author = << >>
      /\ reached = {} /\ refused = {} /\ stream = Closed("initial")
      /\ \A w \in Writes : answered[w] = "nothing"
  BY DEF Init
<1>3. /\ stream \in Stream /\ Matches(stream, pipeline, refused)
      /\ stream.sent = << >> /\ stream.answers = << >>
  BY <1>1, <1>2, ClosedMatches
<1>4. TypeOK
  BY <1>1, <1>3, PipelineAssumption DEF Init, TypeOK
<1>5. QueueInv
  BY <1>1, <1>2 DEF QueueInv, Ascending, Owned
<1>6. PrefixOf(pipeline, queue[user])
  BY <1>1, <1>2 DEF PrefixOf
<1>7. CallbackInv /\ Remembered /\ Writers /\ AnswersReached
  BY <1>1, <1>2, <1>3 DEF CallbackInv, Remembered, Writers, AnswersReached
<1>8. InOrder(late) /\ AnswersAreTrue
  BY <1>1, <1>2 DEF InOrder, AnswersAreTrue
<1> QED BY <1>3, <1>4, <1>5, <1>6, <1>7, <1>8 DEF IInv

LEMMA Inductive == IInv /\ [Next]_vars => IInv'
<1> SUFFICES ASSUME IInv, [Next]_vars PROVE IInv'
  OBVIOUS
<1>0. faults \in 0..MaxFaults
  BY DEF IInv, TypeOK
<1>1. CASE WriteMutations
  BY <1>1, Issued
<1>2. CASE Respond
  <2>1. CASE OpenStream
    BY <2>1, Opened
  <2>2. CASE BackoffElapses
    BY <2>2, BackedOff
  <2>3. CASE ReadHandshake
    BY <2>3, ShookHands
  <2>4. CASE RejectFront
    BY <2>4, FrontRejected
  <2>5. CASE CallBroken
    BY <1>0, <2>5, Stopped DEF CallBroken
  <2> QED BY <1>2, <2>1, <2>2, <2>3, <2>4, <2>5 DEF Respond
<1>3. CASE ReadResult
  BY <1>3, ResultRead
<1>4. CASE IdleTimeout
  BY <1>0, <1>4, Stopped DEF IdleTimeout
<1>5. CASE Greet
  BY <1>5, Greeted
<1>6. CASE Apply
  BY <1>6, Applied
<1>7. CASE Refuse
  BY <1>7, Refused
<1>8. CASE ArriveLate
  BY <1>8, CameLate
<1>9. CASE Failure
  BY <1>9, Failed
<1>10. CASE UNCHANGED vars
  <2>1. UNCHANGED <<device, pipeline, stream, author, answered, reached, refused, late, faults>>
    BY <1>10 DEF vars, service
  <2>2. stream \in Stream /\ Matches(stream, pipeline, refused)
    BY DEF IInv, TypeOK
  <2> QED BY <1>0, <2>1, <2>2, QuietStep
<1> QED BY <1>1, <1>2, <1>3, <1>4, <1>5, <1>6, <1>7, <1>8, <1>9, <1>10 DEF Next

LEMMA Invariant == Safety => []IInv
BY Initially, Inductive, PTL DEF Safety
----------------------------------------------------------------------------
(* The theorems.                                                           *)

(* Every variable keeps its type: batch numbers stay positive, and the     *)
(* rows on disk, in the pipeline, in a call and in the handlers are        *)
(* batches.                                                                *)
THEOREM TypeCorrect == Safety => []TypeOK
<1>1. IInv => TypeOK
  BY DEF IInv
<1> QED BY <1>1, Invariant, PTL

(* What a completion handler is told (NotifyUser) is true of the service.  *)
THEOREM HandlersAreToldTheTruth == Safety => []AnswersAreTrue
<1>1. IInv => AnswersAreTrue
  BY DEF IInv
<1> QED BY <1>1, Invariant, PTL

(* A request of the stream was written by the user whose credentials it    *)
(* carries, across sign-ins, restarts and broken calls.                    *)
THEOREM RequestsAreTheUsers == Safety => []SentByItsAuthor
<1>1. IInv => SentByItsAuthor
  BY DEF IInv, Writers, SentByItsAuthor
<1> QED BY <1>1, Invariant, PTL

(* No HARD_ASSERT of remote_store.cc and leveldb_mutation_queue.cc that    *)
(* the model has can fail.                                                 *)
THEOREM NoAssertionFails == Safety => []AssertionsHold
<1>1. ASSUME IInv
      PROVE  AssertionsHold
  <2>1. stream.idle => pipeline = << >>
    BY <1>1 DEF IInv, Matches, Wanted
  <2>2. stream.answers # << >> => pipeline # << >>
    <3>1. SUFFICES ASSUME stream.answers # << >>, pipeline = << >>
                   PROVE  FALSE
      OBVIOUS
    <3>2. stream.answers \in Seq(Batch) /\ Matches(stream, pipeline, refused)
      BY <1>1 DEF IInv, TypeOK, Stream
    <3>3. PrefixOf(stream.answers, pipeline)
      BY <3>1, <3>2 DEF Matches, ShapeOf, Follows
    <3>4. Len(stream.answers) \in Nat /\ Len(stream.answers) <= 0
      BY <3>1, <3>2, <3>3 DEF PrefixOf
    <3> QED BY <3>1, <3>2, <3>4, EmptySeq
  <2>3. pipeline # << >> => \E i \in DOMAIN queue[user] : queue[user][i] = Head(pipeline)
    BY <1>1, FrontIsFirst
  <2> QED BY <2>1, <2>2, <2>3 DEF AssertionsHold
<1> QED BY <1>1, Invariant, PTL
----------------------------------------------------------------------------
(* The durable queue.                                                      *)
OnDisk == UNION {Queued(u) : u \in Users}

Forgotten == DOMAIN author \ OnDisk

LEMMA RowsOnDisk ==
    ASSUME IInv, NEW w
    PROVE  w \in OnDisk <=> \E u \in Users : \E i \in DOMAIN queue[u] : queue[u][i].write = w
BY DEF OnDisk, Queued

LEMMA BeforeIsEarlier == \A w : Durable!Earlier(w) = Before(w)
BY DEF Durable!Earlier, Before

\* Only the front leaves the disk when it has been answered.
LEMMA FrontLeaves ==
    ASSUME IInv, IInv', pipeline # << >>, Head(pipeline).write \in Arrived,
           queue' = [queue EXCEPT ![user] = RemoveBatch(queue[user], Head(pipeline).id)],
           UNCHANGED <<author, reached, refused>>
    PROVE  /\ Head(pipeline).write \in DOMAIN author
           /\ Before(Head(pipeline).write) \subseteq Forgotten
           /\ Forgotten' = Forgotten \cup {Head(pipeline).write}
<1> DEFINE q == queue[user]
           f == Head(pipeline).write
           t == Tail(q)
<1>1. /\ q \in Seq(Batch) /\ q # << >> /\ f = q[1].write /\ 1 \in DOMAIN q
      /\ queue' = [queue EXCEPT ![user] = t]
      /\ user \in Users
  BY FrontIsFirst DEF IInv, TypeOK
<1>2. /\ queue'[user] = t
      /\ \A u \in Users : u # user => queue'[u] = queue[u]
  BY <1>1 DEF IInv, TypeOK
<1>3. /\ \A i \in DOMAIN t : i + 1 \in DOMAIN q /\ t[i] = q[i + 1] /\ i \in Nat \ {0}
      /\ \A i \in DOMAIN q : i # 1 => i - 1 \in DOMAIN t /\ t[i - 1] = q[i]
      /\ \A i \in DOMAIN q : i \in Nat \ {0}
  BY <1>1, TailRows
<1>4. /\ \A i, j \in DOMAIN q : i < j => q[i].write < q[j].write
      /\ \A i \in DOMAIN q : q[i].write \in DOMAIN author /\ author[q[i].write] = user
                             /\ q[i].write \in Nat
  BY <1>1, QueueRows, Authors DEF Ascending
<1>5. f \in DOMAIN author /\ author[f] = user
  BY <1>1, <1>4
<1> HIDE DEF q, f, t
<1>6. \A i \in DOMAIN q : i # 1 => f < q[i].write
  BY <1>1, <1>3, <1>4
<1>7. \A u \in Users : \A i \in DOMAIN queue[u] : u # user => queue[u][i].write # f
  BY <1>5, QueueRows
<1>8. Before(f) \subseteq Forgotten
  <2>1. ASSUME NEW v \in Before(f)
        PROVE  v \in DOMAIN author /\ v \notin OnDisk
    <3>1. v \in DOMAIN author /\ author[v] = user /\ v < f /\ v \in Nat
      BY <1>5, Authors DEF Before
    <3>2. ASSUME NEW u \in Users, NEW i \in DOMAIN queue[u], queue[u][i].write = v
          PROVE  FALSE
      <4>1. u = user
        BY <3>1, <3>2, QueueRows
      <4>2. i \in DOMAIN q /\ q[i].write = v
        BY <4>1, <3>2 DEF q
      <4> QED BY <4>2, <3>1, <1>1, <1>5, <1>6, Authors
    <3> QED BY <3>1, <3>2, RowsOnDisk
  <2> QED BY <2>1 DEF Forgotten
<1>9. ASSUME NEW w
      PROVE  w \in OnDisk' <=> w \in OnDisk /\ w # f
  <2>1. w \in OnDisk' <=>
            \E u \in Users : \E i \in DOMAIN queue'[u] : queue'[u][i].write = w
    BY DEF OnDisk, Queued
  <2>2. ASSUME w \in OnDisk, w # f
        PROVE  w \in OnDisk'
    <3>u. PICK u \in Users : \E i \in DOMAIN queue[u] : queue[u][i].write = w
      BY <2>2, RowsOnDisk
    <3>1. PICK i \in DOMAIN queue[u] : queue[u][i].write = w
      BY <3>u
    <3>2. CASE u # user
      BY <2>1, <3>1, <3>2, <1>2
    <3>3. CASE u = user
      <4>1. i \in DOMAIN q /\ q[i].write = w /\ i # 1
        BY <3>1, <3>3, <2>2, <1>1 DEF q
      <4>2. i - 1 \in DOMAIN t /\ t[i - 1].write = w
        BY <4>1, <1>3
      <4> QED BY <4>2, <2>1, <1>1, <1>2
    <3> QED BY <3>2, <3>3
  <2>3. ASSUME w \in OnDisk'
        PROVE  w \in OnDisk /\ w # f
    <3>u. PICK u \in Users : \E i \in DOMAIN queue'[u] : queue'[u][i].write = w
      BY <2>1, <2>3
    <3>1. PICK i \in DOMAIN queue'[u] : queue'[u][i].write = w
      BY <3>u
    <3>2. CASE u # user
      BY <3>1, <3>2, <1>2, <1>7, RowsOnDisk
    <3>3. CASE u = user
      <4>1. i \in DOMAIN t /\ t[i].write = w
        BY <3>1, <3>3, <1>2
      <4>2. i + 1 \in DOMAIN q /\ q[i + 1].write = w /\ i + 1 # 1
        BY <4>1, <1>3
      <4>3. w # f
        BY <4>2, <1>4, <1>5, <1>6, Authors
      <4> QED BY <4>2, <4>3, <1>1, RowsOnDisk DEF q
    <3> QED BY <3>2, <3>3
  <2> QED BY <2>2, <2>3
<1>10. Forgotten' = Forgotten \cup {f}
  <2>1. Forgotten' = DOMAIN author \ OnDisk'
    BY DEF Forgotten
  <2> QED BY <2>1, <1>5, <1>9 DEF Forgotten
<1> QED BY <1>5, <1>8, <1>10 DEF f

\* What the abstract specification does in a step.
LEMMA DurableForget ==
    ASSUME IInv, IInv', pipeline # << >>, Head(pipeline).write \in Arrived,
           queue' = [queue EXCEPT ![user] = RemoveBatch(queue[user], Head(pipeline).id)],
           UNCHANGED <<author, reached, refused>>
    PROVE  Durable!Next
<1> DEFINE f == Head(pipeline).write
<1>1. /\ f \in DOMAIN author /\ Before(f) \subseteq Forgotten
      /\ Forgotten' = Forgotten \cup {f} /\ Arrived' = Arrived /\ author' = author
  BY FrontLeaves DEF Arrived
<1> HIDE DEF f
<1>2. Durable!Forget(f)
  BY <1>1, BeforeIsEarlier DEF Durable!Forget, Forgotten, OnDisk, f
<1> QED BY <1>1, <1>2 DEF Durable!Next

LEMMA DurableArrive ==
    ASSUME NEW w \in DOMAIN author, Before(w) \subseteq Arrived,
           Arrived' = Arrived \cup {w}, UNCHANGED <<author, queue>>
    PROVE  Durable!Next
<1>1. Durable!Arrive(w)
  BY BeforeIsEarlier DEF Durable!Arrive, Queued
<1> QED BY <1>1 DEF Durable!Next

LEMMA DurableStutter ==
    ASSUME UNCHANGED <<author, queue, reached, refused>>
    PROVE  UNCHANGED Durable!vars
BY DEF Durable!vars, Arrived, Queued

\* The first of some requests in order has nothing of its user's before it.
LEMMA FirstInOrder ==
    ASSUME NEW s \in Seq(Batch), s # << >>, InOrder(s)
    PROVE  /\ Head(s).write \in DOMAIN author
           /\ Before(Head(s).write) \subseteq Arrived
<1>1. 1 \in DOMAIN s /\ Head(s) = s[1] /\ \A j \in DOMAIN s : ~(j < 1)
  BY TailRows
<1> QED BY <1>1 DEF InOrder

LEMMA DurableIssue ==
    ASSUME IInv, WriteMutations
    PROVE  Durable!Issue(user)
<1> DEFINE w == Len(author) + 1
           b == [id |-> nextId, write |-> w]
           r == Append(queue[user], b)
<1>1. /\ queue' = [queue EXCEPT ![user] = r] /\ author' = Append(author, user)
      /\ reached' = reached /\ refused' = refused
      /\ user \in Users /\ queue \in [Users -> Seq(Batch)]
      /\ author \in Seq(Users) /\ b \in Batch
  <2>1. Len(author) < MaxWrites /\ nextId \in Nat \ {0}
    BY DEF WriteMutations, IInv, TypeOK
  <2>2. w \in 1..MaxWrites
    BY <2>1, Authors, PipelineAssumption
  <2>3. b \in Batch
    BY <2>1, <2>2 DEF Batch, Writes
  <2> QED BY <2>3 DEF WriteMutations, IInv, TypeOK, service
<1>2. /\ DOMAIN author = 1..Len(author) /\ Len(author) \in Nat
      /\ DOMAIN author' = 1..w
  BY <1>1, Authors, AppendProperties, LenProperties
<1>3. DOMAIN author' = DOMAIN author \cup {w} /\ w \notin DOMAIN author
  BY <1>2
<1>4. /\ queue[user] \in Seq(Batch)
      /\ \A i \in DOMAIN queue[user] : i \in DOMAIN r /\ r[i] = queue[user][i]
      /\ \A i \in DOMAIN r : i \in DOMAIN queue[user] \/ r[i] = b
      /\ \E i \in DOMAIN r : r[i] = b
  <2> DEFINE n == Len(queue[user])
  <2>1. /\ n \in Nat /\ DOMAIN queue[user] = 1..n /\ DOMAIN r = 1..(n + 1)
        /\ \A i \in DOMAIN queue[user] : i \in DOMAIN r /\ r[i] = queue[user][i]
        /\ r[n + 1] = b
    BY <1>1, Appended
  <2> HIDE DEF n, r, b
  <2>2. \A i \in 1..(n + 1) : i \in 1..n \/ i = n + 1
    BY <2>1
  <2>3. n + 1 \in 1..(n + 1)
    BY <2>1
  <2> QED BY <1>1, <2>1, <2>2, <2>3
<1>5. b.write = w
  OBVIOUS
<1> HIDE DEF r, b, w
<1>6. /\ queue'[user] = r
      /\ \A u \in Users : u # user => queue'[u] = queue[u]
  BY <1>1, <1>4 DEF r
<1>7. ASSUME NEW v
      PROVE  v \in OnDisk' <=> v \in OnDisk \/ v = w
  <2>1. v \in OnDisk' <=>
            \E u \in Users : \E i \in DOMAIN queue'[u] : queue'[u][i].write = v
    BY DEF OnDisk, Queued
  <2>2. ASSUME v \in OnDisk
        PROVE  v \in OnDisk'
    <3>u. PICK u \in Users : \E i \in DOMAIN queue[u] : queue[u][i].write = v
      BY <2>2, RowsOnDisk
    <3>1. PICK i \in DOMAIN queue[u] : queue[u][i].write = v
      BY <3>u
    <3> QED BY <2>1, <3>1, <1>4, <1>6
  <2>3. w \in OnDisk'
    <3>1. \E u \in Users : \E i \in DOMAIN queue'[u] : queue'[u][i].write = w
      BY <1>1, <1>4, <1>5, <1>6
    <3> QED BY <3>1 DEF OnDisk, Queued
  <2>4. ASSUME v \in OnDisk', v # w
        PROVE  v \in OnDisk
    <3>u. PICK u \in Users : \E i \in DOMAIN queue'[u] : queue'[u][i].write = v
      BY <2>1, <2>4
    <3>1. PICK i \in DOMAIN queue'[u] : queue'[u][i].write = v
      BY <3>u
    <3>2. i \in DOMAIN queue[u] /\ queue[u][i].write = v
      BY <3>1, <2>4, <1>4, <1>5, <1>6
    <3> QED BY <3>2, RowsOnDisk
  <2> QED BY <2>2, <2>3, <2>4
<1>8. Forgotten' = Forgotten
  <2>1. Forgotten' = DOMAIN author' \ OnDisk'
    BY DEF Forgotten
  <2> QED BY <2>1, <1>3, <1>7 DEF Forgotten
<1> QED BY <1>1, <1>8 DEF Durable!Issue, Arrived, Forgotten, OnDisk

LEMMA DurableInit == Init => Durable!Init
<1>1. DOMAIN << >> = {}
  OBVIOUS
<1> QED BY <1>1 DEF Init, Durable!Init, Arrived

LEMMA DurableStep == IInv /\ IInv' /\ [Next]_vars => [Durable!Next]_(Durable!vars)
<1> SUFFICES ASSUME IInv, IInv', [Next]_vars
             PROVE  Durable!Next \/ UNCHANGED Durable!vars
  OBVIOUS
<1>1. CASE WriteMutations
  <2>1. user \in Users
    BY DEF IInv, TypeOK
  <2> QED BY <1>1, <2>1, DurableIssue DEF Durable!Next
<1>2. CASE RejectFront
  <2>1. /\ queue' = [queue EXCEPT ![user] = RemoveBatch(queue[user], Head(pipeline).id)]
        /\ UNCHANGED <<author, reached, refused>>
    BY <1>2 DEF RejectFront, Blamed, service
  <2> QED BY <1>2, <2>1, FrontRejected, DurableForget
<1>3. CASE ReadResult
  <2>1. /\ queue' = [queue EXCEPT ![user] = RemoveBatch(queue[user], Head(pipeline).id)]
        /\ UNCHANGED <<author, reached, refused>>
    BY <1>3 DEF ReadResult, service
  <2>2. pipeline # << >> /\ Head(pipeline).write \in Arrived
    BY <1>3, ResultRead DEF Arrived
  <2> QED BY <2>1, <2>2, DurableForget
<1>4. CASE Apply \/ Refuse
  <2>1. /\ stream.sent \in Seq(Batch) /\ stream.sent # << >> /\ InOrder(stream.sent)
    BY <1>4, SentInOrder DEF IInv, TypeOK, Stream, Apply, Refuse
  <2>2. Arrived' = Arrived \cup {Head(stream.sent).write} /\ UNCHANGED <<author, queue>>
    BY <1>4 DEF Apply, Refuse, Arrived, device
  <2> QED BY <2>1, <2>2, FirstInOrder, DurableArrive
<1>5. CASE ArriveLate
  <2>1. late \in Seq(Batch) /\ late # << >> /\ InOrder(late)
    BY <1>5 DEF IInv, TypeOK, ArriveLate
  <2>2. Arrived' = Arrived \cup {Head(late).write} /\ UNCHANGED <<author, queue>>
    BY <1>5 DEF ArriveLate, Arrived, device
  <2> QED BY <2>1, <2>2, FirstInOrder, DurableArrive
<1>6. CASE OpenStream \/ BackoffElapses \/ ReadHandshake \/ CallBroken \/ IdleTimeout \/ Greet
  <2>1. UNCHANGED <<author, queue, reached, refused>>
    BY <1>6 DEF OpenStream, BackoffElapses, ReadHandshake, CallBroken, IdleTimeout,
           Greet, device, service
  <2> QED BY <2>1, DurableStutter
<1>7. CASE Failure
  <2>1. UNCHANGED <<author, queue, reached, refused>>
    BY <1>7 DEF Failure, Break, NoToken, ConnectivityChange,
           HandleCredentialChange, Relaunch, device, service
  <2> QED BY <2>1, DurableStutter
<1>8. CASE UNCHANGED vars
  <2>1. UNCHANGED <<author, queue, reached, refused>>
    BY <1>8 DEF vars, device, service
  <2> QED BY <2>1, DurableStutter
<1> QED BY <1>1, <1>2, <1>3, <1>4, <1>5, <1>6, <1>7, <1>8 DEF Next, Respond

(* What the app's writes may count on, whatever the connection, the        *)
(* sign-ins and the process do: each user's writes arrive for the first    *)
(* time in the order they were issued in, and leave the disk in that order *)
(* and only after they have arrived.                                       *)
THEOREM WritesAreDurable == Safety => ImplementsDurableWrites
<1>1. Safety => []IInv
  BY Invariant
<1>2. Init => Durable!Init
  BY DurableInit
<1>3. IInv /\ IInv' /\ [Next]_vars => [Durable!Next]_(Durable!vars)
  BY DurableStep
<1> QED BY <1>1, <1>2, <1>3, PTL DEF Safety, ImplementsDurableWrites, Durable!Safety

----------------------------------------------------------------------------
(* The document on top of the pipeline.  Every theorem above is about it   *)
(* too.                                                                    *)

\* What an answer about w at version v says of the history h.
Tells(h, v, w) == IF w \in Clears THEN h[v] = {} ELSE w \in h[v]

AckInv ==
    /\ Len(ackVersions) = Len(stream.answers)
    /\ \A i \in DOMAIN ackVersions :
           Tells(history, ackVersions[i], stream.answers[i].write)
    /\ \A i, j \in DOMAIN ackVersions : i < j => ackVersions[i] <= ackVersions[j]

KindInv ==
    /\ cache.kind = "none" => cache.version = 0
    /\ cache.kind = "unknown" => cache.committed /\ history[cache.version] # {}
    /\ cache.kind # "none" => cache.version # 0

CommittedInv ==
    cache.committed => \A i \in DOMAIN ackVersions : cache.version <= ackVersions[i]

\* What the cache shows has been in the field.
ValueInv ==
    \A x \in cache.value : \E v \in DOMAIN history : v <= cache.version /\ x \in history[v]

WrittenInv ==
    \A v \in DOMAIN history : \A x \in history[v] : x \in Writes => x \in DOMAIN author

DocTypeOK ==
    /\ history \in Seq(SUBSET Elements)
    /\ history # << >>
    /\ cache \in Cached
    /\ cache.version \in 0..Len(history)
    /\ ackVersions \in Seq(1..Len(history))
    /\ watched \in 0..cache.version

DocInv ==
    /\ DocTypeOK
    /\ AckInv
    /\ KindInv
    /\ CommittedInv
    /\ ValueInv
    /\ WrittenInv
    /\ CleanCacheIsTheServices

CacheInv == IInv /\ DocInv

----------------------------------------------------------------------------
(* DocumentCache's steps are the pipeline's.                               *)

LEMMA PipelineStep == [CacheNext]_allVars => [Next]_vars
BY DEF CacheNext, allVars, vars, ApplyWrite, ArriveLateWrite, ForeignWrite,
       ReadWriteResult, ApplyRemoteEvent, Next

LEMMA IsPipeline == CacheSafety => Safety
<1>1. CacheInit => Init
  BY DEF CacheInit
<1> QED BY <1>1, PipelineStep, PTL DEF CacheSafety, Safety

\* What the others' steps leave of the unread answers: a beginning.
LEMMA FillingAnswers ==
    ASSUME NEW s \in Stream, NEW q, NEW p, FillWritePipeline(q, p, s)
    PROVE  stream'.answers = s.answers
<1> DEFINE more == NextBatches(q, p)
           t == Send(s, more)
           r == MarkIdle(t, p \o more)
<1>1. stream' = StartIfNeeded(r, p \o more)
  BY DEF FillWritePipeline
<1>2. /\ t.answers = s.answers
      /\ t = [x \in DOMAIN t |-> t[x]] /\ DOMAIN t = DOMAIN s
  BY DEF Send, Stream
<1> HIDE DEF t
<1>3. /\ r.answers = t.answers
      /\ r = [x \in DOMAIN r |-> r[x]] /\ DOMAIN r = DOMAIN t
  BY <1>2 DEF MarkIdle, Stream
<1> HIDE DEF r
<1>4. stream'.answers = r.answers
  BY <1>1, <1>2, <1>3 DEF StartIfNeeded, Stream
<1> QED BY <1>2, <1>3, <1>4

Beginning(a, b) == \E n \in 0..Len(b) : a = SubSeq(b, 1, n)

LEMMA Beginnings ==
    ASSUME NEW S, NEW b \in Seq(S), NEW a, a = b \/ a = << >> \/ Beginning(a, b)
    PROVE  Beginning(a, b)
<1>1. Len(b) \in Nat /\ 0 \in 0..Len(b) /\ Len(b) \in 0..Len(b)
  BY LenProperties
<1>2. SubSeq(b, 1, Len(b)) = b /\ SubSeq(b, 1, 0) = << >>
  OBVIOUS
<1> QED BY <1>1, <1>2 DEF Beginning

LEMMA AnswersLeft ==
    ASSUME IInv,
           WriteMutations \/ Respond \/ IdleTimeout \/ Greet \/ Refuse \/ Failure
    PROVE  Beginning(stream'.answers, stream.answers)
<1>1. stream \in Stream /\ stream.answers \in Seq(Batch) /\ pipeline \in Seq(Batch)
  BY DEF IInv, TypeOK, Stream
<1> SUFFICES \/ stream'.answers = stream.answers
             \/ stream'.answers = << >>
             \/ Beginning(stream'.answers, stream.answers)
  BY <1>1, Beginnings
<1>2. ASSUME NEW state \in {"initial", "error"}
      PROVE  Closed(state) \in Stream /\ Closed(state).answers = << >>
  BY <1>1, ClosedMatches
<1>3. CASE WriteMutations
  BY <1>1, <1>3, FillingAnswers DEF WriteMutations
<1>4. CASE OpenStream \/ BackoffElapses \/ Greet \/ Refuse
  BY <1>1, <1>4 DEF OpenStream, BackoffElapses, Greet, Refuse, Stream
<1>5. CASE ReadHandshake
  BY <1>1, <1>5 DEF ReadHandshake, Send, Stream
<1>6. CASE RejectFront
  BY <1>2, <1>6, FillingAnswers DEF RejectFront
<1>7. CASE CallBroken \/ NoToken
  <2>1. stream' = StartIfNeeded(Closed("error"), pipeline)
    BY <1>7 DEF CallBroken, NoToken
  <2> QED BY <2>1, <1>1, StartedMatches
<1>8. CASE IdleTimeout
  BY <1>2, <1>8 DEF IdleTimeout
<1>9. CASE Break
  BY <1>1, <1>9 DEF Break, Beginning, Stream
<1>10. ASSUME NEW q, RestartNetwork(q)
       PROVE  stream'.answers = << >>
  BY <1>2, <1>10, FillingAnswers DEF RestartNetwork
<1>11. CASE ConnectivityChange \/ (\E u \in Users : HandleCredentialChange(u)) \/ Relaunch
  BY <1>10, <1>11 DEF ConnectivityChange, HandleCredentialChange, Relaunch
<1> QED BY <1>3, <1>4, <1>5, <1>6, <1>7, <1>8, <1>9, <1>11 DEF Respond, Failure
----------------------------------------------------------------------------
(* DocInv is inductive.                                                    *)

LEMMA DocTypes ==
    ASSUME DocInv
    PROVE  /\ history \in Seq(SUBSET Elements) /\ cache \in Cached
           /\ Len(history) \in Nat \ {0} /\ DOMAIN history = 1..Len(history)
           /\ \A v \in DOMAIN history : history[v] \in SUBSET Elements
           /\ Latest \in SUBSET Elements
           /\ cache.version \in 0..Len(history)
           /\ ackVersions \in Seq(1..Len(history))
           /\ Len(ackVersions) \in Nat /\ DOMAIN ackVersions = 1..Len(ackVersions)
           /\ \A i \in DOMAIN ackVersions : ackVersions[i] \in DOMAIN history
           /\ watched \in 0..cache.version
<1>1. /\ history \in Seq(SUBSET Elements) /\ history # << >> /\ cache \in Cached
      /\ cache.version \in 0..Len(history)
      /\ ackVersions \in Seq(1..Len(history)) /\ watched \in 0..cache.version
  BY DEF DocInv, DocTypeOK
<1>2. Len(history) \in Nat \ {0} /\ DOMAIN history = 1..Len(history)
  BY <1>1, LenProperties, EmptySeq
<1>3. \A v \in DOMAIN history : history[v] \in SUBSET Elements
  BY <1>1, <1>2, ElementOfSeq
<1>4. Latest \in SUBSET Elements
  BY <1>2, <1>3 DEF Latest
<1>5. /\ Len(ackVersions) \in Nat /\ DOMAIN ackVersions = 1..Len(ackVersions)
      /\ \A i \in DOMAIN ackVersions : ackVersions[i] \in 1..Len(history)
  BY <1>1, LenProperties, ElementOfSeq
<1> QED BY <1>1, <1>2, <1>3, <1>4, <1>5

\* The history only grows.
Longer ==
    /\ history' \in Seq(SUBSET Elements)
    /\ Len(history') \in Nat /\ Len(history) <= Len(history')
    /\ DOMAIN history' = 1..Len(history')
    /\ \A v \in DOMAIN history : v \in DOMAIN history' /\ history'[v] = history[v]

LEMMA Grows ==
    ASSUME DocInv, NEW value \in SUBSET Elements,
           history' = Append(history, value)
    PROVE  /\ Longer
           /\ Len(history') = Len(history) + 1 /\ history'[Len(history')] = value
           /\ \A v \in DOMAIN history' : v \in DOMAIN history \/ history'[v] = value
<1> DEFINE n == Len(history)
           m == Len(history')
<1>1. n \in Nat /\ DOMAIN history = 1..n /\ history \in Seq(SUBSET Elements)
  BY DocTypes
<1>2. /\ history' \in Seq(SUBSET Elements) /\ m = n + 1
      /\ \A v \in 1..n : history'[v] = history[v]
      /\ history'[n + 1] = value
  BY <1>1, AppendProperties
<1>3. DOMAIN history' = 1..m
  BY <1>2, LenProperties
<1> HIDE DEF n, m
<1>4. \A v \in DOMAIN history' : v \in DOMAIN history \/ history'[v] = value
  BY <1>1, <1>2, <1>3
<1>5. Longer
  BY <1>1, <1>2, <1>3 DEF Longer, n, m
<1> QED BY <1>2, <1>4, <1>5 DEF n, m

LEMMA Recorded ==
    ASSUME DocInv, NEW w \in Writes, Record(w)
    PROVE  /\ Longer
           /\ Tells(history', Len(history'), w)
           /\ \A v \in DOMAIN history' : \A x \in history'[v] :
                  x = w \/ \E u \in DOMAIN history : x \in history[u]
<1>1. /\ Len(history) \in Nat \ {0} /\ DOMAIN history = 1..Len(history)
      /\ Latest \in SUBSET Elements /\ history \in Seq(SUBSET Elements)
  BY DocTypes
<1>2. After(Latest, w) \in SUBSET Elements
  BY <1>1 DEF After, Elements
<1>3. /\ \A x \in After(Latest, w) : x = w \/ x \in Latest
      /\ IF w \in Clears THEN After(Latest, w) = {} ELSE w \in After(Latest, w)
  BY DEF After
<1>4. Len(history) \in DOMAIN history /\ Latest = history[Len(history)]
  BY <1>1 DEF Latest
<1>5. CASE After(Latest, w) = Latest
  <2>1. history' = history
    BY <1>5 DEF Record
  <2> QED BY <2>1, <1>1, <1>3, <1>4, <1>5 DEF Longer, Tells
<1>6. CASE After(Latest, w) # Latest
  <2>1. history' = Append(history, After(Latest, w))
    BY <1>6 DEF Record
  <2>2. /\ Longer /\ history'[Len(history')] = After(Latest, w)
        /\ \A v \in DOMAIN history' : v \in DOMAIN history \/ history'[v] = After(Latest, w)
    BY <2>1, <1>2, Grows
  <2>3. \A v \in DOMAIN history : history'[v] = history[v]
    BY <2>2 DEF Longer
  <2> QED BY <2>2, <2>3, <1>3, <1>4 DEF Tells
<1> QED BY <1>5, <1>6

\* What a longer history keeps.
LEMMA HistoryOnly ==
    ASSUME DocInv, Longer, UNCHANGED <<cache, watched>>
    PROVE  /\ cache' \in Cached /\ cache'.version \in 0..Len(history')
           /\ watched' \in 0..cache'.version /\ history' # << >>
           /\ KindInv' /\ ValueInv' /\ CleanCacheIsTheServices'
<1>1. /\ cache \in Cached /\ cache.version \in 0..Len(history)
      /\ Len(history) \in Nat \ {0} /\ DOMAIN history = 1..Len(history)
      /\ watched \in 0..cache.version
      /\ KindInv /\ ValueInv /\ CleanCacheIsTheServices
  BY DocTypes DEF DocInv
<1>2. cache.version # 0 => history'[cache.version] = history[cache.version]
  BY <1>1 DEF Longer
<1>3. cache'.version \in 0..Len(history') /\ history' # << >>
  BY <1>1, EmptySeq DEF Longer
<1>4. KindInv'
  BY <1>1, <1>2 DEF KindInv
<1>5. CleanCacheIsTheServices'
  BY <1>1, <1>2 DEF KindInv, CleanCacheIsTheServices
<1>6. ValueInv'
  <2> SUFFICES ASSUME NEW x \in cache'.value
               PROVE  \E v \in DOMAIN history' : v <= cache'.version /\ x \in history'[v]
    BY DEF ValueInv
  <2>1. PICK v \in DOMAIN history : v <= cache.version /\ x \in history[v]
    BY <1>1 DEF ValueInv
  <2>2. v \in DOMAIN history' /\ history'[v] = history[v]
    BY <2>1 DEF Longer
  <2> QED BY <2>1, <2>2
<1> QED BY <1>1, <1>3, <1>4, <1>5, <1>6

\* A beginning of the answers keeps its versions.
LEMMA AcksKept ==
    ASSUME IInv, DocInv, Beginning(stream'.answers, stream.answers),
           ackVersions' = SubSeq(ackVersions, 1, Len(stream'.answers)),
           UNCHANGED <<history, cache>>
    PROVE  ackVersions' \in Seq(1..Len(history')) /\ AckInv' /\ CommittedInv'
<1> DEFINE A == stream.answers
           B == stream'.answers
           a == Len(A)
<1>1. A \in Seq(Batch)
  BY DEF IInv, TypeOK, Stream
<1>2. /\ a \in Nat /\ Len(ackVersions) = a /\ ackVersions \in Seq(1..Len(history))
      /\ AckInv /\ CommittedInv /\ DOMAIN ackVersions = 1..a
  BY <1>1, DocTypes, LenProperties DEF DocInv, AckInv
<1>3. PICK n \in 0..a : B = SubSeq(A, 1, n)
  BY DEF Beginning
<1>4. /\ Len(B) = n /\ \A i \in 1..n : B[i] = A[i]
  BY <1>1, <1>2, <1>3
<1>5. /\ ackVersions' \in Seq(1..Len(history)) /\ Len(ackVersions') = n
      /\ DOMAIN ackVersions' = 1..n
      /\ \A i \in 1..n : ackVersions'[i] = ackVersions[i]
  BY <1>2, <1>3, <1>4
<1> HIDE DEF B, a
<1>6. \A i \in 1..n : i \in DOMAIN ackVersions
  BY <1>2, <1>3
<1>7. AckInv'
  <2>1. Len(ackVersions') = Len(stream'.answers)
    BY <1>4, <1>5 DEF B
  <2>2. \A i \in 1..n : Tells(history, ackVersions[i], A[i].write)
    BY <1>2, <1>6 DEF AckInv
  <2>3. \A i \in DOMAIN ackVersions' :
            Tells(history', ackVersions'[i], stream'.answers[i].write)
    BY <2>2, <1>4, <1>5 DEF B
  <2>4. \A i, j \in DOMAIN ackVersions' : i < j => ackVersions'[i] <= ackVersions'[j]
    BY <1>2, <1>5, <1>6 DEF AckInv
  <2> QED BY <2>1, <2>3, <2>4 DEF AckInv
<1>8. CommittedInv'
  BY <1>2, <1>5, <1>6 DEF CommittedInv
<1> QED BY <1>5, <1>7, <1>8
LEMMA AuthorsGrow ==
    ASSUME IInv, [Next]_vars
    PROVE  DOMAIN author \subseteq DOMAIN author'
<1>1. author \in Seq(Users) /\ user \in Users
  BY DEF IInv, TypeOK
<1>2. author' = author \/ author' = Append(author, user)
  BY DEF Next, vars, device, service, WriteMutations, Respond, OpenStream,
         BackoffElapses, ReadHandshake, RejectFront, CallBroken, ReadResult,
         IdleTimeout, Greet, Apply, Refuse, ArriveLate, Failure, Break, NoToken,
         ConnectivityChange, HandleCredentialChange, Relaunch
<1> QED BY <1>1, <1>2, AppendProperties, LenProperties

\* A longer history has only what somebody has written.
LEMMA WrittenKept ==
    ASSUME DocInv, DOMAIN author \subseteq DOMAIN author',
           \A v \in DOMAIN history' : \A x \in history'[v] :
               \/ x \notin Writes
               \/ x \in DOMAIN author
               \/ \E u \in DOMAIN history : x \in history[u]
    PROVE  WrittenInv'
BY DEF DocInv, WrittenInv

LEMMA DocAlongside ==
    ASSUME IInv, IInv', DocInv, [Next]_vars, Alongside,
           Beginning(stream'.answers, stream.answers)
    PROVE  DocInv'
<1>1. ackVersions' = SubSeq(ackVersions, 1, Len(stream'.answers))
  BY DEF Alongside
<1>2. history' = history /\ cache' = cache /\ watched' = watched
  BY DEF Alongside
<1>3. ackVersions' \in Seq(1..Len(history')) /\ AckInv' /\ CommittedInv'
  BY <1>1, <1>2, AcksKept
<1>4. WrittenInv'
  BY <1>2, AuthorsGrow, WrittenKept
<1>5. DocTypeOK'
  BY <1>2, <1>3 DEF DocInv, DocTypeOK
<1>6. KindInv' /\ ValueInv' /\ CleanCacheIsTheServices'
  BY <1>2 DEF DocInv, KindInv, ValueInv, CleanCacheIsTheServices
<1> QED BY <1>3, <1>4, <1>5, <1>6 DEF DocInv

\* The answers still to be read are the same, their versions too.
LEMMA AcksUnread ==
    ASSUME DocInv, Longer, stream'.answers = stream.answers, UNCHANGED <<ackVersions, cache>>
    PROVE  ackVersions' \in Seq(1..Len(history')) /\ AckInv' /\ CommittedInv'
<1>1. /\ ackVersions \in Seq(1..Len(history)) /\ AckInv /\ CommittedInv
      /\ Len(history) \in Nat /\ Len(history') \in Nat /\ Len(history) <= Len(history')
      /\ \A i \in DOMAIN ackVersions : ackVersions[i] \in DOMAIN history
  BY DocTypes DEF DocInv, Longer
<1>2. \A i \in DOMAIN ackVersions : history'[ackVersions[i]] = history[ackVersions[i]]
  BY <1>1 DEF Longer
<1>3. AckInv'
  BY <1>1, <1>2 DEF AckInv, Tells
<1>4. ackVersions \in Seq(1..Len(history'))
  <2>1. 1..Len(history) \subseteq 1..Len(history')
    BY <1>1
  <2> QED BY <1>1, <2>1, ElementOfSeq, LenProperties, SeqDef
<1> QED BY <1>1, <1>3, <1>4 DEF CommittedInv

LEMMA DocForeign ==
    ASSUME IInv, DocInv, ForeignWrite
    PROVE  DocInv'
<1>1. PICK x \in Foreign : history' = Append(history, Latest \cup {x})
  BY DEF ForeignWrite
<1>2. stream' = stream /\ author' = author /\ UNCHANGED <<cache, ackVersions, watched>>
  BY DEF ForeignWrite, vars
<1>3. Latest \cup {x} \in SUBSET Elements
  BY DocTypes DEF Elements
<1>4. /\ Longer
      /\ \A v \in DOMAIN history' : v \in DOMAIN history \/ history'[v] = Latest \cup {x}
  BY <1>1, <1>3, Grows
<1>5. /\ cache' \in Cached /\ cache'.version \in 0..Len(history')
      /\ watched' \in 0..cache'.version /\ history' # << >>
      /\ KindInv' /\ ValueInv' /\ CleanCacheIsTheServices'
  BY <1>2, <1>4, HistoryOnly
<1>6. ackVersions' \in Seq(1..Len(history')) /\ AckInv' /\ CommittedInv'
  BY <1>2, <1>4, AcksUnread
<1>7. WrittenInv'
  <2>1. x \notin Writes
    BY CacheAssumption, PipelineAssumption DEF Foreign, Writes
  <2>2. Len(history) \in DOMAIN history /\ Latest = history[Len(history)]
    BY DocTypes DEF Latest
  <2>3. \A v \in DOMAIN history : history'[v] = history[v]
    BY <1>4 DEF Longer
  <2>4. \A v \in DOMAIN history' : \A y \in history'[v] :
            y \notin Writes \/ \E u \in DOMAIN history : y \in history[u]
    BY <1>4, <2>1, <2>2, <2>3
  <2> QED BY <2>4, <1>2, WrittenKept
<1>8. DocTypeOK'
  BY <1>4, <1>5, <1>6 DEF DocTypeOK, Longer
<1> QED BY <1>5, <1>6, <1>7, <1>8 DEF DocInv

LEMMA DocLate ==
    ASSUME IInv, DocInv, ArriveLateWrite
    PROVE  DocInv'
<1> DEFINE w == Head(late).write
<1>1. /\ stream' = stream /\ author' = author /\ UNCHANGED <<cache, ackVersions, watched>>
      /\ late # << >> /\ (history' = history \/ Record(w))
  BY DEF ArriveLateWrite, ArriveLate
<1>2. late \in Seq(Batch) /\ InOrder(late)
  BY DEF IInv, TypeOK
<1>3. w \in Writes /\ w \in DOMAIN author
  <2>1. Head(late) \in Batch /\ Head(late).write \in DOMAIN author
    BY <1>1, <1>2, FirstInOrder
  <2> QED BY <2>1 DEF Batch
<1> HIDE DEF w
<1>4. /\ Longer
      /\ \A v \in DOMAIN history' : \A x \in history'[v] :
             x = w \/ \E u \in DOMAIN history : x \in history[u]
  <2>1. CASE history' = history
    BY <2>1, DocTypes DEF Longer
  <2>2. CASE Record(w)
    BY <2>2, <1>3, Recorded
  <2> QED BY <1>1, <2>1, <2>2
<1>5. /\ cache' \in Cached /\ cache'.version \in 0..Len(history')
      /\ watched' \in 0..cache'.version /\ history' # << >>
      /\ KindInv' /\ ValueInv' /\ CleanCacheIsTheServices'
  BY <1>1, <1>4, HistoryOnly
<1>6. ackVersions' \in Seq(1..Len(history')) /\ AckInv' /\ CommittedInv'
  BY <1>1, <1>4, AcksUnread
<1>7. WrittenInv'
  BY <1>1, <1>3, <1>4, WrittenKept
<1>8. DocTypeOK'
  BY <1>4, <1>5, <1>6 DEF DocTypeOK, Longer
<1> QED BY <1>5, <1>6, <1>7, <1>8 DEF DocInv

LEMMA DocApplied ==
    ASSUME IInv, DocInv, ApplyWrite
    PROVE  DocInv'
<1> DEFINE b == Head(stream.sent)
           A == stream.answers
           n == Len(history')
           k == Len(ackVersions)
<1>1. /\ Apply /\ Record(b.write) /\ ackVersions' = Append(ackVersions, n)
      /\ UNCHANGED <<cache, watched>> /\ author' = author
  BY DEF ApplyWrite, Apply
<1>2. /\ A \in Seq(Batch) /\ stream \in Stream
      /\ stream'.answers = Append(A, b)
  BY DEF Apply, ApplyWrite, IInv, TypeOK, Stream
<1>3. b \in Batch /\ b.write \in Writes /\ b.write \in DOMAIN author
  <2>1. stream.status = "live" /\ stream.sent # << >>
    BY <1>1 DEF Apply
  <2>2. b = stream.sent[1] /\ 1 \in DOMAIN stream.sent /\ b \in Batch
    BY <2>1, NextRequest
  <2> QED BY <2>2 DEF IInv, Writers, Batch
<1> HIDE DEF b
<1>4. /\ Longer /\ Tells(history', n, b.write)
      /\ \A v \in DOMAIN history' : \A x \in history'[v] :
             x = b.write \/ \E u \in DOMAIN history : x \in history[u]
  BY <1>1, <1>3, Recorded
<1>5. /\ cache' \in Cached /\ cache'.version \in 0..n
      /\ watched' \in 0..cache'.version /\ history' # << >>
      /\ KindInv' /\ ValueInv' /\ CleanCacheIsTheServices'
  BY <1>1, <1>4, HistoryOnly
<1>6. WrittenInv'
  BY <1>1, <1>3, <1>4, WrittenKept
<1>7. /\ k \in Nat /\ DOMAIN ackVersions = 1..k /\ Len(A) = k
      /\ ackVersions \in Seq(1..Len(history)) /\ AckInv /\ CommittedInv
      /\ \A i \in 1..k : ackVersions[i] \in DOMAIN history
      /\ \A i \in 1..k : ackVersions[i] \in Nat /\ ackVersions[i] <= n
      /\ n \in Nat \ {0}
  BY <1>4, DocTypes DEF DocInv, AckInv, Longer
<1>8. ackVersions \in Seq(1..n)
  <2>1. \A i \in 1..k : ackVersions[i] \in 1..n
    BY <1>7, DocTypes
  <2> QED BY <1>7, <2>1, SeqDef, LenProperties
<1>9. /\ ackVersions' \in Seq(1..n) /\ Len(ackVersions') = k + 1
      /\ DOMAIN ackVersions' = 1..(k + 1)
      /\ \A i \in 1..k : ackVersions'[i] = ackVersions[i]
      /\ ackVersions'[k + 1] = n
  <2> HIDE DEF n, k
  <2>1. n \in 1..n
    BY <1>7
  <2>2. /\ ackVersions' \in Seq(1..n) /\ Len(ackVersions') = Len(ackVersions) + 1
        /\ \A i \in 1..Len(ackVersions) : ackVersions'[i] = ackVersions[i]
        /\ ackVersions'[Len(ackVersions) + 1] = n
    BY <1>1, <1>8, <2>1, AppendProperties
  <2> QED BY <2>2, LenProperties DEF k
<1>10. /\ Len(stream'.answers) = k + 1
       /\ \A i \in 1..k : stream'.answers[i] = A[i]
       /\ stream'.answers[k + 1] = b
  BY <1>2, <1>3, <1>7, AppendProperties
<1> HIDE DEF n, k, A
<1>11. \A i \in 1..k : Tells(history', ackVersions[i], A[i].write)
  <2>1. \A i \in 1..k : Tells(history, ackVersions[i], A[i].write)
    BY <1>7 DEF AckInv, A
  <2>2. \A i \in 1..k : history'[ackVersions[i]] = history[ackVersions[i]]
    BY <1>4, <1>7 DEF Longer
  <2> QED BY <2>1, <2>2 DEF Tells
<1>12. AckInv'
  <2>1. \A i \in 1..(k + 1) : i \in 1..k \/ i = k + 1
    BY <1>7
  <2>2. \A i \in DOMAIN ackVersions' :
            Tells(history', ackVersions'[i], stream'.answers[i].write)
    BY <1>4, <1>9, <1>10, <1>11, <2>1
  <2>3. \A i, j \in 1..k : i < j => ackVersions[i] <= ackVersions[j]
    BY <1>7 DEF AckInv
  <2>4. \A i, j \in DOMAIN ackVersions' : i < j => ackVersions'[i] <= ackVersions'[j]
    <3> SUFFICES ASSUME NEW i \in 1..(k + 1), NEW j \in 1..(k + 1), i < j
                 PROVE  ackVersions'[i] <= ackVersions'[j]
      BY <1>9
    <3>1. i \in 1..k
      BY <1>7
    <3> QED BY <3>1, <2>1, <2>3, <1>7, <1>9
  <2> QED BY <1>9, <1>10, <2>2, <2>4 DEF AckInv
<1>13. CommittedInv'
  <2>1. cache'.committed => \A i \in 1..k : cache'.version <= ackVersions[i]
    BY <1>1, <1>7 DEF CommittedInv
  <2>2. cache'.version <= n
    BY <1>5, <1>7
  <2>3. \A i \in 1..(k + 1) : i \in 1..k \/ i = k + 1
    BY <1>7
  <2> QED BY <2>1, <2>2, <2>3, <1>9 DEF CommittedInv
<1>14. DocTypeOK'
  BY <1>4, <1>5, <1>9 DEF DocTypeOK, Longer, n
<1> QED BY <1>5, <1>6, <1>12, <1>13, <1>14 DEF DocInv
LEMMA AnswersAhead ==
    ASSUME IInv, DocInv, ReadResult
    PROVE  /\ pipeline # << >> /\ Head(pipeline) = stream.answers[1]
           /\ Head(pipeline).write \in Writes
           /\ stream.answers \in Seq(Batch) /\ stream.answers # << >>
           /\ stream'.answers = Tail(stream.answers)
           /\ 1 \in DOMAIN ackVersions /\ ackVersions # << >>
           /\ Head(ackVersions) = ackVersions[1]
           /\ Tells(history, Head(ackVersions), Head(pipeline).write)
<1> DEFINE A == stream.answers
<1>1. /\ pipeline # << >> /\ pipeline \in Seq(Batch) /\ A \in Seq(Batch) /\ A # << >>
      /\ stream \in Stream /\ Matches(stream, pipeline, refused)
      /\ stream.hello = "done"
  BY ResultRead DEF ReadResult, IInv, TypeOK, Stream
<1>2. /\ Len(A) \in Nat \ {0} /\ 1 \in 1..Len(A) /\ PrefixOf(A, pipeline)
  BY <1>1, LenProperties, EmptySeq DEF Matches, Follows
<1>3. Head(pipeline) = pipeline[1] /\ pipeline[1] = A[1] /\ A[1] \in Batch
  BY <1>1, <1>2, ElementOfSeq DEF PrefixOf
<1>4. stream'.answers = Tail(A)
  <2> DEFINE s == [stream EXCEPT !.answers = Tail(@)]
  <2>1. FillWritePipeline(RemoveBatch(queue[user], Head(pipeline).id), Tail(pipeline), s)
    BY DEF ReadResult
  <2>2. Tail(A) \in Seq(Batch)
    BY <1>1, TailRows
  <2>3. s \in Stream /\ s.answers = Tail(A)
    BY <1>1, <2>2 DEF Stream
  <2> HIDE DEF s
  <2> QED BY <2>1, <2>3, FillingAnswers
<1>5. /\ Len(ackVersions) = Len(A) /\ ackVersions \in Seq(1..Len(history))
      /\ DOMAIN ackVersions = 1..Len(ackVersions) /\ AckInv
  BY DocTypes DEF DocInv, AckInv
<1>6. 1 \in DOMAIN ackVersions /\ ackVersions # << >> /\ Head(ackVersions) = ackVersions[1]
  BY <1>2, <1>5, EmptySeq
<1> QED BY <1>1, <1>3, <1>4, <1>5, <1>6 DEF AckInv, Batch

\* The rest of the versions, when the first has been read.
LEMMA AcksRead ==
    ASSUME IInv, DocInv, ReadWriteResult
    PROVE  /\ ackVersions' \in Seq(1..Len(history)) /\ AckInv'
           /\ \A i \in DOMAIN ackVersions' :
                  /\ i \in Nat /\ i + 1 \in DOMAIN ackVersions
                  /\ ackVersions'[i] = ackVersions[i + 1]
           /\ \A i \in DOMAIN ackVersions' : Head(ackVersions) <= ackVersions'[i]
<1> DEFINE A == stream.answers
           B == stream'.answers
           k == Len(ackVersions)
           V == ackVersions'
<1>1. /\ A \in Seq(Batch) /\ A # << >> /\ B = Tail(A)
      /\ 1 \in DOMAIN ackVersions /\ ackVersions # << >>
      /\ Head(ackVersions) = ackVersions[1]
  BY AnswersAhead DEF ReadWriteResult
<1>2. /\ k \in Nat \ {0} /\ Len(A) = k /\ DOMAIN ackVersions = 1..k
      /\ ackVersions \in Seq(1..Len(history)) /\ AckInv
  BY <1>1, DocTypes, EmptySeq DEF DocInv, AckInv
<1>3. V = Tail(ackVersions) /\ history' = history
  BY DEF ReadWriteResult
<1>4. /\ V \in Seq(1..Len(history)) /\ Len(V) = k - 1 /\ DOMAIN V = 1..(k - 1)
      /\ \A i \in 1..(k - 1) : V[i] = ackVersions[i + 1]
  <2>1. /\ V \in Seq(1..Len(history)) /\ Len(V) = Len(ackVersions) - 1
        /\ \A i \in 1..Len(V) : V[i] = ackVersions[i + 1]
    BY <1>1, <1>2, <1>3, HeadTailProperties
  <2> QED BY <2>1, LenProperties
<1>5. /\ Len(B) = k - 1 /\ \A i \in 1..(k - 1) : B[i] = A[i + 1]
  BY <1>1, <1>2, HeadTailProperties
<1> HIDE DEF A, B, k, V
<1>6. \A i \in 1..(k - 1) : i \in Nat /\ 1 < i + 1 /\ i + 1 \in 1..k /\ 1 \in 1..k
  BY <1>2
<1>7. /\ Len(V) = Len(B)
      /\ \A i \in DOMAIN V : Tells(history', V[i], B[i].write)
      /\ \A i, j \in DOMAIN V : i < j => V[i] <= V[j]
  <2>1. \A i \in 1..k : Tells(history, ackVersions[i], A[i].write)
    BY <1>2 DEF AckInv, A
  <2>2. \A i, j \in 1..k : i < j => ackVersions[i] <= ackVersions[j]
    BY <1>2 DEF AckInv
  <2>3. \A i \in DOMAIN V : Tells(history', V[i], B[i].write)
    BY <2>1, <1>3, <1>4, <1>5, <1>6
  <2>4. ASSUME NEW i \in 1..(k - 1), NEW j \in 1..(k - 1), i < j
        PROVE  V[i] <= V[j]
    <3>1. i + 1 < j + 1
      BY <2>4
    <3> QED BY <3>1, <2>2, <1>4, <1>6
  <2> QED BY <2>3, <2>4, <1>4, <1>5
<1>8. \A i \in DOMAIN V : Head(ackVersions) <= V[i]
  BY <1>1, <1>2, <1>4, <1>6 DEF AckInv
<1> QED BY <1>2, <1>4, <1>6, <1>7, <1>8 DEF AckInv, B, V

LEMMA DocRead ==
    ASSUME IInv, DocInv, ReadWriteResult
    PROVE  DocInv'
<1> DEFINE w == Head(pipeline).write
           v == Head(ackVersions)
<1>1. /\ ReadResult /\ cache' = Acknowledged(w, v)
      /\ history' = history /\ watched' = watched /\ author' = author
  BY DEF ReadWriteResult, ReadResult
<1>2. /\ w \in Writes /\ Tells(history, v, w)
      /\ 1 \in DOMAIN ackVersions /\ v = ackVersions[1]
  BY <1>1, AnswersAhead
<1>3. /\ ackVersions' \in Seq(1..Len(history)) /\ AckInv'
      /\ \A i \in DOMAIN ackVersions' :
             i + 1 \in DOMAIN ackVersions /\ ackVersions'[i] = ackVersions[i + 1]
      /\ \A i \in DOMAIN ackVersions' : v <= ackVersions'[i]
  BY AcksRead
<1> HIDE DEF w, v
<1>4. /\ Len(history) \in Nat /\ DOMAIN history = 1..Len(history) /\ v \in DOMAIN history
      /\ cache \in Cached /\ cache.version \in 0..Len(history) /\ watched \in 0..cache.version
  BY <1>2, DocTypes
<1>5. WrittenInv'
  BY <1>1, WrittenKept
<1>6. CASE cache.version < v
  <2>1. cache' = Patched(w, v)
    BY <1>1, <1>6 DEF Acknowledged
  <2>2. /\ cache'.version = v /\ cache'.committed
        /\ cache'.kind \in {"known", "unknown"}
        /\ cache'.kind = "unknown" => w \notin Clears
        /\ cache'.value = IF w \in Clears \/ cache.kind = "known"
                          THEN After(cache.value, w) ELSE {}
    BY <2>1 DEF Patched
  <2>3. cache' \in Cached
    <3>1. After(cache.value, w) \in SUBSET Elements
      BY <1>2, <1>4 DEF After, Elements, Cached
    <3> QED BY <2>1, <3>1, <1>4 DEF Patched, Cached
  <2>4. DocTypeOK'
    <3>1. watched' \in 0..cache'.version /\ cache'.version \in 0..Len(history')
      BY <1>1, <1>4, <1>6, <2>2
    <3> QED BY <3>1, <2>3, <1>1, <1>3 DEF DocInv, DocTypeOK
  <2>5. KindInv'
    BY <1>1, <1>2, <1>4, <2>2 DEF KindInv, Tells
  <2>6. CommittedInv'
    BY <1>3, <2>2 DEF CommittedInv
  <2>7. ValueInv'
    <3> SUFFICES ASSUME NEW x \in cache'.value
                 PROVE  \E u \in DOMAIN history : u <= v /\ x \in history[u]
      BY <1>1, <2>2 DEF ValueInv
    <3>1. (x = w /\ w \notin Clears) \/ x \in cache.value
      BY <2>2 DEF After
    <3>2. CASE x = w /\ w \notin Clears
      BY <3>2, <1>2, <1>4 DEF Tells
    <3>3. CASE x \in cache.value
      <4>1. PICK u \in DOMAIN history : u <= cache.version /\ x \in history[u]
        BY <3>3 DEF DocInv, ValueInv
      <4> QED BY <4>1, <1>4, <1>6
    <3> QED BY <3>1, <3>2, <3>3
  <2>8. CleanCacheIsTheServices'
    BY <2>2 DEF CleanCacheIsTheServices
  <2> QED BY <1>3, <1>5, <2>4, <2>5, <2>6, <2>7, <2>8 DEF DocInv
<1>7. CASE ~(cache.version < v)
  <2>1. cache' = cache
    BY <1>1, <1>7 DEF Acknowledged
  <2>2. DocTypeOK'
    BY <2>1, <1>1, <1>3 DEF DocInv, DocTypeOK
  <2>3. CommittedInv'
    BY <2>1, <1>3 DEF DocInv, CommittedInv
  <2> QED BY <1>1, <1>3, <1>5, <2>1, <2>2, <2>3
          DEF DocInv, KindInv, ValueInv, CleanCacheIsTheServices
<1> QED BY <1>6, <1>7

LEMMA DocWatched ==
    ASSUME IInv, DocInv, NEW version \in DOMAIN history, ApplyRemoteEvent(version)
    PROVE  DocInv'
<1>1. /\ watched' = version /\ history' = history /\ ackVersions' = ackVersions
      /\ stream' = stream /\ author' = author
  BY DEF ApplyRemoteEvent, vars
<1>2. /\ Len(history) \in Nat /\ DOMAIN history = 1..Len(history)
      /\ history[version] \in SUBSET Elements
      /\ cache \in Cached /\ cache.version \in 0..Len(history)
  BY DocTypes
<1>3. AckInv' /\ WrittenInv'
  BY <1>1 DEF DocInv, AckInv, WrittenInv
<1>4. CASE Accepted(version)
  <2>1. cache' = [kind |-> "known", version |-> version,
                  value |-> history[version], committed |-> FALSE]
    BY <1>4 DEF ApplyRemoteEvent
  <2>2. cache' \in Cached /\ watched' \in 0..cache'.version
        /\ cache'.version \in 0..Len(history')
    BY <2>1, <1>1, <1>2 DEF Cached
  <2>3. DocTypeOK'
    BY <2>2, <1>1 DEF DocInv, DocTypeOK
  <2>4. KindInv' /\ CommittedInv' /\ CleanCacheIsTheServices'
    BY <2>1, <1>1, <1>2 DEF KindInv, CommittedInv, CleanCacheIsTheServices
  <2>5. ValueInv'
    BY <2>1, <1>1, <1>2 DEF ValueInv
  <2> QED BY <1>3, <2>3, <2>4, <2>5 DEF DocInv
<1>5. CASE ~Accepted(version)
  <2>1. cache' = cache
    BY <1>5 DEF ApplyRemoteEvent
  <2>2. version \in 0..cache.version
    BY <1>2, <1>5 DEF Accepted
  <2>3. DocTypeOK'
    BY <2>1, <2>2, <1>1 DEF DocInv, DocTypeOK
  <2> QED BY <1>1, <1>3, <2>1, <2>3
          DEF DocInv, KindInv, CommittedInv, ValueInv, CleanCacheIsTheServices
<1> QED BY <1>4, <1>5

LEMMA DocInitially == CacheInit => DocInv
<1> SUFFICES ASSUME CacheInit
             PROVE  DocInv
  OBVIOUS
<1>1. /\ history = <<{}>> /\ ackVersions = << >> /\ watched = 0
      /\ cache = [kind |-> "none", version |-> 0, value |-> {}, committed |-> FALSE]
      /\ stream = Closed("initial")
  BY DEF CacheInit, Init
<1>2. /\ stream.answers = << >> /\ Len(ackVersions) = 0 /\ DOMAIN ackVersions = {}
      /\ ackVersions \in Seq(1..Len(history))
  BY <1>1 DEF Closed
<1>3. /\ history \in Seq(SUBSET Elements) /\ history # << >> /\ Len(history) = 1
      /\ DOMAIN history = 1..1 /\ history[1] = {}
  BY <1>1
<1>4. cache \in Cached
  BY <1>1 DEF Cached
<1>5. DocTypeOK
  BY <1>1, <1>2, <1>3, <1>4 DEF DocTypeOK
<1>6. AckInv /\ CommittedInv
  BY <1>1, <1>2 DEF AckInv, CommittedInv
<1>7. KindInv /\ ValueInv /\ CleanCacheIsTheServices
  BY <1>1 DEF KindInv, ValueInv, CleanCacheIsTheServices
<1>8. WrittenInv
  BY <1>3 DEF WrittenInv
<1> QED BY <1>5, <1>6, <1>7, <1>8 DEF DocInv

LEMMA DocInductive == CacheInv /\ [CacheNext]_allVars => CacheInv'
<1> SUFFICES ASSUME CacheInv, [CacheNext]_allVars
             PROVE  CacheInv'
  OBVIOUS
<1>1. IInv /\ DocInv /\ [Next]_vars
  BY PipelineStep DEF CacheInv
<1>2. IInv'
  BY <1>1, Inductive
<1> SUFFICES DocInv'
  BY <1>2 DEF CacheInv
<1>3. CASE ApplyWrite \/ ArriveLateWrite \/ ForeignWrite \/ ReadWriteResult
  BY <1>1, <1>3, DocApplied, DocLate, DocForeign, DocRead
<1>4. ASSUME NEW version \in DOMAIN history, ApplyRemoteEvent(version)
      PROVE  DocInv'
  BY <1>1, <1>4, DocWatched
<1>5. CASE /\ Alongside
           /\ WriteMutations \/ Respond \/ IdleTimeout \/ Greet \/ Refuse \/ Failure
  BY <1>1, <1>2, <1>5, AnswersLeft, DocAlongside
<1>6. CASE UNCHANGED allVars
  <2>1. UNCHANGED <<history, cache, ackVersions, watched, stream, author>>
    BY <1>6 DEF allVars, docVars, vars
  <2> QED BY <1>1, <2>1 DEF DocInv, DocTypeOK, AckInv, KindInv, CommittedInv, ValueInv,
          WrittenInv, CleanCacheIsTheServices, Latest
<1> QED BY <1>3, <1>4, <1>5, <1>6 DEF CacheNext

LEMMA CacheInvariant == CacheSafety => []CacheInv
<1>1. CacheInit => CacheInv
  BY Initially, DocInitially DEF CacheInit, CacheInv
<1> QED BY <1>1, DocInductive, PTL DEF CacheSafety
----------------------------------------------------------------------------
(* What leaves the screen.                                                 *)

\* Shown, of the waiting writes W over the cached document c.
ShownOf(W, c) ==
    LET clears == W \cap Clears
    IN  IF clears # {}
        THEN {w \in W \ Clears : \E d \in clears :
                  d < w /\ \A e \in clears : e <= d}
        ELSE IF c.kind = "known"
             THEN c.value \cup W
             ELSE {}

\* When the first of the waiting writes goes, it can be the only one to leave
\* the screen, if the document is known or did not matter.
LEMMA FirstGone ==
    ASSUME NEW W \in SUBSET Writes, NEW f \in W, \A x \in W : f <= x,
           NEW c, NEW d,
           \/ d.kind = "known" /\ (W \cap Clears = {} => c.value \subseteq d.value)
           \/ W \cap Clears # {} /\ f \notin Clears,
           NEW w \in ShownOf(W, c), w # f
    PROVE  w \in ShownOf(W \ {f}, d)
<1>1. \A x \in W : x \in Nat
  BY PipelineAssumption DEF Writes
<1>2. CASE W \cap Clears = {}
  <2>1. c.kind = "known" /\ w \in c.value \cup W
    BY <1>2 DEF ShownOf
  <2>2. d.kind = "known" /\ c.value \subseteq d.value /\ (W \ {f}) \cap Clears = {}
    BY <1>2
  <2> QED BY <2>1, <2>2 DEF ShownOf
<1>3. CASE W \cap Clears # {}
  <2>1. w \in W \ Clears
    BY <1>3 DEF ShownOf
  <2>2. PICK k \in W \cap Clears : k < w /\ \A e \in W \cap Clears : e <= k
    BY <1>3 DEF ShownOf
  <2>3. CASE k # f
    <3>1. k \in (W \ {f}) \cap Clears /\ \A e \in (W \ {f}) \cap Clears : e <= k
      BY <2>2, <2>3
    <3> QED BY <3>1, <2>1, <2>2 DEF ShownOf
  <2>4. CASE k = f
    <3>1. (W \ {f}) \cap Clears = {}
      <4> SUFFICES ASSUME NEW e \in W \cap Clears
                   PROVE  e = f
        OBVIOUS
      <4>1. e <= f /\ f <= e /\ e \in Nat /\ f \in Nat
        BY <1>1, <2>2, <2>4
      <4> QED BY <4>1
    <3>2. d.kind = "known"
      BY <2>2, <2>4
    <3> QED BY <3>1, <3>2, <2>1 DEF ShownOf
  <2> QED BY <2>3, <2>4
<1> QED BY <1>2, <1>3

\* The first itself is on the screen only over a known document.
LEMMA FirstShown ==
    ASSUME NEW W \in SUBSET Writes, NEW f \in W, \A x \in W : f <= x,
           NEW c, f \in ShownOf(W, c)
    PROVE  W \cap Clears = {} /\ c.kind = "known"
<1>1. \A x \in W : x \in Nat
  BY PipelineAssumption DEF Writes
<1>2. W \cap Clears = {}
  <2> SUFFICES ASSUME W \cap Clears # {}
               PROVE  FALSE
    OBVIOUS
  <2>1. PICK k \in W \cap Clears : k < f
    BY DEF ShownOf
  <2>2. f <= k /\ k \in Nat /\ f \in Nat
    BY <1>1
  <2> QED BY <2>1, <2>2
<1> QED BY <1>2 DEF ShownOf

LEMMA ShownHere ==
    /\ Shown = ShownOf(Waiting, cache)
    /\ Shown' = ShownOf(Waiting', cache')
BY DEF Shown, ShownOf

LEMMA WaitingRows ==
    ASSUME IInv
    PROVE  /\ Waiting \in SUBSET Writes /\ Waiting \subseteq DOMAIN author
           /\ \A x \in Waiting : x \in Nat
<1>1. user \in Users
  BY DEF IInv, TypeOK
<1>2. \A i \in DOMAIN queue[user] :
          queue[user][i].write \in Writes /\ queue[user][i].write \in DOMAIN author
  BY <1>1, QueueRows, Rows DEF Batch
<1>3. Waiting \subseteq Writes /\ Waiting \subseteq DOMAIN author
  BY <1>2 DEF Waiting, Queued
<1> QED BY <1>3, PipelineAssumption DEF Writes

\* Whatever is shown has been written by somebody.
LEMMA ShownAreWritten ==
    ASSUME IInv, DocInv, NEW w \in Shown, w \in Writes
    PROVE  w \in DOMAIN author
<1>1. w \in Waiting \/ w \in cache.value
  BY DEF Shown
<1>2. CASE w \in cache.value
  BY <1>2 DEF DocInv, ValueInv, WrittenInv
<1> QED BY <1>1, <1>2, WaitingRows

\* The front that leaves the queue is the first of the waiting writes.
LEMMA FrontOfWaiting ==
    ASSUME IInv, pipeline # << >>, user' = user,
           queue' = [queue EXCEPT ![user] = RemoveBatch(queue[user], Head(pipeline).id)]
    PROVE  /\ Head(pipeline).write \in Waiting
           /\ \A x \in Waiting : Head(pipeline).write <= x
           /\ Waiting' = Waiting \ {Head(pipeline).write}
<1> DEFINE q == queue[user]
           f == Head(pipeline).write
           t == Tail(q)
<1>1. /\ q \in Seq(Batch) /\ q # << >> /\ user \in Users /\ Ascending(q)
      /\ Head(pipeline) = q[1] /\ 1 \in DOMAIN q
      /\ RemoveBatch(q, Head(pipeline).id) = t
      /\ queue \in [Users -> Seq(Batch)]
  BY FrontIsFirst, QueueRows DEF IInv, TypeOK
<1>2. /\ DOMAIN t = 1..(Len(q) - 1) /\ DOMAIN q = 1..Len(q)
      /\ \A i \in DOMAIN t : i + 1 \in DOMAIN q /\ t[i] = q[i + 1]
      /\ \A i \in DOMAIN q : i # 1 => i - 1 \in DOMAIN t /\ t[i - 1] = q[i]
      /\ Len(q) \in Nat
  BY <1>1, TailRows
<1>3. queue'[user'] = t
  BY <1>1
<1>4. Waiting = {q[i].write : i \in DOMAIN q} /\ Waiting' = {t[i].write : i \in DOMAIN t}
  BY <1>3 DEF Waiting, Queued
<1>5. f = q[1].write
  BY <1>1
<1>6. \A i \in DOMAIN q : i # 1 => f < q[i].write
  <2>1. \A i \in DOMAIN q : i # 1 => 1 < i
    BY <1>2
  <2> QED BY <2>1, <1>1, <1>5 DEF Ascending
<1>7. \A i \in DOMAIN q : q[i].write \in Nat
  BY <1>1, Rows
<1> HIDE DEF q, f, t
<1>8. f \in Waiting /\ \A x \in Waiting : f <= x
  <2>1. f \in Waiting /\ f \in Nat
    BY <1>1, <1>4, <1>5, <1>7
  <2>2. \A i \in DOMAIN q : f <= q[i].write
    BY <2>1, <1>5, <1>6, <1>7
  <2> QED BY <2>1, <2>2, <1>4
<1>9. \A i \in DOMAIN t : t[i].write \in Waiting /\ t[i].write # f
  <2> TAKE i \in DOMAIN t
  <2>1. i + 1 \in DOMAIN q /\ i + 1 # 1 /\ t[i] = q[i + 1]
    BY <1>2
  <2>2. f < q[i + 1].write /\ f \in Nat /\ q[i + 1].write \in Nat
    BY <2>1, <1>1, <1>5, <1>6, <1>7
  <2> QED BY <2>1, <2>2, <1>4
<1>10. \A x \in Waiting \ {f} : x \in Waiting'
  <2> TAKE x \in Waiting \ {f}
  <2>1. PICK i \in DOMAIN q : q[i].write = x
    BY <1>4
  <2>2. i # 1
    BY <2>1, <1>5
  <2>3. i - 1 \in DOMAIN t /\ t[i - 1] = q[i]
    BY <2>2, <1>2
  <2> QED BY <2>1, <2>3, <1>4
<1>11. Waiting' = Waiting \ {f}
  BY <1>4, <1>9, <1>10
<1> QED BY <1>8, <1>11 DEF f
\* OwnWritesStay, of one step.
Excused(w) ==
    \/ user' # user
    \/ ClearedHere(w)'
    \/ ErasedByTheService(w)
    \/ AnsweredWithOldVersion(w)
    \/ /\ EndNoticed /\ WriteError
       /\ (w = Blamed.write \/ cache.kind # "known")

LEMMA NothingGone ==
    ASSUME Waiting' = Waiting, cache' = cache
    PROVE  Shown' = Shown
BY ShownHere

\* A write that is issued hides the others only if it is a clear.
LEMMA ShownIssued ==
    ASSUME IInv, DocInv, WriteMutations, cache' = cache,
           NEW w \in Shown \ Shown', w \in Writes
    PROVE  Excused(w)
<1> DEFINE n == Len(author) + 1
           b == [id |-> nextId, write |-> n]
           q == queue[user]
           r == Append(q, b)
<1>1. /\ user \in Users /\ user' = user /\ q \in Seq(Batch) /\ nextId \in Nat \ {0}
      /\ queue \in [Users -> Seq(Batch)] /\ queue' = [queue EXCEPT ![user] = r]
      /\ Len(author) \in Nat /\ n \in Writes
  <2>1. Len(author) \in Nat /\ Len(author) < MaxWrites
    BY Authors DEF WriteMutations
  <2> QED BY <2>1, PipelineAssumption, QueueRows DEF WriteMutations, IInv, TypeOK, Writes
<1>2. b \in Batch
  BY <1>1 DEF Batch
<1>3. queue'[user'] = r
  BY <1>1
<1>4. /\ DOMAIN q = 1..Len(q) /\ DOMAIN r = 1..(Len(q) + 1) /\ Len(q) \in Nat
      /\ \A i \in DOMAIN q : i \in DOMAIN r /\ r[i] = q[i]
      /\ r[Len(q) + 1] = b
  BY <1>1, <1>2, Appended
<1>5. Waiting = {q[i].write : i \in DOMAIN q} /\ Waiting' = {r[i].write : i \in DOMAIN r}
  BY <1>3 DEF Waiting, Queued
<1>6. b.write = n
  OBVIOUS
<1> HIDE DEF q, r, b, n
<1>7. Waiting' = Waiting \cup {n}
  <2>1. \A i \in DOMAIN r : i \in DOMAIN q \/ i = Len(q) + 1
    BY <1>4
  <2>2. \A x \in Waiting' : x \in Waiting \/ x = n
    BY <2>1, <1>4, <1>5, <1>6
  <2>3. n \in Waiting'
    BY <1>4, <1>5, <1>6
  <2>4. \A x \in Waiting : x \in Waiting'
    BY <1>4, <1>5
  <2> QED BY <2>2, <2>3, <2>4
<1>8. w < n
  <2>1. w \in DOMAIN author
    BY ShownAreWritten
  <2> QED BY <2>1, Authors DEF n
<1>9. CASE n \in Clears
  <2>1. n \in Clears \cap Waiting'
    BY <1>7, <1>9
  <2>2. ClearedHere(w)'
    BY <2>1, <1>8 DEF ClearedHere
  <2> QED BY <2>2 DEF Excused
<1>10. CASE n \notin Clears
  <2>1. Waiting' \cap Clears = Waiting \cap Clears
    BY <1>7, <1>10
  <2>2. w \in ShownOf(Waiting, cache) /\ w \notin ShownOf(Waiting', cache)
    BY ShownHere
  <2>3. w \in ShownOf(Waiting \cup {n}, cache)
    BY <2>1, <2>2, <1>7 DEF ShownOf
  <2> QED BY <2>2, <2>3, <1>7
<1> QED BY <1>9, <1>10

\* A rejected write was the first.
LEMMA ShownRejected ==
    ASSUME IInv, DocInv, RejectFront, cache' = cache,
           NEW w \in Shown \ Shown', w \in Writes
    PROVE  Excused(w)
<1> DEFINE f == Head(pipeline).write
<1>1. /\ pipeline # << >> /\ user' = user /\ EndNoticed /\ WriteError
      /\ queue' = [queue EXCEPT ![user] = RemoveBatch(queue[user], Head(pipeline).id)]
  BY FrontRejected DEF RejectFront, Blamed
<1>2. /\ f \in Waiting /\ \A x \in Waiting : f <= x /\ Waiting' = Waiting \ {f}
      /\ Waiting \in SUBSET Writes
  BY <1>1, FrontOfWaiting, WaitingRows
<1>3. Blamed.write = f
  BY DEF Blamed
<1> HIDE DEF f
<1>4. CASE w # f /\ cache.kind = "known"
  <2>1. w \in ShownOf(Waiting, cache) /\ w \notin ShownOf(Waiting \ {f}, cache)
    BY <1>2, ShownHere
  <2>2. w \in ShownOf(Waiting \ {f}, cache)
    BY <2>1, <1>2, <1>4, FirstGone
  <2> QED BY <2>1, <2>2
<1> QED BY <1>1, <1>3, <1>4 DEF Excused

\* An acknowledged write goes from the queue to the cached document, or has
\* been there; the exceptions are the named ones.
LEMMA ShownRead ==
    ASSUME IInv, DocInv, ReadWriteResult,
           NEW w \in Shown \ Shown', w \in Writes
    PROVE  Excused(w)
<1> DEFINE f == Head(pipeline).write
           v == Head(ackVersions)
<1>1. /\ pipeline # << >> /\ user' = user /\ ReadResult
      /\ queue' = [queue EXCEPT ![user] = RemoveBatch(queue[user], Head(pipeline).id)]
      /\ cache' = Acknowledged(f, v)
  BY ResultRead DEF ReadWriteResult, ReadResult
<1>2. /\ f \in Waiting /\ \A x \in Waiting : f <= x /\ Waiting' = Waiting \ {f}
      /\ Waiting \in SUBSET Writes
  BY <1>1, FrontOfWaiting, WaitingRows
<1>3. /\ Tells(history, v, f) /\ 1 \in DOMAIN ackVersions /\ v = ackVersions[1]
      /\ ackVersions # << >>
  BY <1>1, AnswersAhead
<1>4. /\ v \in DOMAIN history /\ DOMAIN history = 1..Len(history)
      /\ Len(history) \in Nat /\ cache.version \in 0..Len(history)
      /\ cache \in Cached
  BY <1>3, DocTypes
<1>5. KindInv /\ CommittedInv /\ ValueInv /\ CleanCacheIsTheServices
  BY DEF DocInv
<1>6. w \in ShownOf(Waiting, cache) /\ w \notin ShownOf(Waiting \ {f}, cache')
  BY <1>2, ShownHere
<1>7. f \in Writes
  BY <1>2
<1> HIDE DEF f, v
<1>8. CASE cache.version < v
  <2>1. cache' = Patched(f, v)
    BY <1>1, <1>8 DEF Acknowledged
  <2>2. CASE f \in Clears
    <3>1. cache'.kind = "known" /\ Waiting \cap Clears # {}
      BY <2>1, <2>2, <1>2 DEF Patched
    <3>2. w # f
      BY <3>1, <1>2, <1>6, FirstShown
    <3> QED BY <3>1, <3>2, <1>2, <1>6, FirstGone
  <2>3. CASE f \notin Clears /\ cache.kind = "known"
    <3>1. cache'.kind = "known" /\ cache.value \subseteq cache'.value /\ f \in cache'.value
      BY <2>1, <2>3 DEF Patched, After
    <3>2. w # f
      <4> SUFFICES ASSUME w = f
                   PROVE  FALSE
        OBVIOUS
      <4>1. Waiting \cap Clears = {}
        BY <1>2, <1>6, FirstShown
      <4>2. f \in ShownOf(Waiting \ {f}, cache')
        BY <4>1, <3>1 DEF ShownOf
      <4> QED BY <4>2, <1>6
    <3> QED BY <3>1, <3>2, <1>2, <1>6, FirstGone
  <2>4. CASE f \notin Clears /\ cache.kind # "known"
    <3>1. Waiting \cap Clears # {}
      BY <2>4, <1>6 DEF ShownOf
    <3>2. w # f
      BY <3>1, <1>2, <1>6, FirstShown
    <3> QED BY <2>4, <3>1, <3>2, <1>2, <1>6, FirstGone
  <2> QED BY <2>2, <2>3, <2>4
<1>9. CASE ~(cache.version < v)
  <2>1. cache' = cache
    BY <1>1, <1>9 DEF Acknowledged
  <2>2. v <= cache.version
    BY <1>4, <1>9
  <2>3. cache.committed => cache.version = v
    BY <1>3, <1>4, <1>5, <2>2 DEF CommittedInv
  <2>4. CASE f \in Clears
    <3>1. Waiting \cap Clears # {}
      BY <2>4, <1>2
    <3>2. cache.kind = "known"
      <4>1. cache.kind # "none"
        BY <1>4, <1>5, <2>2 DEF KindInv
      <4>2. cache.kind # "unknown"
        BY <1>3, <1>5, <2>3, <2>4 DEF KindInv, Tells
      <4> QED BY <4>1, <4>2, <1>4 DEF Cached
    <3>3. w # f
      BY <3>1, <1>2, <1>6, FirstShown
    <3> QED BY <2>1, <3>1, <3>2, <3>3, <1>2, <1>6, FirstGone
  <2>5. CASE f \notin Clears /\ w # f
    <3>1. Waiting \cap Clears = {} => cache.kind = "known"
      BY <1>6 DEF ShownOf
    <3> QED BY <2>1, <2>5, <3>1, <1>2, <1>6, FirstGone
  <2>6. CASE f \notin Clears /\ w = f
    <3>1. Waiting \cap Clears = {} /\ cache.kind = "known"
      BY <2>6, <1>2, <1>6, FirstShown
    <3>2. f \notin cache.value
      BY <2>1, <2>6, <3>1, <1>6 DEF ShownOf
    <3>3. f \in history[v]
      BY <1>3, <2>6 DEF Tells
    <3>4. CASE cache.committed
      <4>1. AnsweredWithOldVersion(w)
        BY <3>4, <2>3, <2>6, <1>3 DEF AnsweredWithOldVersion, f, v
      <4> QED BY <4>1 DEF Excused
    <3>5. CASE ~cache.committed
      <4>1. cache.value = history[cache.version]
        BY <3>1, <3>5, <1>5 DEF CleanCacheIsTheServices
      <4>2. v < cache.version /\ cache.version \in DOMAIN history
        BY <4>1, <3>2, <3>3, <2>2, <1>4
      <4>3. ErasedByTheService(w)
        BY <4>1, <4>2, <3>2, <3>3, <2>6, <1>4 DEF ErasedByTheService
      <4> QED BY <4>3 DEF Excused
    <3> QED BY <3>4, <3>5
  <2> QED BY <2>4, <2>5, <2>6
<1> QED BY <1>8, <1>9

\* What a newer snapshot does not have, the service has erased.
LEMMA ShownWatched ==
    ASSUME IInv, DocInv, NEW version \in DOMAIN history, ApplyRemoteEvent(version),
           NEW w \in Shown \ Shown', w \in Writes
    PROVE  Excused(w)
<1>1. Waiting' = Waiting
  BY DEF ApplyRemoteEvent, vars, device, Waiting, Queued
<1>2. /\ DOMAIN history = 1..Len(history) /\ Len(history) \in Nat
      /\ cache.version \in 0..Len(history)
  BY DocTypes
<1>3. w \in ShownOf(Waiting, cache) /\ w \notin ShownOf(Waiting, cache')
  BY <1>1, ShownHere
<1>4. Accepted(version) /\ cache' = [kind |-> "known", version |-> version,
                  value |-> history[version], committed |-> FALSE]
  <2>1. cache' # cache
    BY <1>3
  <2> QED BY <2>1 DEF ApplyRemoteEvent
<1>5. /\ w \in cache.value /\ w \notin history[version]
  BY <1>3, <1>4 DEF ShownOf
<1>6. PICK v \in DOMAIN history : v <= cache.version /\ w \in history[v]
  BY <1>5 DEF DocInv, ValueInv
<1>7. v < version
  <2>1. cache.version <= version
    BY <1>2, <1>4 DEF Accepted
  <2>2. v # version
    BY <1>5, <1>6
  <2> QED BY <2>1, <2>2, <1>2, <1>6
<1>8. ErasedByTheService(w)
  BY <1>5, <1>6, <1>7 DEF ErasedByTheService
<1> QED BY <1>8 DEF Excused

\* The other steps leave the queue of the user and the cache alone.
LEMMA ShownAlongside ==
    ASSUME IInv, DocInv, cache' = cache,
           Respond \/ IdleTimeout \/ Greet \/ Refuse \/ Failure,
           NEW w \in Shown \ Shown', w \in Writes
    PROVE  Excused(w)
<1>1. CASE RejectFront
  BY <1>1, ShownRejected
<1>2. CASE user' # user
  BY <1>2 DEF Excused
<1>3. CASE ~RejectFront /\ user' = user
  <2>1. queue' = queue
    BY <1>3 DEF Respond, OpenStream, BackoffElapses, ReadHandshake, CallBroken,
       IdleTimeout, Greet, Refuse, Failure, Break, NoToken, ConnectivityChange,
       HandleCredentialChange, Relaunch, device
  <2>2. Waiting' = Waiting
    BY <2>1, <1>3 DEF Waiting, Queued
  <2> QED BY <2>2, NothingGone
<1> QED BY <1>1, <1>2, <1>3
----------------------------------------------------------------------------
(* The theorems.                                                           *)

(* DocumentCache's variables keep their types, and a version belongs to    *)
(* every unread answer.                                                    *)
THEOREM CacheTypeCorrect == CacheSafety => []CacheTypeOK
<1>1. CacheInv => CacheTypeOK
  BY DEF CacheInv, IInv, DocInv, DocTypeOK, AckInv, CacheTypeOK
<1> QED BY <1>1, CacheInvariant, PTL

(* Whatever the order of acknowledgements and snapshots, a cached document *)
(* that holds nothing unconfirmed (ApplyBatchResult, ApplyRemoteEvent) is  *)
(* the service's at its version.                                           *)
THEOREM CleanCachesAreTheServices == CacheSafety => []CleanCacheIsTheServices
<1>1. CacheInv => CleanCacheIsTheServices
  BY DEF CacheInv, DocInv
<1> QED BY <1>1, CacheInvariant, PTL

(* What the user has written leaves the screen (GetDocument) only for the  *)
(* named causes, on its way from the queue to the confirmed document.      *)
THEOREM ShownWritesStay == CacheSafety => OwnWritesStay
<1>1. CacheInv /\ [CacheNext]_allVars =>
          [\A w \in (Shown \ Shown') \cap Writes : Excused(w)]_allVars
  <2> SUFFICES ASSUME CacheInv, CacheNext, NEW w \in Shown \ Shown', w \in Writes
               PROVE  Excused(w)
    OBVIOUS
  <2>1. IInv /\ DocInv
    BY DEF CacheInv
  <2>2. CASE ApplyWrite \/ ArriveLateWrite \/ ForeignWrite
    <3>1. queue' = queue /\ user' = user /\ cache' = cache
      BY <2>2 DEF ApplyWrite, Apply, ArriveLateWrite, ArriveLate, ForeignWrite, vars, device
    <3>2. Waiting' = Waiting
      BY <3>1 DEF Waiting, Queued
    <3> QED BY <3>1, <3>2, NothingGone
  <2>3. CASE ReadWriteResult
    BY <2>1, <2>3, ShownRead
  <2>4. CASE \E version \in DOMAIN history : ApplyRemoteEvent(version)
    BY <2>1, <2>4, ShownWatched
  <2>5. CASE WriteMutations /\ Alongside
    BY <2>1, <2>5, ShownIssued DEF Alongside
  <2>6. CASE (Respond \/ IdleTimeout \/ Greet \/ Refuse \/ Failure) /\ Alongside
    <3>1. cache' = cache
      BY <2>6 DEF Alongside
    <3> QED BY <2>1, <2>6, <3>1, ShownAlongside
  <2> QED BY <2>2, <2>3, <2>4, <2>5, <2>6 DEF CacheNext
<1> QED BY <1>1, CacheInvariant, PTL DEF CacheSafety, OwnWritesStay, Excused

(* DocumentCache stands on the same durable queue: every write arrives at  *)
(* least once, in its user's order, and is forgotten only then.            *)
THEOREM CacheIsDurable == CacheSafety => ImplementsDurableWrites
BY IsPipeline, WritesAreDurable
============================================================================
