--------------------------- MODULE MmChannelProofs ---------------------------
(***************************************************************************)
(* Theorems about the super buffers of a channel: the loops of the command *)
(* thread end, super buffers are whole and in order, the flash ends, no    *)
(* buffer is lost, and the queue never keeps all of a stream.              *)
(***************************************************************************)
EXTENDS MmChannel, SequenceTheorems, FiniteSetTheorems, WellFoundedInduction, TLAPS

-----------------------------------------------------------------------------
(* Sequences                                                               *)

(* A part of a sequence, element by element.                               *)
LEMMA SubSeqIs ==
    ASSUME NEW S, NEW q \in Seq(S), NEW m \in 1 .. Len(q) + 1, NEW n \in 0 .. Len(q)
    PROVE  /\ SubSeq(q, m, n) \in Seq(S)
           /\ Len(SubSeq(q, m, n)) = IF m <= n THEN n - m + 1 ELSE 0
           /\ \A i \in 1 .. Len(SubSeq(q, m, n)) : SubSeq(q, m, n)[i] = q[m + i - 1]
<1>1. Len(q) \in Nat
    BY LenProperties
<1>2. \A i \in m .. n : q[i] \in S
    BY <1>1, ElementOfSeq
<1> QED
    BY <1>1, <1>2, SubSeqProperties

(* A sequence, one element, and another sequence.                          *)
LEMMA JoinedIs ==
    ASSUME NEW S, NEW a \in Seq(S), NEW e \in S, NEW b \in Seq(S)
    PROVE  LET r == a \o <<e>> \o b IN
           /\ r \in Seq(S)
           /\ Len(r) = Len(a) + 1 + Len(b)
           /\ \A k \in 1 .. Len(a) + 1 + Len(b) :
                r[k] = IF k <= Len(a) THEN a[k]
                       ELSE IF k = Len(a) + 1 THEN e ELSE b[k - Len(a) - 1]
<1> DEFINE m == a \o <<e>>
<1>1. Len(a) \in Nat /\ Len(b) \in Nat
    BY LenProperties
<1>2. <<e>> \in Seq(S) /\ Len(<<e>>) = 1 /\ <<e>>[1] = e
    OBVIOUS
<1>3. /\ m \in Seq(S) /\ Len(m) = Len(a) + Len(<<e>>)
      /\ \A k \in 1 .. Len(a) + Len(<<e>>) :
            m[k] = IF k <= Len(a) THEN a[k] ELSE <<e>>[k - Len(a)]
    BY <1>2, ConcatProperties
<1>4. /\ m \in Seq(S) /\ Len(m) = Len(a) + 1
      /\ \A k \in 1 .. Len(a) + 1 : m[k] = IF k <= Len(a) THEN a[k] ELSE e
    BY <1>1, <1>2, <1>3
<1> HIDE DEF m
<1>5. /\ m \o b \in Seq(S) /\ Len(m \o b) = Len(m) + Len(b)
      /\ \A k \in 1 .. Len(m) + Len(b) :
            (m \o b)[k] = IF k <= Len(m) THEN m[k] ELSE b[k - Len(m)]
    BY <1>4, ConcatProperties
<1>6. /\ m \o b \in Seq(S) /\ Len(m \o b) = Len(a) + 1 + Len(b)
      /\ \A k \in 1 .. Len(a) + 1 + Len(b) :
            (m \o b)[k] = IF k <= Len(a) THEN a[k]
                           ELSE IF k = Len(a) + 1 THEN e ELSE b[k - Len(a) - 1]
    BY <1>1, <1>4, <1>5
<1> QED
    BY <1>6 DEF m

\* r is q with e put in at i, with e in place of the elements from f to p,
\* without the element p.
Inserted(q, i, e, r) ==
    /\ Len(r) = Len(q) + 1
    /\ \A k \in 1 .. Len(q) + 1 :
        r[k] = IF k < i THEN q[k] ELSE IF k = i THEN e ELSE q[k - 1]
Replaced(q, f, p, e, r) ==
    /\ Len(r) = Len(q) - (p - f)
    /\ \A k \in 1 .. Len(q) - (p - f) :
        r[k] = IF k < f THEN q[k] ELSE IF k = f THEN e ELSE q[k + (p - f)]
Removed(q, p, r) ==
    /\ Len(r) = Len(q) - 1
    /\ \A k \in 1 .. Len(q) - 1 : r[k] = IF k < p THEN q[k] ELSE q[k + 1]

(* The queue with one element put in.                                      *)
LEMMA InsertAtIs ==
    ASSUME NEW S, NEW q \in Seq(S), NEW i \in 1 .. Len(q) + 1, NEW e \in S
    PROVE  InsertAt(q, i, e) \in Seq(S) /\ Inserted(q, i, e, InsertAt(q, i, e))
<1> DEFINE a == SubSeq(q, 1, i - 1)
           b == SubSeq(q, i, Len(q))
           r == a \o <<e>> \o b
<1>1. Len(q) \in Nat
    BY LenProperties
<1>2. /\ a \in Seq(S) /\ Len(a) = i - 1
      /\ \A k \in 1 .. i - 1 : a[k] = q[k]
    BY <1>1, SubSeqIs
<1>3. /\ b \in Seq(S) /\ Len(b) = Len(q) - i + 1
      /\ \A k \in 1 .. Len(q) - i + 1 : b[k] = q[i + k - 1]
    BY <1>1, SubSeqIs
<1> HIDE DEF a, b
<1>4. /\ r \in Seq(S)
      /\ Len(r) = Len(a) + 1 + Len(b)
      /\ \A k \in 1 .. Len(a) + 1 + Len(b) :
            r[k] = IF k <= Len(a) THEN a[k]
                   ELSE IF k = Len(a) + 1 THEN e ELSE b[k - Len(a) - 1]
    <2>1. a \in Seq(S) /\ b \in Seq(S)
        BY <1>2, <1>3
    <2> QED
        BY <2>1, JoinedIs
<1> HIDE DEF r
<1>5. r \in Seq(S) /\ Len(r) = Len(q) + 1
    BY <1>1, <1>2, <1>3, <1>4
<1>6. ASSUME NEW k \in 1 .. Len(q) + 1
      PROVE  r[k] = IF k < i THEN q[k] ELSE IF k = i THEN e ELSE q[k - 1]
    <2>1. k \in 1 .. Len(a) + 1 + Len(b)
        BY <1>1, <1>2, <1>3
    <2>2. CASE k < i
        BY <1>1, <1>2, <1>4, <2>1, <2>2
    <2>3. CASE k = i
        BY <1>1, <1>2, <1>4, <2>1, <2>3
    <2>4. CASE k > i
        <3>1. r[k] = b[k - i] /\ k - i \in 1 .. Len(b)
            BY <1>1, <1>2, <1>3, <1>4, <2>1, <2>4
        <3> QED
            BY <1>1, <1>3, <2>4, <3>1
    <2> QED
        BY <1>1, <2>2, <2>3, <2>4
<1>7. InsertAt(q, i, e) = r
    BY DEF InsertAt, a, b, r
<1> QED
    BY <1>5, <1>6, <1>7 DEF Inserted

(* The queue with one element in place of those from f to p.               *)
LEMMA CutIs ==
    ASSUME NEW S, NEW q \in Seq(S), NEW p \in 1 .. Len(q), NEW f \in 1 .. p, NEW e \in S
    PROVE  LET r == SubSeq(q, 1, f - 1) \o <<e>> \o SubSeq(q, p + 1, Len(q)) IN
           r \in Seq(S) /\ Replaced(q, f, p, e, r)
<1> DEFINE a == SubSeq(q, 1, f - 1)
           b == SubSeq(q, p + 1, Len(q))
           r == a \o <<e>> \o b
<1>1. Len(q) \in Nat
    BY LenProperties
<1>2. /\ a \in Seq(S) /\ Len(a) = f - 1
      /\ \A k \in 1 .. f - 1 : a[k] = q[k]
    BY <1>1, SubSeqIs
<1>3. /\ b \in Seq(S) /\ Len(b) = Len(q) - p
      /\ \A k \in 1 .. Len(q) - p : b[k] = q[p + k]
    BY <1>1, SubSeqIs
<1> HIDE DEF a, b
<1>4. /\ r \in Seq(S)
      /\ Len(r) = Len(a) + 1 + Len(b)
      /\ \A k \in 1 .. Len(a) + 1 + Len(b) :
            r[k] = IF k <= Len(a) THEN a[k]
                   ELSE IF k = Len(a) + 1 THEN e ELSE b[k - Len(a) - 1]
    <2>1. a \in Seq(S) /\ b \in Seq(S)
        BY <1>2, <1>3
    <2> QED
        BY <2>1, JoinedIs
<1> HIDE DEF r
<1>5. r \in Seq(S) /\ Len(r) = Len(q) - (p - f)
    BY <1>1, <1>2, <1>3, <1>4
<1>6. ASSUME NEW k \in 1 .. Len(q) - (p - f)
      PROVE  r[k] = IF k < f THEN q[k] ELSE IF k = f THEN e ELSE q[k + (p - f)]
    <2>1. k \in 1 .. Len(a) + 1 + Len(b)
        BY <1>1, <1>2, <1>3
    <2>2. CASE k < f
        BY <1>1, <1>2, <1>4, <2>1, <2>2
    <2>3. CASE k = f
        BY <1>1, <1>2, <1>4, <2>1, <2>3
    <2>4. CASE k > f
        <3>1. r[k] = b[k - f] /\ k - f \in 1 .. Len(b)
            BY <1>1, <1>2, <1>3, <1>4, <2>1, <2>4
        <3> QED
            BY <1>1, <1>3, <2>4, <3>1
    <2> QED
        BY <1>1, <2>2, <2>3, <2>4
<1> QED
    BY <1>5, <1>6 DEF a, b, r, Replaced

(* The queue without one element.                                          *)
LEMMA RemoveAtIs ==
    ASSUME NEW S, NEW q \in Seq(S), NEW p \in 1 .. Len(q)
    PROVE  RemoveAt(q, p) \in Seq(S) /\ Removed(q, p, RemoveAt(q, p))
<1> DEFINE a == SubSeq(q, 1, p - 1)
           b == SubSeq(q, p + 1, Len(q))
<1>1. Len(q) \in Nat
    BY LenProperties
<1>2. /\ a \in Seq(S) /\ Len(a) = p - 1
      /\ \A k \in 1 .. p - 1 : a[k] = q[k]
    BY <1>1, SubSeqIs
<1>3. /\ b \in Seq(S) /\ Len(b) = Len(q) - p
      /\ \A k \in 1 .. Len(q) - p : b[k] = q[p + k]
    BY <1>1, SubSeqIs
<1> HIDE DEF a, b
<1>4. /\ a \o b \in Seq(S) /\ Len(a \o b) = Len(a) + Len(b)
      /\ \A k \in 1 .. Len(a) + Len(b) :
            (a \o b)[k] = IF k <= Len(a) THEN a[k] ELSE b[k - Len(a)]
    BY <1>2, <1>3, ConcatProperties
<1>5. /\ a \o b \in Seq(S) /\ Len(a \o b) = Len(q) - 1
      /\ \A k \in 1 .. Len(q) - 1 : (a \o b)[k] = IF k < p THEN q[k] ELSE q[k + 1]
    BY <1>1, <1>2, <1>3, <1>4
<1> QED
    BY <1>5 DEF RemoveAt, a, b, Removed

(* A set of numbers that is not empty has a first one.                     *)
LEMMA FirstExists ==
    ASSUME NEW S \in SUBSET Nat, S # {}
    PROVE  /\ First(S) \in S
           /\ \A o \in S : First(S) <= o
<1> DEFINE R == {ss \in Nat \X Nat : ss[1] < ss[2]}
<1>1. IsWellFoundedOn(R, Nat)
    <2>1. R = OpToRel(<, Nat)
        BY DEF OpToRel
    <2> QED
        BY <2>1, NatLessThanWellFounded
<1> HIDE DEF R
<1>2. PICK p \in S : \A o \in S : <<o, p>> \notin R
    BY <1>1, WFMin
<1>3. \A o \in Nat : <<o, p>> \in R <=> o < p
    BY DEF R
<1>4. ASSUME NEW o \in S PROVE p <= o
    <2>1. o \in Nat /\ p \in Nat /\ ~(o < p)
        BY <1>2, <1>3
    <2> QED
        BY <2>1
<1> QED
    BY <1>2, <1>4 DEF First

LEMMA FirstIs ==
    ASSUME NEW S \in SUBSET Nat, NEW p \in S, \A o \in S : p <= o
    PROVE  First(S) = p
<1>1. First(S) \in S /\ First(S) <= p
    BY FirstExists
<1>2. p <= First(S) /\ p \in Nat /\ First(S) \in Nat
    BY <1>1
<1> QED
    BY <1>1, <1>2

-----------------------------------------------------------------------------
(* The queue of a channel                                                  *)

Node == [frame_idx : Nat, have : SUBSET Streams, matched : BOOLEAN]

\* Whole nodes come first, mc of them, and all are in the order of their frames.
Sorted(q, mc) ==
    /\ q \in Seq(Node) /\ mc \in 0 .. Len(q)
    /\ \A p \in 1 .. Len(q) : /\ q[p].matched <=> p <= mc
                              /\ q[p].matched <=> q[p].have = Streams
                              /\ q[p].have # {}
    /\ \A p, o \in 1 .. Len(q) : p < o => q[p].frame_idx < q[o].frame_idx

\* The frames of the queue came after the super buffer low, and no later than
\* the last frame of their stream that the command thread has seen.
Within(q, past, low) ==
    /\ \A s \in Streams : low <= past[s]
    /\ \A p \in 1 .. Len(q) : /\ low < q[p].frame_idx
                              /\ \A s \in q[p].have : q[p].frame_idx <= past[s]

Fields == {"que", "match_cnt", "expected", "expected_without_led", "notify_mode",
           "pending_cnt", "needLEDFlash", "need3ABracketing", "isFlashBracketingEnabled",
           "isZoom1xFrameRequested", "startZSlSnapshotCalled", "spins", "back", "out"}

ChannelOK(c, past, low) ==
    /\ DOMAIN c = Fields
    /\ Sorted(c.que, c.match_cnt) /\ Within(c.que, past, low)
    /\ ~c.spins

\* Neither what the HAL asked for nor what it gets has changed.
SameRequest(c, d) ==
    /\ d.pending_cnt = c.pending_cnt
    /\ d.startZSlSnapshotCalled = c.startZSlSnapshotCalled
    /\ d.out = c.out

(* Which nodes are whole, and how many can be taken.                       *)
LEMMA ReadyIs ==
    ASSUME NEW q, NEW mc, Sorted(q, mc)
    PROVE  /\ Len(q) \in Nat /\ mc \in Nat
           /\ DOMAIN q = 1 .. Len(q)
           /\ Matched(q) = 1 .. mc
           /\ Unmatched(q) = mc + 1 .. Len(q)
           /\ Ready(q) = mc
<1>1. Len(q) \in Nat /\ DOMAIN q = 1 .. Len(q) /\ mc \in 0 .. Len(q)
    BY LenProperties DEF Sorted
<1>2. Matched(q) = 1 .. mc
    BY <1>1 DEF Sorted, Matched
<1>3. Unmatched(q) = mc + 1 .. Len(q)
    BY <1>1, <1>2 DEF Unmatched
<1>4. Ready(q) = mc
    <2>1. CASE mc = Len(q)
        BY <1>1, <1>3, <2>1 DEF Ready
    <2>2. CASE mc < Len(q)
        <3>1. mc + 1 \in mc + 1 .. Len(q) /\ \A o \in mc + 1 .. Len(q) : mc + 1 <= o
            BY <1>1, <2>2
        <3>2. First(mc + 1 .. Len(q)) = mc + 1
            BY <1>1, <3>1, FirstIs
        <3>3. Unmatched(q) # {} /\ First(Unmatched(q)) = mc + 1
            BY <1>3, <3>1, <3>2
        <3>4. Ready(q) = (mc + 1) - 1
            BY <3>3 DEF Ready
        <3> QED
            BY <1>1, <3>4
    <2>3. mc = Len(q) \/ mc < Len(q)
        <3>1. Len(q) \in Nat /\ mc \in Nat /\ mc <= Len(q)
            BY <1>1
        <3> QED
            BY <3>1
    <2> QED
        BY <2>1, <2>2, <2>3
<1> QED
    BY <1>1, <1>2, <1>3, <1>4

(* The first n nodes leave.                                                *)
LEMMA DequeueOK ==
    ASSUME NEW c, NEW past \in [Streams -> Nat], NEW low \in Nat, ChannelOK(c, past, low),
           NEW n \in 0 .. Len(c.que)
    PROVE  /\ ChannelOK(Dequeue(c, n), past, low)
           /\ SameRequest(c, Dequeue(c, n))
           /\ 0 < n /\ n <= c.match_cnt =>
                /\ c.que[n].frame_idx \in Nat
                /\ ChannelOK(Dequeue(c, n), past, c.que[n].frame_idx)
<1> DEFINE q == c.que
           mc == c.match_cnt
           d == Dequeue(c, n)
           r == SubSeq(q, n + 1, Len(q))
           left == IF n <= mc THEN mc - n ELSE 0
<1>1. Sorted(q, mc) /\ Within(q, past, low) /\ q \in Seq(Node)
    BY DEF ChannelOK, Sorted
<1>2. Len(q) \in Nat /\ mc \in 0 .. Len(q) /\ Matched(q) = 1 .. mc
    BY <1>1, ReadyIs DEF Sorted
<1>3. mc - Cardinality(Matched(q) \cap 1 .. n) = left
    <2>1. Matched(q) \cap 1 .. n = 1 .. (IF n <= mc THEN n ELSE mc)
        BY <1>2
    <2>2. \A m \in Nat : Cardinality(1 .. m) = m
        BY FS_Interval
    <2>3. (IF n <= mc THEN n ELSE mc) \in Nat
        BY <1>2
    <2>4. Cardinality(Matched(q) \cap 1 .. n) = IF n <= mc THEN n ELSE mc
        BY <2>1, <2>2, <2>3
    <2> QED
        BY <1>2, <2>4
<1>4. /\ r \in Seq(Node) /\ Len(r) = Len(q) - n
      /\ \A i \in 1 .. Len(q) - n : r[i] = q[n + i]
    <2>1. Len(r) = IF n + 1 <= Len(q) THEN Len(q) - (n + 1) + 1 ELSE 0
        BY <1>1, <1>2, SubSeqIs
    <2>2. r \in Seq(Node) /\ \A i \in 1 .. Len(r) : r[i] = q[n + 1 + i - 1]
        BY <1>1, <1>2, SubSeqIs
    <2> QED
        BY <1>2, <2>1, <2>2
<1>5. /\ DOMAIN d = Fields /\ ~d.spins /\ SameRequest(c, d)
      /\ d.que = r /\ d.match_cnt = left
    BY <1>3 DEF Dequeue, ChannelOK, SameRequest, Fields
<1> HIDE DEF q, mc, d, r, left
<1>6. Sorted(r, left)
    <2>1. left \in 0 .. Len(r)
        BY <1>2, <1>4 DEF left
    <2>2. ASSUME NEW p \in 1 .. Len(r)
          PROVE  /\ r[p].matched <=> p <= left
                 /\ r[p].matched <=> r[p].have = Streams
                 /\ r[p].have # {}
        <3>1. r[p] = q[n + p] /\ n + p \in 1 .. Len(q)
            BY <1>2, <1>4
        <3>2. n + p <= mc <=> p <= left
            BY <1>2, <1>4 DEF left
        <3> QED
            BY <1>1, <3>1, <3>2 DEF Sorted
    <2>3. ASSUME NEW p \in 1 .. Len(r), NEW o \in 1 .. Len(r), p < o
          PROVE  r[p].frame_idx < r[o].frame_idx
        <3>1. /\ r[p] = q[n + p] /\ n + p \in 1 .. Len(q)
              /\ r[o] = q[n + o] /\ n + o \in 1 .. Len(q) /\ n + p < n + o
            BY <1>2, <1>4, <2>3
        <3> QED
            BY <1>1, <3>1 DEF Sorted
    <2> QED
        BY <1>4, <2>1, <2>2, <2>3 DEF Sorted
<1>7. Within(r, past, low)
    <2>1. ASSUME NEW p \in 1 .. Len(r)
          PROVE  r[p] = q[n + p] /\ n + p \in 1 .. Len(q)
        BY <1>2, <1>4
    <2> QED
        BY <1>1, <2>1 DEF Within
<1>8. ASSUME 0 < n, n <= mc
      PROVE  q[n].frame_idx \in Nat /\ Within(r, past, q[n].frame_idx)
    <2>1. q[n] \in Node /\ q[n].have = Streams /\ n \in 1 .. Len(q)
        BY <1>1, <1>2, <1>8, ElementOfSeq DEF Sorted
    <2>2. \A s \in Streams : q[n].frame_idx <= past[s]
        BY <1>1, <2>1 DEF Within
    <2>3. \A p \in 1 .. Len(r) : q[n].frame_idx < r[p].frame_idx
        BY <1>1, <1>2, <1>4, <2>1 DEF Sorted
    <2>4. \A p \in 1 .. Len(r) : \A s \in r[p].have : r[p].frame_idx <= past[s]
        BY <1>7 DEF Within
    <2> QED
        BY <2>1, <2>2, <2>3, <2>4 DEF Within, Node
<1> QED
    BY <1>5, <1>6, <1>7, <1>8 DEF ChannelOK, q, mc, d

-----------------------------------------------------------------------------
(* What the functions of the command thread keep                           *)

\* The queue is as it was.
SameQueue(c, d) ==
    DOMAIN d = Fields /\ d.que = c.que /\ d.match_cnt = c.match_cnt /\ d.spins = c.spins

Keeps(c, d, past, low) == ChannelOK(d, past, low) /\ SameRequest(c, d)

LEMMA SameQueueOK ==
    ASSUME NEW c, NEW d, NEW past, NEW low, ChannelOK(c, past, low), SameQueue(c, d)
    PROVE  ChannelOK(d, past, low)
BY DEF ChannelOK, SameQueue

LEMMA KeepsAll ==
    ASSUME NEW c, NEW d, NEW e, NEW past, NEW low, Keeps(c, d, past, low),
           SameQueue(d, e), SameRequest(d, e)
    PROVE  Keeps(c, e, past, low)
BY SameQueueOK DEF Keeps, SameRequest

(* Buffers that go back to the driver leave the queue alone.               *)
LEMMA QbufSame ==
    ASSUME NEW c, DOMAIN c = Fields
    PROVE  /\ \A have : SameQueue(c, Qbuf(c, have)) /\ SameRequest(c, Qbuf(c, have))
           /\ \A nodes : SameQueue(c, QbufAll(c, nodes)) /\ SameRequest(c, QbufAll(c, nodes))
BY DEF Fields, SameQueue, SameRequest, Qbuf, QbufAll

(* The first n nodes leave and buffers go back.                            *)
LEMMA DropOK ==
    ASSUME NEW c, NEW past \in [Streams -> Nat], NEW low \in Nat, ChannelOK(c, past, low),
           NEW n \in 0 .. Len(c.que), NEW nodes
    PROVE  Keeps(c, Dequeue(QbufAll(c, nodes), n), past, low)
<1> DEFINE d == QbufAll(c, nodes)
<1>1. SameQueue(c, d) /\ SameRequest(c, d)
    BY QbufSame DEF ChannelOK
<1> HIDE DEF d
<1>2. ChannelOK(d, past, low) /\ n \in 0 .. Len(d.que)
    BY <1>1, SameQueueOK DEF SameQueue
<1>3. ChannelOK(Dequeue(d, n), past, low) /\ SameRequest(d, Dequeue(d, n))
    BY <1>2, DequeueOK
<1> QED
    BY <1>1, <1>3 DEF Keeps, SameRequest, d

LEMMA FlushOK ==
    ASSUME NEW c, NEW past \in [Streams -> Nat], NEW low \in Nat, ChannelOK(c, past, low)
    PROVE  Keeps(c, Flush(c), past, low)
<1>1. Sorted(c.que, c.match_cnt)
    BY DEF ChannelOK
<1>2. Len(c.que) \in 0 .. Len(c.que)
    BY <1>1, ReadyIs
<1> QED
    BY <1>2, DropOK DEF Flush

LEMMA FlushMatchedOK ==
    ASSUME NEW c, NEW past \in [Streams -> Nat], NEW low \in Nat, ChannelOK(c, past, low)
    PROVE  Keeps(c, FlushMatched(c), past, low)
<1>1. Sorted(c.que, c.match_cnt)
    BY DEF ChannelOK
<1>2. Ready(c.que) \in 0 .. Len(c.que)
    BY <1>1, ReadyIs DEF Sorted
<1> QED
    BY <1>2, DropOK DEF FlushMatched

(* The loops end: as many whole nodes come first as they want to drop.     *)
LEMMA DropDownToOK ==
    ASSUME NEW c, NEW past \in [Streams -> Nat], NEW low \in Nat, ChannelOK(c, past, low),
           NEW limit \in Nat
    PROVE  Keeps(c, DropDownTo(c, limit), past, low)
<1> DEFINE n == c.match_cnt - limit
<1>1. Sorted(c.que, c.match_cnt)
    BY DEF ChannelOK
<1>2. Len(c.que) \in Nat /\ c.match_cnt \in 0 .. Len(c.que) /\ Ready(c.que) = c.match_cnt
    BY <1>1, ReadyIs DEF Sorted
<1>3. CASE c.match_cnt <= limit
    BY <1>3 DEF DropDownTo, Keeps, SameRequest
<1>4. CASE ~(c.match_cnt <= limit)
    <2>1. n \in 0 .. Len(c.que) /\ n <= Ready(c.que)
        BY <1>2, <1>4
    <2>2. DropDownTo(c, limit) = Dequeue(QbufAll(c, SubSeq(c.que, 1, n)), n)
        BY <1>4, <2>1 DEF DropDownTo
    <2> HIDE DEF n
    <2> QED
        BY <2>1, <2>2, DropOK
<1> QED
    BY <1>3, <1>4

LEMMA SkipOK ==
    ASSUME NEW c, NEW past \in [Streams -> Nat], NEW low \in Nat, ChannelOK(c, past, low)
    PROVE  /\ Keeps(c, Skip(c), past, low)
           /\ Keeps(c, BufdoneOverflow(c), past, low)
<1>1. look_back \in Nat /\ water_mark \in Nat
    BY ChannelAssumption
<1>2. Keeps(c, DropDownTo(c, look_back), past, low) /\ Keeps(c, DropDownTo(c, water_mark), past, low)
    BY <1>1, DropDownToOK
<1>3. Keeps(c, c, past, low)
    BY DEF Keeps, SameRequest
<1> QED
    BY <1>2, <1>3 DEF Skip, BufdoneOverflow

LEMMA HandleMetadataOK ==
    ASSUME NEW c, NEW past \in [Streams -> Nat], NEW low \in Nat, ChannelOK(c, past, low),
           NEW buf
    PROVE  Keeps(c, HandleMetadata(c, buf), past, low)
<1> DEFINE m == buf.meta
           ranged == m.range # <<>>
           F == Flush(c)
           M == FlushMatched(c)
           prep == CASE m.prep = "future" ->
                          [F EXCEPT !.expected = @ + max_future_frame_offset,
                                    !.needLEDFlash = TRUE]
                     [] m.prep = "done" -> [c EXCEPT !.needLEDFlash = FALSE]
                     [] m.prep = "none" /\ ranged -> [c EXCEPT !.expected = m.range[1]]
                     [] OTHER -> IF c.need3ABracketing
                                 THEN [M EXCEPT !.expected = @ + max_future_frame_offset]
                                 ELSE c
<1>1. Keeps(c, c, past, low) /\ Keeps(c, F, past, low) /\ Keeps(c, M, past, low)
    BY FlushOK, FlushMatchedOK DEF Keeps, SameRequest
<1> HIDE DEF F, M
<1>2. DOMAIN c = Fields /\ DOMAIN F = Fields /\ DOMAIN M = Fields
    BY <1>1 DEF Keeps, ChannelOK
<1>3. Keeps(c, prep, past, low)
    <2>1. Keeps(c, [F EXCEPT !.expected = @ + max_future_frame_offset, !.needLEDFlash = TRUE], past, low)
        <3> DEFINE d == [F EXCEPT !.expected = @ + max_future_frame_offset, !.needLEDFlash = TRUE]
        <3>1. SameQueue(F, d) /\ SameRequest(F, d)
            BY <1>2 DEF SameQueue, SameRequest, Fields
        <3> QED
            BY <1>1, <3>1, KeepsAll
    <2>2. Keeps(c, [c EXCEPT !.needLEDFlash = FALSE], past, low)
        <3>1. SameQueue(c, [c EXCEPT !.needLEDFlash = FALSE]) /\ SameRequest(c, [c EXCEPT !.needLEDFlash = FALSE])
            BY <1>2 DEF SameQueue, SameRequest, Fields
        <3> QED
            BY <1>1, <3>1, KeepsAll
    <2>3. Keeps(c, [c EXCEPT !.expected = m.range[1]], past, low)
        <3>1. SameQueue(c, [c EXCEPT !.expected = m.range[1]]) /\ SameRequest(c, [c EXCEPT !.expected = m.range[1]])
            BY <1>2 DEF SameQueue, SameRequest, Fields
        <3> QED
            BY <1>1, <3>1, KeepsAll
    <2>4. Keeps(c, [M EXCEPT !.expected = @ + max_future_frame_offset], past, low)
        <3> DEFINE d == [M EXCEPT !.expected = @ + max_future_frame_offset]
        <3>1. SameQueue(M, d) /\ SameRequest(M, d)
            BY <1>2 DEF SameQueue, SameRequest, Fields
        <3> QED
            BY <1>1, <3>1, KeepsAll
    <2> QED
        BY <1>1, <2>1, <2>2, <2>3, <2>4
<1> HIDE DEF prep
<1>4. DOMAIN prep = Fields
    BY <1>3 DEF Keeps, ChannelOK
<1>5. Keeps(c, [c EXCEPT !.isZoom1xFrameRequested = FALSE, !.expected = buf.frame_idx + 1], past, low)
    <2> DEFINE d == [c EXCEPT !.isZoom1xFrameRequested = FALSE, !.expected = buf.frame_idx + 1]
    <2>1. SameQueue(c, d) /\ SameRequest(c, d)
        BY <1>2 DEF SameQueue, SameRequest, Fields
    <2> QED
        BY <1>1, <2>1, KeepsAll
<1>6. Keeps(c, [M EXCEPT !.expected = @ + max_future_frame_offset], past, low)
    <2> DEFINE d == [M EXCEPT !.expected = @ + max_future_frame_offset]
    <2>1. SameQueue(M, d) /\ SameRequest(M, d)
        BY <1>2 DEF SameQueue, SameRequest, Fields
    <2> QED
        BY <1>1, <2>1, KeepsAll
<1>7. Keeps(c, [prep EXCEPT !.expected = m.range[1], !.expected_without_led = m.range[2]], past, low)
    <2> DEFINE d == [prep EXCEPT !.expected = m.range[1], !.expected_without_led = m.range[2]]
    <2>1. SameQueue(prep, d) /\ SameRequest(prep, d)
        BY <1>4 DEF SameQueue, SameRequest, Fields
    <2> QED
        BY <1>3, <2>1, KeepsAll
<1>8. Keeps(c, [prep EXCEPT !.expected = m.range[1], !.need3ABracketing = FALSE], past, low)
    <2> DEFINE d == [prep EXCEPT !.expected = m.range[1], !.need3ABracketing = FALSE]
    <2>1. SameQueue(prep, d) /\ SameRequest(prep, d)
        BY <1>4 DEF SameQueue, SameRequest, Fields
    <2> QED
        BY <1>3, <2>1, KeepsAll
<1> QED
    BY <1>1, <1>3, <1>5, <1>6, <1>7, <1>8 DEF HandleMetadata, prep, F, M

-----------------------------------------------------------------------------
(* A frame joins the queue                                                 *)

(* One node in place of those from f to p, which are not whole.            *)
LEMMA ReplaceOK ==
    ASSUME NEW q, NEW mc, NEW past \in [Streams -> Nat], NEW low \in Nat,
           Sorted(q, mc), Within(q, past, low),
           NEW s \in Streams, NEW i \in Nat, past[s] < i,
           NEW p \in mc + 1 .. Len(q), q[p].frame_idx = i,
           NEW node \in Node, node.frame_idx = i, node.have = q[p].have \cup {s},
           node.matched <=> node.have = Streams,
           NEW f, f = IF node.matched THEN mc + 1 ELSE p
    PROVE  LET r == SubSeq(q, 1, f - 1) \o <<node>> \o SubSeq(q, p + 1, Len(q)) IN
           /\ Sorted(r, IF node.matched THEN mc + 1 ELSE mc)
           /\ Within(r, [past EXCEPT ![s] = i], low)
<1> DEFINE r == SubSeq(q, 1, f - 1) \o <<node>> \o SubSeq(q, p + 1, Len(q))
           left == IF node.matched THEN mc + 1 ELSE mc
           past2 == [past EXCEPT ![s] = i]
<1>1. q \in Seq(Node) /\ Len(q) \in Nat /\ mc \in Nat /\ mc <= Len(q)
    BY ReadyIs DEF Sorted
<1>2. p \in Nat /\ f \in Nat /\ mc < f /\ f <= p /\ p <= Len(q) /\ p \in 1 .. Len(q) /\ f \in 1 .. p
    BY <1>1
<1>3. /\ r \in Seq(Node)
      /\ Len(r) = Len(q) - (p - f)
      /\ \A k \in 1 .. Len(q) - (p - f) :
            r[k] = IF k < f THEN q[k] ELSE IF k = f THEN node ELSE q[k + (p - f)]
    <2>1. q \in Seq(Node) /\ p \in 1 .. Len(q) /\ f \in 1 .. p /\ node \in Node
        BY <1>1, <1>2
    <2>2. r \in Seq(Node) /\ Replaced(q, f, p, node, r)
        BY <2>1, CutIs
    <2> QED
        BY <2>2 DEF Replaced
<1>4. Len(q) - (p - f) \in Nat /\ f <= Len(q) - (p - f) /\ left \in 0 .. Len(q) - (p - f)
    BY <1>1, <1>2
<1>5. past2 \in [Streams -> Nat] /\ past2[s] = i /\ \A o \in Streams : past[o] <= past2[o]
    OBVIOUS
<1> HIDE DEF r, past2, left
\* Where each node of r comes from.
<1>6. ASSUME NEW k \in 1 .. Len(r)
      PROVE  \/ k < f /\ k \in 1 .. Len(q) /\ r[k] = q[k]
             \/ k = f /\ r[k] = node
             \/ k > f /\ k + (p - f) \in p + 1 .. Len(q) /\ r[k] = q[k + (p - f)]
    BY <1>1, <1>2, <1>3, <1>4
<1>7. q[p] \in Node /\ \A k \in 1 .. Len(q) : q[k] \in Node
    BY <1>1, <1>2, ElementOfSeq
<1>8. ASSUME NEW k \in 1 .. Len(r)
      PROVE  /\ r[k].matched <=> k <= left
             /\ r[k].matched <=> r[k].have = Streams
             /\ r[k].have # {}
    <2>1. CASE k < f /\ k \in 1 .. Len(q) /\ r[k] = q[k]
        <3>1. /\ q[k].matched <=> k <= mc
              /\ q[k].matched <=> q[k].have = Streams
              /\ q[k].have # {}
            BY <2>1 DEF Sorted
        <3>2. k <= mc <=> k <= left
            BY <1>1, <1>2, <2>1 DEF left
        <3> QED
            BY <2>1, <3>1, <3>2
    <2>2. CASE k = f /\ r[k] = node
        <3>1. node.matched <=> f <= left
            BY <1>1, <1>2 DEF left
        <3> QED
            BY <2>2, <3>1
    <2>3. CASE k > f /\ k + (p - f) \in p + 1 .. Len(q) /\ r[k] = q[k + (p - f)]
        <3>1. k + (p - f) \in 1 .. Len(q) /\ ~(k + (p - f) <= mc) /\ ~(k <= left)
            <4>1. k \in Nat
                BY <1>3, <1>4
            <4>2. left < k
                BY <1>1, <1>2, <2>3, <4>1 DEF left
            <4>3. left \in Nat
                BY <1>1 DEF left
            <4>4. ~(k <= left)
                BY <4>1, <4>2, <4>3
            <4>5. \A g \in p + 1 .. Len(q) : g \in 1 .. Len(q) /\ ~(g <= mc)
                BY <1>1, <1>2
            <4> QED
                BY <2>3, <4>4, <4>5
        <3>2. /\ ~ q[k + (p - f)].matched
              /\ q[k + (p - f)].matched <=> q[k + (p - f)].have = Streams
              /\ q[k + (p - f)].have # {}
            BY <3>1 DEF Sorted
        <3> QED
            BY <2>3, <3>1, <3>2
    <2> QED
        BY <1>6, <2>1, <2>2, <2>3
<1>9. ASSUME NEW k \in 1 .. Len(r), NEW o \in 1 .. Len(r), k < o
      PROVE  r[k].frame_idx < r[o].frame_idx
    <2>1. ASSUME NEW h \in 1 .. Len(r)
          PROVE  \E g \in 1 .. Len(q) : /\ r[h].frame_idx = q[g].frame_idx
                                        /\ (h < f /\ g = h) \/ (h >= f /\ g = h + (p - f))
        <3>1. h \in Nat
            BY <1>3, <1>4
        <3>2. CASE h < f /\ h \in 1 .. Len(q) /\ r[h] = q[h]
            <4>1. h \in 1 .. Len(q) /\ r[h].frame_idx = q[h].frame_idx /\ h < f
                BY <3>2
            <4> QED
                BY <4>1
        <3>3. CASE h = f /\ r[h] = node
            <4>1. h + (p - f) = p
                BY <1>2, <3>3
            <4> QED
                BY <1>2, <3>1, <3>3, <4>1
        <3>4. CASE h > f /\ h + (p - f) \in p + 1 .. Len(q) /\ r[h] = q[h + (p - f)]
            <4>1. h + (p - f) \in 1 .. Len(q) /\ h >= f
                BY <1>1, <1>2, <3>1, <3>4
            <4> QED
                BY <3>4, <4>1
        <3> QED
            BY <1>6, <3>2, <3>3, <3>4
    <2>2. PICK g \in 1 .. Len(q) : /\ r[k].frame_idx = q[g].frame_idx
                                   /\ (k < f /\ g = k) \/ (k >= f /\ g = k + (p - f))
        BY <2>1
    <2>3. PICK h \in 1 .. Len(q) : /\ r[o].frame_idx = q[h].frame_idx
                                   /\ (o < f /\ h = o) \/ (o >= f /\ h = o + (p - f))
        BY <2>1
    <2>4. k \in Nat /\ o \in Nat
        BY <1>3, <1>4
    <2>5. g < h
        <3>1. f \in Nat /\ p \in Nat /\ f <= p /\ g \in Nat /\ h \in Nat
            BY <1>1, <1>2, <2>2, <2>3
        <3>2. CASE k < f
            BY <1>9, <2>2, <2>3, <2>4, <3>1, <3>2
        <3>3. CASE k >= f
            <4>1. g = k + (p - f) /\ h = o + (p - f)
                BY <1>9, <2>2, <2>3, <2>4, <3>1, <3>3
            <4> QED
                BY <1>9, <2>4, <3>1, <4>1
        <3> QED
            BY <2>4, <3>1, <3>2, <3>3
    <2> QED
        BY <2>2, <2>3, <2>5 DEF Sorted
<1>10. Sorted(r, left)
    BY <1>3, <1>4, <1>8, <1>9 DEF Sorted
<1>11. low < i
    <2>1. low <= past[s] /\ past[s] \in Nat
        BY DEF Within
    <2> QED
        BY <2>1
<1>12. ASSUME NEW k \in 1 .. Len(r)
       PROVE  low < r[k].frame_idx /\ \A o \in r[k].have : r[k].frame_idx <= past2[o]
    <2>1. ASSUME NEW g \in 1 .. Len(q)
          PROVE  low < q[g].frame_idx /\ \A o \in q[g].have : q[g].frame_idx <= past2[o]
        <3>1. q[g] \in Node /\ q[g].have \subseteq Streams /\ q[g].frame_idx \in Nat
            BY <1>7 DEF Node
        <3>2. low < q[g].frame_idx /\ \A o \in q[g].have : q[g].frame_idx <= past[o]
            BY DEF Within
        <3> QED
            BY <1>5, <3>1, <3>2
    <2>2. low < node.frame_idx /\ \A o \in node.have : node.frame_idx <= past2[o]
        BY <1>2, <1>5, <1>11, <2>1
    <2>3. p + 1 .. Len(q) \subseteq 1 .. Len(q)
        BY <1>2
    <2> QED
        BY <1>6, <2>1, <2>2, <2>3
<1>13. Within(r, past2, low)
    <2>1. \A o \in Streams : low <= past2[o]
        BY <1>5 DEF Within
    <2> QED
        BY <1>12, <2>1 DEF Within
<1> QED
    BY <1>10, <1>13 DEF r, past2, left

(* A node goes in after all older ones.                                    *)
LEMMA PutInOK ==
    ASSUME NEW q, NEW mc, NEW past \in [Streams -> Nat], NEW low \in Nat,
           Sorted(q, mc), Within(q, past, low),
           NEW s \in Streams, NEW i \in Nat, past[s] < i,
           NEW node \in Node, node.frame_idx = i, node.have = {s},
           node.matched <=> node.have = Streams,
           NEW place \in mc + 1 .. Len(q) + 1,
           \A p \in 1 .. Len(q) : p < place => q[p].frame_idx < i,
           \A p \in 1 .. Len(q) : place <= p => i < q[p].frame_idx,
           node.matched => mc = Len(q)
    PROVE  /\ Sorted(InsertAt(q, place, node), IF node.matched THEN mc + 1 ELSE mc)
           /\ Within(InsertAt(q, place, node), [past EXCEPT ![s] = i], low)
<1> DEFINE r == InsertAt(q, place, node)
           left == IF node.matched THEN mc + 1 ELSE mc
           past2 == [past EXCEPT ![s] = i]
<1>1. q \in Seq(Node) /\ Len(q) \in Nat /\ mc \in Nat /\ mc <= Len(q)
    BY ReadyIs DEF Sorted
<1>2. /\ place \in Nat /\ mc < place /\ place <= Len(q) + 1 /\ place \in 1 .. Len(q) + 1
      /\ node.matched => place = Len(q) + 1
    BY <1>1
<1>3. /\ r \in Seq(Node)
      /\ Len(r) = Len(q) + 1
      /\ \A k \in 1 .. Len(q) + 1 :
            r[k] = IF k < place THEN q[k] ELSE IF k = place THEN node ELSE q[k - 1]
    <2>1. q \in Seq(Node) /\ place \in 1 .. Len(q) + 1
        BY <1>1, <1>2
    <2>2. r \in Seq(Node) /\ Inserted(q, place, node, r)
        BY <2>1, InsertAtIs
    <2> QED
        BY <2>2 DEF Inserted
<1>4. left \in 0 .. Len(q) + 1
    BY <1>1
<1>5. past2 \in [Streams -> Nat] /\ past2[s] = i /\ \A o \in Streams : past[o] <= past2[o]
    OBVIOUS
<1> HIDE DEF r, past2, left
\* Where each node of r comes from.
<1>6. ASSUME NEW k \in 1 .. Len(r)
      PROVE  \/ k < place /\ k \in 1 .. Len(q) /\ r[k] = q[k]
             \/ k = place /\ r[k] = node
             \/ k > place /\ k - 1 \in 1 .. Len(q) /\ place <= k - 1 /\ r[k] = q[k - 1]
    BY <1>1, <1>2, <1>3
<1>7. \A k \in 1 .. Len(q) : q[k] \in Node
    BY <1>1, ElementOfSeq
<1>8. ASSUME NEW k \in 1 .. Len(r)
      PROVE  /\ r[k].matched <=> k <= left
             /\ r[k].matched <=> r[k].have = Streams
             /\ r[k].have # {}
    <2>1. CASE k < place /\ k \in 1 .. Len(q) /\ r[k] = q[k]
        <3>1. /\ q[k].matched <=> k <= mc
              /\ q[k].matched <=> q[k].have = Streams
              /\ q[k].have # {}
            BY <2>1 DEF Sorted
        <3>2. k <= mc <=> k <= left
            BY <1>1, <1>2, <2>1 DEF left
        <3> QED
            BY <2>1, <3>1, <3>2
    <2>2. CASE k = place /\ r[k] = node
        <3>1. node.matched <=> place <= left
            BY <1>1, <1>2 DEF left
        <3> QED
            BY <2>2, <3>1
    <2>3. CASE k > place /\ k - 1 \in 1 .. Len(q) /\ place <= k - 1 /\ r[k] = q[k - 1]
        <3>1. k \in Nat /\ left \in Nat
            BY <1>1, <1>3, <1>4
        <3>2. ~(k - 1 <= mc) /\ ~(k <= left)
            BY <1>1, <1>2, <2>3, <3>1 DEF left
        <3>3. /\ ~ q[k - 1].matched
              /\ q[k - 1].matched <=> q[k - 1].have = Streams
              /\ q[k - 1].have # {}
            BY <2>3, <3>2 DEF Sorted
        <3> QED
            BY <2>3, <3>2, <3>3
    <2> QED
        BY <1>6, <2>1, <2>2, <2>3
<1>9. ASSUME NEW k \in 1 .. Len(r), NEW o \in 1 .. Len(r), k < o
      PROVE  r[k].frame_idx < r[o].frame_idx
    <2>1. k \in Nat /\ o \in Nat
        BY <1>1, <1>3
    <2>2. CASE o < place
        <3>1. k \in 1 .. Len(q) /\ o \in 1 .. Len(q) /\ r[k] = q[k] /\ r[o] = q[o]
            BY <1>2, <1>6, <1>9, <2>1, <2>2
        <3> QED
            BY <1>9, <3>1 DEF Sorted
    <2>3. CASE o = place
        <3>1. k < place /\ k \in 1 .. Len(q) /\ r[k] = q[k] /\ r[o] = node
            BY <1>2, <1>6, <1>9, <2>1, <2>3
        <3> QED
            BY <3>1
    <2>4. CASE o > place /\ k < place
        <3>1. k \in 1 .. Len(q) /\ r[k] = q[k]
            BY <1>2, <1>6, <2>1, <2>4
        <3>2. o - 1 \in 1 .. Len(q) /\ r[o] = q[o - 1] /\ k < o - 1
            BY <1>2, <1>6, <2>1, <2>4
        <3> QED
            BY <3>1, <3>2 DEF Sorted
    <2>5. CASE o > place /\ k = place
        <3>1. r[k] = node
            BY <1>2, <1>6, <2>1, <2>5
        <3>2. o - 1 \in 1 .. Len(q) /\ r[o] = q[o - 1] /\ place <= o - 1
            BY <1>2, <1>6, <2>1, <2>5
        <3> QED
            BY <3>1, <3>2
    <2>6. CASE k > place
        <3>1. k - 1 \in 1 .. Len(q) /\ r[k] = q[k - 1]
            <4>1. ~(k < place) /\ ~(k = place)
                BY <1>2, <2>1, <2>6
            <4> QED
                BY <1>6, <4>1
        <3>2. o - 1 \in 1 .. Len(q) /\ r[o] = q[o - 1] /\ k - 1 < o - 1
            <4>1. ~(o < place) /\ ~(o = place) /\ k - 1 < o - 1
                BY <1>2, <1>9, <2>1, <2>6
            <4> QED
                BY <1>6, <4>1
        <3> QED
            BY <3>1, <3>2 DEF Sorted
    <2> QED
        BY <1>2, <1>9, <2>1, <2>2, <2>3, <2>4, <2>5, <2>6
<1>10. Sorted(r, left)
    BY <1>3, <1>4, <1>8, <1>9 DEF Sorted
<1>11. low < i
    <2>1. low <= past[s] /\ past[s] \in Nat
        BY DEF Within
    <2> QED
        BY <2>1
<1>12. ASSUME NEW k \in 1 .. Len(r)
       PROVE  low < r[k].frame_idx /\ \A o \in r[k].have : r[k].frame_idx <= past2[o]
    <2>1. ASSUME NEW g \in 1 .. Len(q)
          PROVE  low < q[g].frame_idx /\ \A o \in q[g].have : q[g].frame_idx <= past2[o]
        <3>1. q[g] \in Node /\ q[g].have \subseteq Streams /\ q[g].frame_idx \in Nat
            BY <1>7 DEF Node
        <3>2. low < q[g].frame_idx /\ \A o \in q[g].have : q[g].frame_idx <= past[o]
            BY DEF Within
        <3> QED
            BY <1>5, <3>1, <3>2
    <2>2. low < node.frame_idx /\ \A o \in node.have : node.frame_idx <= past2[o]
        BY <1>5, <1>11
    <2> QED
        BY <1>6, <2>1, <2>2
<1>13. Within(r, past2, low)
    <2>1. \A o \in Streams : low <= past2[o]
        BY <1>5 DEF Within
    <2> QED
        BY <1>12, <2>1 DEF Within
<1> QED
    BY <1>10, <1>13 DEF r, past2, left

(* A node that is not whole leaves.                                        *)
LEMMA TakeOutOK ==
    ASSUME NEW q, NEW mc, NEW past, NEW low, Sorted(q, mc), Within(q, past, low),
           NEW gone \in mc + 1 .. Len(q)
    PROVE  Sorted(RemoveAt(q, gone), mc) /\ Within(RemoveAt(q, gone), past, low)
<1> DEFINE r == RemoveAt(q, gone)
<1>1. q \in Seq(Node) /\ Len(q) \in Nat /\ mc \in Nat /\ mc <= Len(q)
    BY ReadyIs DEF Sorted
<1>2. gone \in Nat /\ mc < gone /\ gone <= Len(q) /\ gone \in 1 .. Len(q)
    BY <1>1
<1>3. /\ r \in Seq(Node) /\ Len(r) = Len(q) - 1
      /\ \A k \in 1 .. Len(q) - 1 : r[k] = IF k < gone THEN q[k] ELSE q[k + 1]
    <2>1. q \in Seq(Node) /\ gone \in 1 .. Len(q)
        BY <1>1, <1>2
    <2>2. r \in Seq(Node) /\ Removed(q, gone, r)
        BY <2>1, RemoveAtIs
    <2> QED
        BY <2>2 DEF Removed
<1> HIDE DEF r
<1>4. mc \in 0 .. Len(r)
    BY <1>1, <1>2, <1>3
\* Where each node of r comes from.
<1>5. ASSUME NEW k \in 1 .. Len(r)
      PROVE  k \in Nat /\ \/ k < gone /\ k \in 1 .. Len(q) /\ r[k] = q[k]
                          \/ gone <= k /\ k + 1 \in 1 .. Len(q) /\ r[k] = q[k + 1]
    BY <1>1, <1>2, <1>3
<1>6. ASSUME NEW k \in 1 .. Len(r)
      PROVE  /\ r[k].matched <=> k <= mc
             /\ r[k].matched <=> r[k].have = Streams
             /\ r[k].have # {}
    <2>1. CASE k < gone /\ k \in 1 .. Len(q) /\ r[k] = q[k]
        BY <2>1 DEF Sorted
    <2>2. CASE gone <= k /\ k + 1 \in 1 .. Len(q) /\ r[k] = q[k + 1]
        <3>1. ~(k <= mc) /\ ~(k + 1 <= mc)
            BY <1>1, <1>2, <1>5, <2>2
        <3>2. /\ ~ q[k + 1].matched
              /\ q[k + 1].matched <=> q[k + 1].have = Streams
              /\ q[k + 1].have # {}
            BY <2>2, <3>1 DEF Sorted
        <3> QED
            BY <2>2, <3>1, <3>2
    <2> QED
        BY <1>5, <2>1, <2>2
<1>7. ASSUME NEW k \in 1 .. Len(r), NEW o \in 1 .. Len(r), k < o
      PROVE  r[k].frame_idx < r[o].frame_idx
    <2>1. CASE o < gone
        <3>1. k \in 1 .. Len(q) /\ r[k] = q[k] /\ o \in 1 .. Len(q) /\ r[o] = q[o]
            BY <1>2, <1>5, <1>7, <2>1
        <3> QED
            BY <1>7, <3>1 DEF Sorted
    <2>2. CASE k < gone /\ gone <= o
        <3>1. k \in 1 .. Len(q) /\ r[k] = q[k] /\ k < o + 1
            BY <1>2, <1>5, <1>7, <2>2
        <3>2. o + 1 \in 1 .. Len(q) /\ r[o] = q[o + 1]
            BY <1>2, <1>5, <2>2
        <3> QED
            BY <3>1, <3>2 DEF Sorted
    <2>3. CASE gone <= k
        <3>1. k + 1 \in 1 .. Len(q) /\ r[k] = q[k + 1] /\ k + 1 < o + 1
            BY <1>2, <1>5, <1>7, <2>3
        <3>2. o + 1 \in 1 .. Len(q) /\ r[o] = q[o + 1]
            BY <1>2, <1>5, <1>7, <2>3
        <3> QED
            BY <3>1, <3>2 DEF Sorted
    <2> QED
        BY <1>2, <1>5, <2>1, <2>2, <2>3
<1>8. Sorted(r, mc)
    BY <1>3, <1>4, <1>6, <1>7 DEF Sorted
<1>9. Within(r, past, low)
    BY <1>5 DEF Within
<1> QED
    BY <1>8, <1>9 DEF r

(* The expected frame changes and nothing else.                            *)
LEMMA ExpectSame ==
    ASSUME NEW c, DOMAIN c = Fields, NEW buf
    PROVE  SameQueue(c, Expect(c, buf)) /\ SameRequest(c, Expect(c, buf))
BY DEF Expect, SameQueue, SameRequest, Fields

LEMMA JoinOK ==
    ASSUME NEW c, NEW past \in [Streams -> Nat], NEW low \in Nat, ChannelOK(c, past, low),
           NEW buf, buf.stream \in Streams, buf.frame_idx \in Nat,
           past[buf.stream] < buf.frame_idx,
           NEW pos \in Unmatched(c.que), c.que[pos].frame_idx = buf.frame_idx
    PROVE  Keeps(c, Join(c, buf, pos), [past EXCEPT ![buf.stream] = buf.frame_idx], low)
<1> DEFINE q == c.que
           mc == c.match_cnt
           past2 == [past EXCEPT ![buf.stream] = buf.frame_idx]
           have == q[pos].have \cup {buf.stream}
           whole == have = Streams
           older == {p \in Unmatched(q) : p < pos /\ q[p].frame_idx < buf.frame_idx}
           from == IF whole /\ older # {} THEN First(older) ELSE pos
           node == [q[pos] EXCEPT !.have = have, !.matched = whole]
           r == SubSeq(q, 1, from - 1) \o <<node>> \o SubSeq(q, pos + 1, Len(q))
           joined == [QbufAll(c, SubSeq(q, from, pos - 1)) EXCEPT
                        !.que = SubSeq(@, 1, from - 1) \o <<node>> \o SubSeq(@, pos + 1, Len(@))]
           result == [Expect(joined, buf) EXCEPT !.match_cnt = @ + 1]
<1>1. Sorted(q, mc) /\ Within(q, past, low)
    BY DEF ChannelOK
<1>2. pos \in Unmatched(q) /\ q[pos].frame_idx = buf.frame_idx
    OBVIOUS
<1> HIDE DEF q, mc
<1>3. /\ q \in Seq(Node) /\ Len(q) \in Nat /\ mc \in Nat /\ mc <= Len(q)
      /\ Unmatched(q) = mc + 1 .. Len(q)
    <2>1. Len(q) \in Nat /\ mc \in Nat /\ Unmatched(q) = mc + 1 .. Len(q)
        BY <1>1, ReadyIs
    <2>2. q \in Seq(Node) /\ mc \in 0 .. Len(q)
        BY <1>1 DEF Sorted
    <2> QED
        BY <2>1, <2>2
<1>4. pos \in mc + 1 .. Len(q) /\ pos \in 1 .. Len(q) /\ q[pos] \in Node
    <2>1. pos \in mc + 1 .. Len(q) /\ pos \in 1 .. Len(q)
        BY <1>3, <1>2
    <2> QED
        BY <1>3, <2>1, ElementOfSeq
<1>5. /\ node \in Node /\ node.frame_idx = buf.frame_idx /\ node.have = have
      /\ node.matched <=> node.have = Streams
      /\ node.matched <=> whole
    <2>1. have \in SUBSET Streams /\ whole \in BOOLEAN
        BY <1>4 DEF Node
    <2> HIDE DEF have, whole
    <2>2. /\ node \in Node /\ node.frame_idx = buf.frame_idx /\ node.have = have
          /\ node.matched = whole
        BY <1>4, <1>2, <2>1 DEF Node
    <2> QED
        BY <2>2 DEF whole
<1>6. from = IF node.matched THEN mc + 1 ELSE pos
    <2>1. CASE ~whole
        BY <1>5, <2>1
    <2>2. CASE whole /\ pos = mc + 1
        <3>1. older = {}
            BY <1>3, <2>2
        <3> QED
            BY <1>5, <2>2, <3>1
    <2>3. CASE whole /\ pos # mc + 1
        <3>1. mc + 1 \in Unmatched(q) /\ mc + 1 < pos /\ mc + 1 \in 1 .. Len(q)
            BY <1>3, <1>4, <2>3
        <3>2. q[mc + 1].frame_idx < q[pos].frame_idx
            BY <1>1, <1>4, <3>1 DEF Sorted
        <3>3. mc + 1 \in older
            BY <1>2, <3>1, <3>2
        <3>4. older \in SUBSET Nat /\ \A o \in older : mc + 1 <= o
            BY <1>3
        <3> HIDE DEF older
        <3>5. First(older) = mc + 1
            BY <3>3, <3>4, FirstIs
        <3> QED
            BY <1>5, <2>3, <3>3, <3>5
    <2> QED
        BY <2>1, <2>2, <2>3
<1> HIDE DEF node, have, whole, older, from
<1>7. Sorted(r, IF node.matched THEN mc + 1 ELSE mc) /\ Within(r, past2, low)
    <2> DEFINE s == buf.stream
               i == buf.frame_idx
    <2>1. /\ s \in Streams /\ i \in Nat /\ past[s] < i /\ q[pos].frame_idx = i
          /\ node.frame_idx = i /\ node.have = q[pos].have \cup {s}
        BY <1>5, <1>2 DEF have
    <2> HIDE DEF s, i
    <2>2. /\ Sorted(r, IF node.matched THEN mc + 1 ELSE mc)
          /\ Within(r, [past EXCEPT ![s] = i], low)
        BY <1>1, <1>4, <1>5, <1>6, <2>1, ReplaceOK
    <2> QED
        BY <2>2 DEF s, i
<1>8. /\ DOMAIN joined = Fields /\ joined.que = r /\ joined.match_cnt = mc /\ ~joined.spins
      /\ SameRequest(c, joined)
    <2> DEFINE d == QbufAll(c, SubSeq(q, from, pos - 1))
    <2>1. SameQueue(c, d) /\ SameRequest(c, d) /\ ~c.spins
        BY QbufSame DEF ChannelOK
    <2>2. DOMAIN d = Fields /\ d.que = q /\ d.match_cnt = mc /\ ~d.spins
        BY <2>1 DEF SameQueue, q, mc
    <2> HIDE DEF d
    <2>3. joined = [d EXCEPT !.que = SubSeq(@, 1, from - 1) \o <<node>> \o SubSeq(@, pos + 1, Len(@))]
        BY DEF d
    <2> QED
        BY <2>1, <2>2, <2>3 DEF Fields, SameRequest
<1> HIDE DEF joined, r
<1>9. CASE whole
    <2> DEFINE e == Expect(joined, buf)
    <2>1. SameQueue(joined, e) /\ SameRequest(joined, e)
        BY <1>8, ExpectSame
    <2> HIDE DEF e
    <2>2. /\ DOMAIN [e EXCEPT !.match_cnt = @ + 1] = Fields
          /\ [e EXCEPT !.match_cnt = @ + 1].que = r
          /\ [e EXCEPT !.match_cnt = @ + 1].match_cnt = mc + 1
          /\ ~[e EXCEPT !.match_cnt = @ + 1].spins
          /\ SameRequest(c, [e EXCEPT !.match_cnt = @ + 1])
        BY <1>8, <2>1 DEF SameQueue, SameRequest, Fields
    <2>3. Join(c, buf, pos) = [e EXCEPT !.match_cnt = @ + 1]
        BY <1>9 DEF Join, e, joined, node, from, older, whole, have, q
    <2> HIDE DEF past2
    <2>4. Sorted(r, mc + 1) /\ Within(r, past2, low)
        BY <1>5, <1>7, <1>9
    <2>5. Keeps(c, Join(c, buf, pos), past2, low)
        BY <2>2, <2>3, <2>4 DEF Keeps, ChannelOK
    <2> QED
        BY <2>5 DEF past2
<1>10. CASE ~whole
    <2>1. Join(c, buf, pos) = joined
        BY <1>10 DEF Join, joined, node, from, older, whole, have, q
    <2> HIDE DEF past2
    <2>2. Sorted(r, mc) /\ Within(r, past2, low)
        BY <1>5, <1>7, <1>10
    <2>3. Keeps(c, Join(c, buf, pos), past2, low)
        BY <1>8, <2>1, <2>2 DEF Keeps, ChannelOK
    <2> QED
        BY <2>3 DEF past2
<1> QED
    BY <1>9, <1>10

(* A frame that is seen and not kept changes nothing for the queue.        *)
LEMMA LaterOK ==
    ASSUME NEW c, NEW past \in [Streams -> Nat], NEW low \in Nat, ChannelOK(c, past, low),
           NEW s \in Streams, NEW i \in Nat, past[s] < i
    PROVE  ChannelOK(c, [past EXCEPT ![s] = i], low)
<1> DEFINE q == c.que
           past2 == [past EXCEPT ![s] = i]
<1>1. Sorted(q, c.match_cnt) /\ Within(q, past, low)
    BY DEF ChannelOK
<1>2. q \in Seq(Node) /\ Len(q) \in Nat
    BY <1>1, ReadyIs DEF Sorted
<1>3. past2 \in [Streams -> Nat] /\ \A o \in Streams : past[o] <= past2[o]
    OBVIOUS
<1> HIDE DEF q, past2
<1>4. ASSUME NEW p \in 1 .. Len(q)
      PROVE  low < q[p].frame_idx /\ \A o \in q[p].have : q[p].frame_idx <= past2[o]
    <2>1. q[p].have \subseteq Streams /\ q[p].frame_idx \in Nat
        <3>1. q[p] \in Node
            BY <1>2, ElementOfSeq
        <3> QED
            BY <3>1 DEF Node
    <2>2. low < q[p].frame_idx /\ \A o \in q[p].have : q[p].frame_idx <= past[o]
        BY <1>1 DEF Within
    <2> QED
        BY <1>3, <2>1, <2>2
<1>5. \A o \in Streams : low <= past2[o]
    BY <1>1, <1>3 DEF Within
<1> QED
    BY <1>4, <1>5 DEF ChannelOK, Within, q, past2

LEMMA InsertOK ==
    ASSUME NEW c, NEW past \in [Streams -> Nat], NEW low \in Nat, ChannelOK(c, past, low),
           NEW buf, buf.stream \in Streams, buf.frame_idx \in Nat,
           past[buf.stream] < buf.frame_idx,
           \A p \in Unmatched(c.que) : c.que[p].frame_idx # buf.frame_idx
    PROVE  Keeps(c, Insert(c, buf), [past EXCEPT ![buf.stream] = buf.frame_idx], low)
<1> DEFINE q == c.que
           mc == c.match_cnt
           s == buf.stream
           i == buf.frame_idx
           past2 == [past EXCEPT ![s] = i]
           older == {p \in Unmatched(q) : q[p].frame_idx < i}
           newer == {p \in Unmatched(q) : q[p].frame_idx > i}
           full == max_unmatched_frames < Cardinality(Unmatched(q))
           place == IF newer = {} THEN Len(q) + 1 ELSE First(newer)
           alone == Streams = {s}
           node == [frame_idx |-> i, have |-> {s}, matched |-> alone]
           longer == InsertAt(q, place, node)
           out == First(older)
           gone == IF out < place THEN out ELSE out + 1
           back == QbufAll(c, <<q[out]>>)
           kept == IF full THEN [back EXCEPT !.que = RemoveAt(longer, gone)]
                   ELSE [c EXCEPT !.que = longer]
<1>1. /\ Sorted(q, mc) /\ Within(q, past, low) /\ DOMAIN c = Fields /\ ~c.spins
      /\ s \in Streams /\ i \in Nat /\ past[s] < i
      /\ \A p \in Unmatched(q) : q[p].frame_idx # i
    BY DEF ChannelOK
<1>2. ChannelOK(c, past2, low)
    BY LaterOK
<1>3. Insert(c, buf) =
        IF full /\ older = {} THEN Qbuf(c, {s})
        ELSE IF alone
        THEN [kept EXCEPT !.expected = i + post_frame_skip, !.match_cnt = @ + 1]
        ELSE kept
    BY DEF Insert
<1> SUFFICES Keeps(c, Insert(c, buf), past2, low)
    OBVIOUS
<1>4. c.que = q /\ c.match_cnt = mc
    OBVIOUS
<1> HIDE DEF q, mc, s, i, past2
<1>5. /\ q \in Seq(Node) /\ Len(q) \in Nat /\ mc \in Nat /\ mc <= Len(q)
      /\ Unmatched(q) = mc + 1 .. Len(q)
    <2>1. Len(q) \in Nat /\ mc \in Nat /\ Unmatched(q) = mc + 1 .. Len(q)
        BY <1>1, ReadyIs
    <2>2. q \in Seq(Node) /\ mc \in 0 .. Len(q)
        BY <1>1 DEF Sorted
    <2> QED
        BY <2>1, <2>2
<1>6. \A p \in 1 .. Len(q) : q[p] \in Node /\ q[p].frame_idx \in Nat /\ q[p].have \subseteq Streams
    <2>1. \A p \in 1 .. Len(q) : q[p] \in Node
        BY <1>5, ElementOfSeq
    <2> QED
        BY <2>1 DEF Node
\* Every node is older or newer, and the whole ones are older.
<1>7. ASSUME NEW p \in 1 .. Len(q)
      PROVE  /\ q[p].frame_idx < i \/ q[p].frame_idx > i
             /\ ~(p \in Unmatched(q)) => q[p].frame_idx < i
    <2>1. CASE p \in Unmatched(q)
        BY <1>1, <1>6, <2>1
    <2>2. CASE ~(p \in Unmatched(q))
        <3>1. p <= mc
            BY <1>5, <2>2
        <3>2. q[p].have = Streams
            BY <1>1, <3>1 DEF Sorted
        <3>3. q[p].frame_idx <= past[s]
            BY <1>1, <3>2 DEF Within
        <3>4. q[p].frame_idx < i
            BY <1>1, <1>6, <3>3
        <3> QED
            BY <3>4
    <2> QED
        BY <2>1, <2>2
<1>8. /\ place \in mc + 1 .. Len(q) + 1
      /\ \A p \in 1 .. Len(q) : p < place => q[p].frame_idx < i
      /\ \A p \in 1 .. Len(q) : place <= p => i < q[p].frame_idx
    <2>1. CASE newer = {}
        <3>1. place = Len(q) + 1
            BY <2>1
        <3>2. \A p \in 1 .. Len(q) : q[p].frame_idx < i
            BY <1>7, <2>1
        <3> HIDE DEF place
        <3> QED
            BY <1>5, <3>1, <3>2
    <2>2. CASE newer # {}
        <3>1. newer \in SUBSET Nat /\ place = First(newer)
            BY <1>5, <2>2
        <3>2. place \in newer /\ \A o \in newer : place <= o
            BY <2>2, <3>1, FirstExists
        <3> HIDE DEF place
        <3>3. place \in mc + 1 .. Len(q) /\ place \in 1 .. Len(q) /\ i < q[place].frame_idx
            <4>1. place \in Unmatched(q) /\ i < q[place].frame_idx
                BY <3>2
            <4>2. place \in mc + 1 .. Len(q)
                BY <1>5, <4>1
            <4>3. place \in 1 .. Len(q)
                BY <1>5, <4>2
            <4> QED
                BY <4>1, <4>2, <4>3
        <3>4. ASSUME NEW p \in 1 .. Len(q), p < place
              PROVE  q[p].frame_idx < i
            <4>1. p \in Nat /\ place \in Nat /\ ~(place <= p)
                BY <1>5, <3>3, <3>4
            <4>2. ~(p \in newer)
                BY <3>2, <4>1
            <4> QED
                BY <1>7, <4>2
        <3>5. ASSUME NEW p \in 1 .. Len(q), place <= p
              PROVE  i < q[p].frame_idx
            <4>1. CASE p = place
                BY <3>3, <4>1
            <4>2. CASE place < p
                <5>1. q[place].frame_idx < q[p].frame_idx
                    BY <1>1, <3>3, <4>2 DEF Sorted
                <5> QED
                    BY <1>1, <1>6, <3>3, <5>1
            <4> QED
                BY <3>3, <3>5, <4>1, <4>2
        <3>6. place \in mc + 1 .. Len(q) + 1
            BY <1>5, <3>3
        <3> QED
            BY <3>4, <3>5, <3>6
    <2> QED
        BY <2>1, <2>2
\* A channel of one stream has whole nodes only.
<1>9. alone => mc = Len(q) /\ ~full
    <2> SUFFICES ASSUME alone PROVE mc = Len(q) /\ ~full
        OBVIOUS
    <2>1. mc = Len(q)
        <3>1. CASE Len(q) = 0
            BY <1>5, <3>1
        <3>2. CASE Len(q) # 0
            <4>1. Len(q) \in 1 .. Len(q)
                BY <1>5, <3>2
            <4>2. q[Len(q)].have = Streams
                BY <1>1, <1>6, <4>1 DEF Sorted
            <4>3. Len(q) <= mc
                BY <1>1, <4>1, <4>2 DEF Sorted
            <4> QED
                BY <1>5, <4>3
        <3> QED
            BY <3>1, <3>2
    <2>2. Unmatched(q) = {}
        BY <1>5, <2>1
    <2>3. max_unmatched_frames \in Nat
        BY ChannelAssumption
    <2> QED
        BY <2>1, <2>2, <2>3, FS_EmptySet
<1>10. /\ node \in Node /\ node.frame_idx = i /\ node.have = {s}
       /\ node.matched <=> node.have = Streams
       /\ node.matched <=> alone
    BY <1>1 DEF Node
<1> HIDE DEF place, node, full, older, newer, alone
<1>11. /\ Sorted(longer, IF alone THEN mc + 1 ELSE mc)
       /\ Within(longer, past2, low)
    <2>1. node.matched => mc = Len(q)
        BY <1>9, <1>10
    <2>2. /\ Sorted(longer, IF node.matched THEN mc + 1 ELSE mc)
          /\ Within(longer, [past EXCEPT ![s] = i], low)
        BY <1>1, <1>8, <1>10, <2>1, PutInOK
    <2> QED
        BY <1>10, <2>2 DEF past2
<1>12. Len(longer) = Len(q) + 1
    <2>1. place \in 1 .. Len(q) + 1
        BY <1>5, <1>8
    <2>2. Inserted(q, place, node, longer)
        BY <1>5, <1>10, <2>1, InsertAtIs
    <2> QED
        BY <2>2 DEF Inserted
<1> HIDE DEF longer
<1>13. CASE full /\ older = {}
    <2>1. SameQueue(c, Qbuf(c, {s})) /\ SameRequest(c, Qbuf(c, {s}))
        BY <1>1, QbufSame
    <2> QED
        BY <1>2, <1>3, <1>13, <2>1, SameQueueOK DEF Keeps
<1>14. CASE full /\ older # {}
    <2>1. older \in SUBSET Nat /\ older \subseteq mc + 1 .. Len(q)
        BY <1>5 DEF older
    <2>2. out \in older
        BY <1>14, <2>1, FirstExists
    <2> HIDE DEF out
    <2>3. gone \in mc + 1 .. Len(longer)
        BY <1>5, <1>12, <2>1, <2>2
    <2> HIDE DEF gone
    <2>4. ~alone
        BY <1>9, <1>14
    <2>5. /\ Sorted(RemoveAt(longer, gone), mc)
          /\ Within(RemoveAt(longer, gone), past2, low)
        BY <1>11, <2>3, <2>4, TakeOutOK
    <2>6. SameQueue(c, back) /\ SameRequest(c, back)
        BY <1>1, QbufSame
    <2> HIDE DEF back
    <2>7. Insert(c, buf) = [back EXCEPT !.que = RemoveAt(longer, gone)]
        BY <1>3, <1>14, <2>4
    <2> QED
        BY <1>1, <1>4, <2>5, <2>6, <2>7 DEF Keeps, ChannelOK, SameQueue, SameRequest, Fields
<1>15. CASE ~full /\ alone
    <2> DEFINE d == [kept EXCEPT !.expected = i + post_frame_skip, !.match_cnt = @ + 1]
    <2>1. /\ Sorted(longer, mc + 1) /\ Within(longer, past2, low)
          /\ kept = [c EXCEPT !.que = longer] /\ Insert(c, buf) = d
        BY <1>3, <1>11, <1>15
    <2> HIDE DEF kept
    <2>2. /\ DOMAIN d = Fields /\ d.que = longer /\ d.match_cnt = mc + 1 /\ ~d.spins
          /\ SameRequest(c, d)
        BY <1>1, <1>4, <2>1 DEF SameRequest, Fields
    <2> HIDE DEF d
    <2> QED
        BY <2>1, <2>2 DEF Keeps, ChannelOK
<1>16. CASE ~full /\ ~alone
    <2>1. /\ Sorted(longer, mc) /\ Within(longer, past2, low)
          /\ Insert(c, buf) = [c EXCEPT !.que = longer]
        BY <1>3, <1>11, <1>16
    <2> QED
        BY <1>1, <1>4, <2>1 DEF Keeps, ChannelOK, SameRequest, Fields
<1> QED
    BY <1>13, <1>14, <1>15, <1>16

LEMMA CompAndEnqueueOK ==
    ASSUME NEW c0, NEW past \in [Streams -> Nat], NEW low \in Nat, ChannelOK(c0, past, low),
           NEW buf, buf.stream \in Streams, buf.frame_idx \in Nat,
           past[buf.stream] < buf.frame_idx
    PROVE  Keeps(c0, CompAndEnqueue(c0, buf), [past EXCEPT ![buf.stream] = buf.frame_idx], low)
<1> DEFINE c == HandleMetadata(c0, buf)
           found == {p \in Unmatched(c.que) : c.que[p].frame_idx = buf.frame_idx}
           past2 == [past EXCEPT ![buf.stream] = buf.frame_idx]
<1>1. Keeps(c0, c, past, low)
    BY HandleMetadataOK
<1>2. \/ Contradicts(buf) /\ CompAndEnqueue(c0, buf) = c0
      \/ CompAndEnqueue(c0, buf) = Qbuf(c, {buf.stream})
      \/ found # {} /\ CompAndEnqueue(c0, buf) = Join(c, buf, First(found))
      \/ found = {} /\ CompAndEnqueue(c0, buf) = Insert(c, buf)
    BY DEF CompAndEnqueue
<1> HIDE DEF c
<1>3. ChannelOK(c, past, low) /\ DOMAIN c = Fields
    BY <1>1 DEF Keeps, ChannelOK
<1>4. CASE CompAndEnqueue(c0, buf) = Qbuf(c, {buf.stream})
    <2>1. ChannelOK(c, past2, low)
        BY <1>3, LaterOK
    <2> HIDE DEF past2
    <2>2. Keeps(c0, c, past2, low)
        BY <1>1, <2>1 DEF Keeps
    <2>3. SameQueue(c, Qbuf(c, {buf.stream})) /\ SameRequest(c, Qbuf(c, {buf.stream}))
        BY <1>3, QbufSame
    <2>4. Keeps(c0, CompAndEnqueue(c0, buf), past2, low)
        BY <1>4, <2>2, <2>3, KeepsAll
    <2> QED
        BY <2>4 DEF past2
<1>5. CASE found # {} /\ CompAndEnqueue(c0, buf) = Join(c, buf, First(found))
    <2>1. Sorted(c.que, c.match_cnt)
        BY <1>3 DEF ChannelOK
    <2>2. found \in SUBSET Nat
        BY <2>1, ReadyIs
    <2>3. First(found) \in found
        BY <1>5, <2>2, FirstExists
    <2>4. First(found) \in Unmatched(c.que) /\ c.que[First(found)].frame_idx = buf.frame_idx
        BY <2>3
    <2>5. Keeps(c, Join(c, buf, First(found)), past2, low)
        BY <1>3, <2>4, JoinOK
    <2> QED
        BY <1>1, <1>5, <2>5 DEF Keeps, SameRequest
<1>6. CASE found = {} /\ CompAndEnqueue(c0, buf) = Insert(c, buf)
    <2>1. \A p \in Unmatched(c.que) : c.que[p].frame_idx # buf.frame_idx
        BY <1>6
    <2>2. Keeps(c, Insert(c, buf), past2, low)
        BY <1>3, <2>1, InsertOK
    <2> QED
        BY <1>1, <1>6, <2>2 DEF Keeps, SameRequest
<1>7. CASE CompAndEnqueue(c0, buf) = c0
    <2>1. ChannelOK(c0, past2, low)
        BY LaterOK
    <2> QED
        BY <1>7, <2>1 DEF Keeps, SameRequest
<1> QED
    BY <1>2, <1>4, <1>5, <1>6, <1>7

-----------------------------------------------------------------------------
(* A command                                                               *)

\* The flash belongs to a request.
FlashOK(c) ==
    /\ c.pending_cnt \in Nat /\ c.startZSlSnapshotCalled \in BOOLEAN
    /\ c.startZSlSnapshotCalled => c.pending_cnt > 0

\* Super buffers that leave: whole, in order, after low and up to low2.
Sent(out, low, low2) ==
    /\ out \in Seq(Node)
    /\ \A p \in 1 .. Len(out) : /\ out[p].have = Streams
                                /\ low < out[p].frame_idx /\ out[p].frame_idx <= low2
    /\ \A p, o \in 1 .. Len(out) : p < o => out[p].frame_idx < out[o].frame_idx

Moves(d, past, low, low2) ==
    /\ low2 \in Nat /\ low <= low2
    /\ ChannelOK(d, past, low2) /\ FlashOK(d) /\ Sent(d.out, low, low2)

(* The whole nodes that leave are super buffers in order.                  *)
LEMMA DispatchOK ==
    ASSUME NEW c, NEW past \in [Streams -> Nat], NEW low \in Nat, ChannelOK(c, past, low),
           FlashOK(c)
    PROVE  \E low2 \in Nat : Moves(Dispatch(c), past, low, low2)
<1> DEFINE q == c.que
           mc == c.match_cnt
           all == Ready(q)
           burst == c.notify_mode = "BURST"
           n == IF burst /\ c.pending_cnt < all THEN c.pending_cnt ELSE all
           d == Dequeue(c, n)
           out == SubSeq(q, 1, n)
           sent == [d EXCEPT !.out = out]
           low2 == IF n = 0 THEN low ELSE q[n].frame_idx
<1>1. Sorted(q, mc) /\ Within(q, past, low)
    BY DEF ChannelOK
<1>2. Dispatch(c) = IF burst
                    THEN [sent EXCEPT
                            !.pending_cnt = @ - n,
                            !.startZSlSnapshotCalled = @ /\ ~(n > 0 /\ c.pending_cnt = n)]
                    ELSE sent
    BY DEF Dispatch
<1>3. /\ \A k \in 0 .. Len(q) : ChannelOK(Dequeue(c, k), past, low) /\ SameRequest(c, Dequeue(c, k))
      /\ \A k \in 0 .. Len(q) : 0 < k /\ k <= mc =>
            q[k].frame_idx \in Nat /\ ChannelOK(Dequeue(c, k), past, q[k].frame_idx)
    BY DequeueOK
<1> HIDE DEF q, mc
<1>4. q \in Seq(Node) /\ Len(q) \in Nat /\ mc \in Nat /\ mc <= Len(q) /\ all = mc
    <2>1. Len(q) \in Nat /\ mc \in Nat /\ Ready(q) = mc
        BY <1>1, ReadyIs
    <2>2. q \in Seq(Node) /\ mc \in 0 .. Len(q)
        BY <1>1 DEF Sorted
    <2> QED
        BY <2>1, <2>2
<1> HIDE DEF all
<1>5. n \in Nat /\ n <= mc /\ n \in 0 .. Len(q) /\ (burst => n <= c.pending_cnt)
    BY <1>4 DEF FlashOK
<1> HIDE DEF n
<1>6. low2 \in Nat /\ low <= low2 /\ ChannelOK(d, past, low2) /\ SameRequest(c, d)
    <2>1. CASE n = 0
        BY <1>3, <1>5, <2>1
    <2>2. CASE n # 0
        <3>1. 0 < n /\ n \in 1 .. Len(q)
            BY <1>5, <2>2
        <3>2. q[n].frame_idx \in Nat /\ ChannelOK(d, past, q[n].frame_idx) /\ SameRequest(c, d)
            BY <1>3, <1>5, <3>1
        <3>3. low < q[n].frame_idx
            BY <1>1, <3>1 DEF Within
        <3> QED
            BY <2>2, <3>2, <3>3
    <2> QED
        BY <2>1, <2>2
<1>7. Sent(out, low, low2)
    <2>1. 1 \in 1 .. Len(q) + 1
        BY <1>4
    <2>2. /\ out \in Seq(Node)
          /\ Len(out) = IF 1 <= n THEN n - 1 + 1 ELSE 0
          /\ \A k \in 1 .. Len(out) : out[k] = q[1 + k - 1]
        BY <1>4, <1>5, <2>1, SubSeqIs
    <2>3. Len(out) = n /\ \A k \in 1 .. n : out[k] = q[k]
        BY <1>5, <2>2
    <2>4. 1 .. n \subseteq 1 .. Len(q)
        BY <1>4, <1>5
    <2>5. ASSUME NEW p \in 1 .. n
          PROVE  q[p].have = Streams /\ low < q[p].frame_idx /\ q[p].frame_idx <= low2
        <3>1. p \in 1 .. Len(q) /\ n \in 1 .. Len(q) /\ p <= mc /\ n # 0
            BY <1>4, <1>5
        <3>2. q[p].have = Streams
            BY <1>1, <3>1 DEF Sorted
        <3>3. low < q[p].frame_idx
            BY <1>1, <3>1 DEF Within
        <3>4. q[p].frame_idx \in Nat
            <4>1. q[p] \in Node
                BY <1>4, <3>1, ElementOfSeq
            <4> QED
                BY <4>1 DEF Node
        <3>5. CASE p = n
            BY <3>1, <3>2, <3>3, <3>4, <3>5
        <3>6. CASE p < n
            <4>1. q[p].frame_idx < q[n].frame_idx
                BY <1>1, <3>1, <3>6 DEF Sorted
            <4> QED
                BY <1>6, <3>1, <3>2, <3>3, <3>4, <4>1
        <3> QED
            BY <1>5, <3>5, <3>6
    <2> HIDE DEF out, low2
    <2> QED
        BY <1>1, <2>2, <2>3, <2>4, <2>5 DEF Sent, Sorted
<1> HIDE DEF d, out, low2
<1>8. /\ DOMAIN d = Fields /\ d.pending_cnt = c.pending_cnt
      /\ d.startZSlSnapshotCalled = c.startZSlSnapshotCalled
    BY <1>6 DEF ChannelOK, SameRequest
<1>9. CASE ~burst
    <2>1. Dispatch(c) = sent /\ SameQueue(d, sent) /\ sent.out = out /\ FlashOK(sent)
        BY <1>2, <1>8, <1>9 DEF SameQueue, Fields, FlashOK
    <2>2. ChannelOK(sent, past, low2)
        BY <1>6, <2>1, SameQueueOK
    <2>3. Moves(sent, past, low, low2)
        BY <1>6, <1>7, <2>1, <2>2 DEF Moves
    <2> QED
        BY <1>6, <2>1, <2>3
<1>10. CASE burst
    <2> DEFINE e == [sent EXCEPT
                        !.pending_cnt = @ - n,
                        !.startZSlSnapshotCalled = @ /\ ~(n > 0 /\ c.pending_cnt = n)]
    <2>1. /\ SameQueue(d, e) /\ e.out = out
          /\ e.pending_cnt = c.pending_cnt - n
          /\ e.startZSlSnapshotCalled = (c.startZSlSnapshotCalled /\ ~(n > 0 /\ c.pending_cnt = n))
        BY <1>8 DEF SameQueue, Fields
    <2>2. Dispatch(c) = e
        BY <1>2, <1>10
    <2> HIDE DEF e
    <2>3. FlashOK(e)
        <3>1. e.pending_cnt \in Nat /\ (c.pending_cnt # n => e.pending_cnt > 0)
            BY <1>5, <1>10, <2>1 DEF FlashOK
        <3>2. e.startZSlSnapshotCalled \in BOOLEAN
            BY <2>1
        <3>3. e.startZSlSnapshotCalled => c.pending_cnt # n
            <4>1. e.startZSlSnapshotCalled => c.pending_cnt > 0 /\ ~(n > 0 /\ c.pending_cnt = n)
                BY <2>1 DEF FlashOK
            <4> QED
                BY <1>5, <4>1 DEF FlashOK
        <3> QED
            BY <3>1, <3>2, <3>3 DEF FlashOK
    <2>4. ChannelOK(e, past, low2)
        BY <1>6, <2>1, SameQueueOK
    <2>5. Moves(e, past, low, low2)
        BY <1>6, <1>7, <2>1, <2>3, <2>4 DEF Moves
    <2> QED
        BY <1>6, <2>2, <2>5
<1> QED
    BY <1>9, <1>10

LEMMA RequestOK ==
    ASSUME NEW c, NEW past \in [Streams -> Nat], NEW low \in Nat, ChannelOK(c, past, low),
           FlashOK(c), NEW n \in Nat
    PROVE  ChannelOK(Request(c, n), past, low) /\ FlashOK(Request(c, n))
<1> DEFINE d == [c EXCEPT !.pending_cnt = n]
           s == Skip(d)
           on == [s EXCEPT !.startZSlSnapshotCalled = TRUE, !.needLEDFlash = FALSE]
           off == [s EXCEPT !.startZSlSnapshotCalled = FALSE, !.needLEDFlash = FALSE,
                            !.need3ABracketing = FALSE]
<1>1. /\ SameQueue(c, d) /\ d.pending_cnt = n
      /\ d.startZSlSnapshotCalled = c.startZSlSnapshotCalled
    BY DEF ChannelOK, SameQueue, Fields
<1> HIDE DEF d
<1>2. ChannelOK(d, past, low)
    BY <1>1, SameQueueOK
<1>3. Keeps(d, s, past, low)
    BY <1>2, SkipOK
<1>4. \/ n > 0 /\ Request(c, n) = on
      \/ n = 0 /\ Request(c, n) = off
      \/ (n > 0 \/ ~s.startZSlSnapshotCalled) /\ Request(c, n) = s
    BY DEF Request, d
<1> HIDE DEF s
<1>5. /\ ChannelOK(s, past, low) /\ DOMAIN s = Fields /\ s.pending_cnt = n
      /\ s.startZSlSnapshotCalled \in BOOLEAN
    BY <1>1, <1>3 DEF Keeps, SameRequest, ChannelOK, FlashOK
<1>6. /\ SameQueue(s, on) /\ on.pending_cnt = n /\ on.startZSlSnapshotCalled = TRUE
      /\ SameQueue(s, off) /\ off.pending_cnt = n /\ off.startZSlSnapshotCalled = FALSE
    BY <1>5 DEF SameQueue, Fields
<1>7. ChannelOK(on, past, low) /\ ChannelOK(off, past, low)
    BY <1>5, <1>6, SameQueueOK
<1>8. CASE n > 0 /\ Request(c, n) = on
    BY <1>6, <1>7, <1>8 DEF FlashOK
<1>9. CASE n = 0 /\ Request(c, n) = off
    BY <1>6, <1>7, <1>9 DEF FlashOK
<1>10. CASE (n > 0 \/ ~s.startZSlSnapshotCalled) /\ Request(c, n) = s
    BY <1>5, <1>10 DEF FlashOK
<1> QED
    BY <1>4, <1>8, <1>9, <1>10

LEMMA DoneOK ==
    ASSUME NEW d, NEW past \in [Streams -> Nat], NEW low \in Nat, ChannelOK(d, past, low),
           FlashOK(d)
    PROVE  \E low2 \in Nat : Moves(Dispatch(BufdoneOverflow(d)), past, low, low2)
<1> DEFINE e == BufdoneOverflow(d)
<1>1. Keeps(d, e, past, low)
    BY SkipOK
<1> HIDE DEF e
<1>2. ChannelOK(e, past, low) /\ FlashOK(e)
    BY <1>1 DEF Keeps, SameRequest, FlashOK
<1>3. \E low2 \in Nat : Moves(Dispatch(e), past, low, low2)
    BY <1>2, DispatchOK
<1> QED
    BY <1>3 DEF e

\* What the command thread has seen of each stream after cmd.
Seen(past, cmd) ==
    IF cmd.type = "DATA_CB" THEN [past EXCEPT ![cmd.buf.stream] = cmd.buf.frame_idx] ELSE past

Frames == [type : {"DATA_CB"}, buf : [stream : Streams, frame_idx : Nat, meta : Contents]]

LEMMA ProcessOK ==
    ASSUME NEW c, NEW past \in [Streams -> Nat], NEW low \in Nat, ChannelOK(c, past, low),
           FlashOK(c), c.out = <<>>, NEW cmd \in HalCmds \cup Frames,
           cmd.type = "DATA_CB" => /\ cmd.buf.stream \in Streams /\ cmd.buf.frame_idx \in Nat
                                   /\ past[cmd.buf.stream] < cmd.buf.frame_idx
    PROVE  \E low2 \in Nat : Moves(Process(c, cmd), Seen(past, cmd), low, low2)
<1>1. cmd.type \in {"DATA_CB", "REQ_DATA_CB", "CONFIG_NOTIFY", "FLUSH_QUEUE",
                    "AE_BRACKETING", "FLASH_BRACKETING", "ZOOM_1X"}
    BY ChannelAssumption DEF Frames
<1>2. DOMAIN c = Fields
    BY DEF ChannelOK
<1>3. ASSUME NEW d, SameQueue(c, d), SameRequest(c, d)
      PROVE  ChannelOK(d, past, low) /\ FlashOK(d) /\ d.out = <<>>
    BY <1>3, SameQueueOK DEF SameRequest, FlashOK
<1>4. CASE cmd.type = "DATA_CB"
    <2> DEFINE past2 == [past EXCEPT ![cmd.buf.stream] = cmd.buf.frame_idx]
               d == CompAndEnqueue(c, cmd.buf)
    <2>1. Keeps(c, d, past2, low)
        BY <1>4, CompAndEnqueueOK
    <2>2. past2 \in [Streams -> Nat] /\ Seen(past, cmd) = past2
        BY <1>4 DEF Seen
    <2>3. Process(c, cmd) = Dispatch(BufdoneOverflow(d))
        BY <1>4 DEF Process
    <2> HIDE DEF past2, d
    <2>4. ChannelOK(d, past2, low) /\ FlashOK(d)
        BY <2>1 DEF Keeps, SameRequest, FlashOK
    <2> QED
        BY <2>2, <2>3, <2>4, DoneOK
<1>5. CASE cmd.type = "REQ_DATA_CB"
    <2>1. cmd.n \in Nat
        BY <1>5, ChannelAssumption DEF Frames
    <2>2. ChannelOK(Request(c, cmd.n), past, low) /\ FlashOK(Request(c, cmd.n))
        BY <2>1, RequestOK
    <2>3. /\ Process(c, cmd) = Dispatch(BufdoneOverflow(Request(c, cmd.n)))
          /\ Seen(past, cmd) = past
        BY <1>5 DEF Process, Seen
    <2> QED
        BY <2>2, <2>3, DoneOK
<1>6. CASE cmd.type = "CONFIG_NOTIFY"
    <2> DEFINE d == [c EXCEPT !.notify_mode = cmd.mode]
    <2>1. SameQueue(c, d) /\ SameRequest(c, d)
        BY <1>2 DEF SameQueue, SameRequest, Fields
    <2>2. Process(c, cmd) = Dispatch(BufdoneOverflow(d)) /\ Seen(past, cmd) = past
        BY <1>6 DEF Process, Seen
    <2> HIDE DEF d
    <2>3. ChannelOK(d, past, low) /\ FlashOK(d)
        BY <1>3, <2>1
    <2> QED
        BY <2>2, <2>3, DoneOK
<1>7. CASE cmd.type = "FLUSH_QUEUE"
    <2> DEFINE d == [c EXCEPT !.expected = cmd.frame_idx]
    <2>1. SameQueue(c, d) /\ SameRequest(c, d)
        BY <1>2 DEF SameQueue, SameRequest, Fields
    <2>2. Process(c, cmd) = Flush(d) /\ Seen(past, cmd) = past
        BY <1>7 DEF Process, Seen
    <2> HIDE DEF d
    <2>3. ChannelOK(d, past, low) /\ FlashOK(d) /\ d.out = <<>>
        BY <1>3, <2>1
    <2>4. Keeps(d, Flush(d), past, low)
        BY <2>3, FlushOK
    <2>5. ChannelOK(Flush(d), past, low) /\ FlashOK(Flush(d)) /\ Flush(d).out = <<>>
        BY <2>3, <2>4 DEF Keeps, SameRequest, FlashOK
    <2>6. Sent(<<>>, low, low)
        BY DEF Sent
    <2>7. Moves(Flush(d), past, low, low)
        BY <2>5, <2>6 DEF Moves
    <2> QED
        BY <2>2, <2>7
<1>8. CASE cmd.type = "AE_BRACKETING"
    <2> DEFINE f == Flush(c)
               d == [f EXCEPT !.need3ABracketing = cmd.start]
    <2>1. Keeps(c, f, past, low)
        BY FlushOK
    <2>2. Process(c, cmd) = Dispatch(BufdoneOverflow(d)) /\ Seen(past, cmd) = past
        BY <1>8 DEF Process, Seen
    <2> HIDE DEF f
    <2>3. SameQueue(f, d) /\ SameRequest(f, d)
        BY <2>1 DEF Keeps, ChannelOK, SameQueue, SameRequest, Fields
    <2> HIDE DEF d
    <2>4. Keeps(c, d, past, low)
        BY <2>1, <2>3, KeepsAll
    <2>5. ChannelOK(d, past, low) /\ FlashOK(d)
        BY <2>4 DEF Keeps, SameRequest, FlashOK
    <2> QED
        BY <2>2, <2>5, DoneOK
<1>9. CASE cmd.type = "FLASH_BRACKETING"
    <2> DEFINE d == [c EXCEPT !.isFlashBracketingEnabled = cmd.start]
    <2>1. SameQueue(c, d) /\ SameRequest(c, d)
        BY <1>2 DEF SameQueue, SameRequest, Fields
    <2>2. Process(c, cmd) = Dispatch(BufdoneOverflow(d)) /\ Seen(past, cmd) = past
        BY <1>9 DEF Process, Seen
    <2> HIDE DEF d
    <2>3. ChannelOK(d, past, low) /\ FlashOK(d)
        BY <1>3, <2>1
    <2> QED
        BY <2>2, <2>3, DoneOK
<1>10. CASE cmd.type = "ZOOM_1X"
    <2> DEFINE d == [c EXCEPT !.isZoom1xFrameRequested = cmd.start]
    <2>1. SameQueue(c, d) /\ SameRequest(c, d)
        BY <1>2 DEF SameQueue, SameRequest, Fields
    <2>2. Process(c, cmd) = Dispatch(BufdoneOverflow(d)) /\ Seen(past, cmd) = past
        BY <1>10 DEF Process, Seen
    <2> HIDE DEF d
    <2>3. ChannelOK(d, past, low) /\ FlashOK(d)
        BY <1>3, <2>1
    <2> QED
        BY <2>2, <2>3, DoneOK
<1> QED
    BY <1>1, <1>4, <1>5, <1>6, <1>7, <1>8, <1>9, <1>10

-----------------------------------------------------------------------------
(* The invariant                                                           *)

\* The frames on their way to the command thread: of each stream, after those
\* it has seen, in order, and no later than the latest of the driver.
Queued(cq, past, last) ==
    /\ \A s \in Streams : past[s] <= last[s]
    /\ \A p \in 1 .. Len(cq) : cq[p].type = "DATA_CB" =>
            /\ past[cq[p].buf.stream] < cq[p].buf.frame_idx
            /\ cq[p].buf.frame_idx <= last[cq[p].buf.stream]
    /\ \A p, o \in 1 .. Len(cq) :
            /\ p < o /\ cq[p].type = "DATA_CB" /\ cq[o].type = "DATA_CB"
            /\ cq[p].buf.stream = cq[o].buf.stream
            => cq[p].buf.frame_idx < cq[o].buf.frame_idx

\* The super buffers on their way to the HAL: after given, no later than low.
Coming(cb, g, low) == Sent(cb, g, low) /\ g \in Nat /\ g <= low

Matching(past, low) ==
    /\ ChannelOK(ch, past, low)
    /\ Queued(cmd_queue, past, latest)
    /\ Coming(cb_queue, given, low)

IInv ==
    /\ cmd_queue \in Seq(HalCmds \cup Frames)
    /\ latest \in [Streams -> Nat]
    /\ FlashOK(ch) /\ ch.out = <<>>
    /\ \A b \in hal : b.have = Streams
    /\ \E past \in [Streams -> Nat], low \in Nat : Matching(past, low)

LEMMA InitHolds == Init => IInv
<1> SUFFICES ASSUME Init PROVE IInv
    OBVIOUS
<1> USE DEF Init
<1>1. NoBufs \in [Streams -> Nat] /\ \A s \in Streams : NoBufs[s] = 0
    BY DEF NoBufs
<1>2. ChannelOK(ch, NoBufs, 0)
    <2>1. DOMAIN ch = Fields /\ ch.que = <<>> /\ ch.match_cnt = 0 /\ ~ch.spins
        BY DEF Fields
    <2>2. Sorted(<<>>, 0) /\ Within(<<>>, NoBufs, 0)
        BY <1>1 DEF Sorted, Within
    <2> QED
        BY <2>1, <2>2 DEF ChannelOK
<1>3. Queued(<<>>, NoBufs, NoBufs)
    BY <1>1 DEF Queued
<1>4. Coming(<<>>, 0, 0)
    BY DEF Coming, Sent
<1>5. FlashOK(ch) /\ ch.out = <<>>
    BY DEF FlashOK
<1>6. Matching(NoBufs, 0)
    BY <1>2, <1>3, <1>4 DEF Matching
<1> QED
    BY <1>1, <1>5, <1>6 DEF IInv

(* The first command leaves its queue.                                     *)
LEMMA QueuedTail ==
    ASSUME NEW cq \in Seq(HalCmds \cup Frames), cq # <<>>,
           NEW past \in [Streams -> Nat], NEW last \in [Streams -> Nat],
           Queued(cq, past, last)
    PROVE  /\ Head(cq) \in HalCmds \cup Frames
           /\ Head(cq).type = "DATA_CB" =>
                /\ Head(cq).buf.stream \in Streams /\ Head(cq).buf.frame_idx \in Nat
                /\ past[Head(cq).buf.stream] < Head(cq).buf.frame_idx
           /\ Tail(cq) \in Seq(HalCmds \cup Frames)
           /\ Seen(past, Head(cq)) \in [Streams -> Nat]
           /\ Queued(Tail(cq), Seen(past, Head(cq)), last)
<1> DEFINE cmd == Head(cq)
           rest == Tail(cq)
           past2 == Seen(past, cmd)
<1>1. Len(cq) \in Nat /\ 1 \in 1 .. Len(cq)
    BY EmptySeq
<1>2. cmd = cq[1]
    BY <1>1
<1>3. /\ cmd \in HalCmds \cup Frames /\ rest \in Seq(HalCmds \cup Frames)
      /\ Len(rest) = Len(cq) - 1
      /\ \A k \in 1 .. Len(rest) : rest[k] = cq[k + 1]
    BY HeadTailProperties
<1>4. ASSUME NEW p \in 1 .. Len(cq), cq[p].type = "DATA_CB"
      PROVE  cq[p].buf.stream \in Streams /\ cq[p].buf.frame_idx \in Nat
    <2>1. cq[p] \in HalCmds \cup Frames
        BY ElementOfSeq
    <2>2. cq[p] \in Frames
        BY <1>4, <2>1, ChannelAssumption
    <2> QED
        BY <2>2 DEF Frames
<1>5. cmd.type = "DATA_CB" =>
        /\ cmd.buf.stream \in Streams /\ cmd.buf.frame_idx \in Nat
        /\ past[cmd.buf.stream] < cmd.buf.frame_idx
        /\ cmd.buf.frame_idx <= last[cmd.buf.stream]
    BY <1>1, <1>2, <1>4 DEF Queued
<1>6. past2 \in [Streams -> Nat]
    BY <1>5 DEF Seen
<1> HIDE DEF cmd, rest
<1>7. \A s \in Streams : past2[s] <= last[s]
    BY <1>5 DEF Queued, Seen
<1>8. ASSUME NEW k \in 1 .. Len(rest)
      PROVE  rest[k] = cq[k + 1] /\ k + 1 \in 1 .. Len(cq) /\ 1 < k + 1
    BY <1>1, <1>3
<1>9. ASSUME NEW k \in 1 .. Len(rest), rest[k].type = "DATA_CB"
      PROVE  /\ past2[rest[k].buf.stream] < rest[k].buf.frame_idx
             /\ rest[k].buf.frame_idx <= last[rest[k].buf.stream]
    <2>1. /\ past[rest[k].buf.stream] < rest[k].buf.frame_idx
          /\ rest[k].buf.frame_idx <= last[rest[k].buf.stream]
          /\ rest[k].buf.stream \in Streams
        BY <1>4, <1>8, <1>9 DEF Queued
    <2>2. CASE cmd.type = "DATA_CB" /\ cmd.buf.stream = rest[k].buf.stream
        <3>1. cq[1].type = "DATA_CB" /\ cq[1].buf.stream = cq[k + 1].buf.stream
            BY <1>2, <1>8, <2>2
        <3>2. cq[1].buf.frame_idx < cq[k + 1].buf.frame_idx
            BY <1>1, <1>8, <1>9, <3>1 DEF Queued
        <3>3. past2[rest[k].buf.stream] = cmd.buf.frame_idx
            BY <1>5, <2>2 DEF Seen
        <3> QED
            BY <1>2, <1>8, <2>1, <3>2, <3>3
    <2>3. CASE ~(cmd.type = "DATA_CB" /\ cmd.buf.stream = rest[k].buf.stream)
        <3>1. past2[rest[k].buf.stream] = past[rest[k].buf.stream]
            BY <1>5, <2>1, <2>3 DEF Seen
        <3> QED
            BY <2>1, <3>1
    <2> QED
        BY <2>2, <2>3
<1>10. ASSUME NEW k \in 1 .. Len(rest), NEW o \in 1 .. Len(rest), k < o,
              rest[k].type = "DATA_CB", rest[o].type = "DATA_CB",
              rest[k].buf.stream = rest[o].buf.stream
       PROVE  rest[k].buf.frame_idx < rest[o].buf.frame_idx
    <2>1. k + 1 < o + 1
        BY <1>1, <1>3, <1>10
    <2> QED
        BY <1>8, <1>10, <2>1 DEF Queued
<1>11. Queued(rest, past2, last)
    BY <1>7, <1>9, <1>10 DEF Queued
<1> QED
    BY <1>3, <1>5, <1>6, <1>11 DEF cmd, rest

(* Super buffers join those on their way to the HAL.                       *)
LEMMA ComingMore ==
    ASSUME NEW cb, NEW out, NEW g, NEW low \in Nat, NEW low2 \in Nat, low <= low2,
           Coming(cb, g, low), Sent(out, low, low2)
    PROVE  Coming(cb \o out, g, low2)
<1>1. /\ cb \in Seq(Node) /\ out \in Seq(Node) /\ g \in Nat /\ g <= low
      /\ Len(cb) \in Nat /\ Len(out) \in Nat
    BY LenProperties DEF Coming, Sent
<1>2. /\ cb \o out \in Seq(Node) /\ Len(cb \o out) = Len(cb) + Len(out)
      /\ \A k \in 1 .. Len(cb) + Len(out) :
            (cb \o out)[k] = IF k <= Len(cb) THEN cb[k] ELSE out[k - Len(cb)]
    BY <1>1, ConcatProperties
<1> DEFINE r == cb \o out
<1> HIDE DEF r
<1>3. r \in Seq(Node) /\ Len(r) = Len(cb) + Len(out)
    BY <1>2 DEF r
<1>4. ASSUME NEW k \in 1 .. Len(r)
      PROVE  /\ k \in Nat
             /\ \/ k <= Len(cb) /\ k \in 1 .. Len(cb) /\ r[k] = cb[k]
                \/ k > Len(cb) /\ k - Len(cb) \in 1 .. Len(out) /\ r[k] = out[k - Len(cb)]
    BY <1>1, <1>2 DEF r
<1>5. ASSUME NEW k \in 1 .. Len(r)
      PROVE  r[k].have = Streams /\ r[k].frame_idx \in Nat
             /\ g < r[k].frame_idx /\ r[k].frame_idx <= low2
    <2>1. r[k].frame_idx \in Nat
        <3>1. r[k] \in Node
            BY <1>3, ElementOfSeq
        <3> QED
            BY <3>1 DEF Node
    <2>2. CASE k \in 1 .. Len(cb) /\ r[k] = cb[k]
        <3>1. r[k].have = Streams /\ g < r[k].frame_idx /\ r[k].frame_idx <= low
            BY <2>2 DEF Coming, Sent
        <3> QED
            BY <2>1, <3>1
    <2>3. CASE k - Len(cb) \in 1 .. Len(out) /\ r[k] = out[k - Len(cb)]
        <3>1. r[k].have = Streams /\ low < r[k].frame_idx /\ r[k].frame_idx <= low2
            BY <2>3 DEF Sent
        <3> QED
            BY <1>1, <2>1, <3>1
    <2> QED
        BY <1>4, <2>2, <2>3
<1>6. ASSUME NEW k \in 1 .. Len(r), NEW o \in 1 .. Len(r), k < o
      PROVE  r[k].frame_idx < r[o].frame_idx
    <2>1. CASE o <= Len(cb)
        <3>1. k \in 1 .. Len(cb) /\ r[k] = cb[k] /\ o \in 1 .. Len(cb) /\ r[o] = cb[o]
            BY <1>1, <1>4, <1>6, <2>1
        <3> QED
            BY <1>6, <3>1 DEF Coming, Sent
    <2>2. CASE k <= Len(cb) /\ o > Len(cb)
        <3>1. k \in 1 .. Len(cb) /\ r[k] = cb[k]
            BY <1>1, <1>4, <2>2
        <3>2. o - Len(cb) \in 1 .. Len(out) /\ r[o] = out[o - Len(cb)]
            BY <1>1, <1>4, <2>2
        <3>3. r[k].frame_idx <= low /\ low < r[o].frame_idx
            BY <3>1, <3>2 DEF Coming, Sent
        <3>4. r[k].frame_idx \in Nat /\ r[o].frame_idx \in Nat
            BY <1>5
        <3> QED
            BY <3>3, <3>4
    <2>3. CASE k > Len(cb)
        <3>1. k - Len(cb) \in 1 .. Len(out) /\ r[k] = out[k - Len(cb)] /\ k - Len(cb) < o - Len(cb)
            BY <1>1, <1>4, <1>6, <2>3
        <3>2. o - Len(cb) \in 1 .. Len(out) /\ r[o] = out[o - Len(cb)]
            BY <1>1, <1>4, <1>6, <2>3
        <3> QED
            BY <3>1, <3>2 DEF Sent
    <2> QED
        BY <1>1, <1>4, <2>1, <2>2, <2>3
<1>7. Coming(r, g, low2)
    BY <1>1, <1>3, <1>5, <1>6 DEF Coming, Sent
<1> QED
    BY <1>7 DEF r

LEMMA CmdThreadStep == IInv /\ CmdThread => IInv'
<1> SUFFICES ASSUME IInv, CmdThread PROVE IInv'
    OBVIOUS
<1> DEFINE cmd == Head(cmd_queue)
           c == Process(ch, cmd)
<1>1. PICK past \in [Streams -> Nat], low \in Nat : Matching(past, low)
    BY DEF IInv
<1> DEFINE seen == Seen(past, cmd)
<1>2. /\ cmd \in HalCmds \cup Frames
      /\ cmd.type = "DATA_CB" => /\ cmd.buf.stream \in Streams /\ cmd.buf.frame_idx \in Nat
                                 /\ past[cmd.buf.stream] < cmd.buf.frame_idx
      /\ Tail(cmd_queue) \in Seq(HalCmds \cup Frames)
      /\ seen \in [Streams -> Nat]
      /\ Queued(Tail(cmd_queue), seen, latest)
    BY <1>1, QueuedTail DEF IInv, Matching, CmdThread
<1>3. ChannelOK(ch, past, low) /\ FlashOK(ch) /\ ch.out = <<>> /\ Coming(cb_queue, given, low)
    BY <1>1 DEF IInv, Matching
<1> HIDE DEF cmd
<1>4. PICK past2 \in [Streams -> Nat] : past2 = seen
    BY <1>2
<1>5. PICK low2 \in Nat : Moves(c, past2, low, low2)
    BY <1>2, <1>3, <1>4, ProcessOK
<1>6. /\ cmd_queue' = Tail(cmd_queue) /\ cb_queue' = cb_queue \o c.out
      /\ ch' = [c EXCEPT !.back = NoBufs, !.out = <<>>]
      /\ UNCHANGED <<hal, latest, given>>
    BY DEF CmdThread, cmd
<1> HIDE DEF c, seen
<1>7. ChannelOK(c, past2, low2) /\ FlashOK(c) /\ Sent(c.out, low, low2) /\ low <= low2
    BY <1>5 DEF Moves
<1>8. /\ SameQueue(c, ch') /\ ch'.pending_cnt = c.pending_cnt /\ ch'.out = <<>>
      /\ ch'.startZSlSnapshotCalled = c.startZSlSnapshotCalled
    BY <1>6, <1>7 DEF ChannelOK, SameQueue, Fields
<1>9. ChannelOK(ch', past2, low2)
    BY <1>7, <1>8, SameQueueOK
<1>10. FlashOK(ch')
    BY <1>7, <1>8 DEF FlashOK
<1>11. Coming(cb_queue', given', low2)
    BY <1>3, <1>6, <1>7, ComingMore
<1>12. Queued(cmd_queue', past2, latest')
    BY <1>2, <1>6, <1>4
<1>13. Matching(past2, low2)'
    BY <1>9, <1>11, <1>12 DEF Matching
<1> QED
    BY <1>2, <1>5, <1>6, <1>8, <1>10, <1>13 DEF IInv

(* A command is queued; a frame is the latest of its stream.              *)
LEMMA QueuedMore ==
    ASSUME NEW cq \in Seq(HalCmds \cup Frames), NEW past \in [Streams -> Nat],
           NEW last \in [Streams -> Nat], Queued(cq, past, last),
           NEW cmd \in HalCmds \cup Frames, NEW last2 \in [Streams -> Nat],
           \A s \in Streams : last[s] <= last2[s],
           cmd.type = "DATA_CB" => /\ cmd.buf.stream \in Streams /\ cmd.buf.frame_idx \in Nat
                                   /\ last[cmd.buf.stream] < cmd.buf.frame_idx
                                   /\ cmd.buf.frame_idx <= last2[cmd.buf.stream]
    PROVE  Append(cq, cmd) \in Seq(HalCmds \cup Frames) /\ Queued(Append(cq, cmd), past, last2)
<1> DEFINE r == Append(cq, cmd)
<1>1. /\ r \in Seq(HalCmds \cup Frames) /\ Len(r) = Len(cq) + 1 /\ Len(cq) \in Nat
      /\ \A k \in 1 .. Len(cq) : r[k] = cq[k]
      /\ r[Len(cq) + 1] = cmd
    BY AppendProperties, LenProperties
<1> HIDE DEF r
<1>2. ASSUME NEW k \in 1 .. Len(r)
      PROVE  /\ k \in Nat
             /\ \/ k \in 1 .. Len(cq) /\ r[k] = cq[k]
                \/ k = Len(cq) + 1 /\ r[k] = cmd
    BY <1>1
<1>3. ASSUME NEW p \in 1 .. Len(cq), cq[p].type = "DATA_CB"
      PROVE  /\ cq[p].buf.stream \in Streams /\ cq[p].buf.frame_idx \in Nat
             /\ past[cq[p].buf.stream] < cq[p].buf.frame_idx
             /\ cq[p].buf.frame_idx <= last[cq[p].buf.stream]
    <2>1. cq[p] \in HalCmds \cup Frames
        BY ElementOfSeq
    <2>2. cq[p] \in Frames
        BY <1>3, <2>1, ChannelAssumption
    <2>3. cq[p].buf.stream \in Streams /\ cq[p].buf.frame_idx \in Nat
        BY <2>2 DEF Frames
    <2> QED
        BY <1>3, <2>3 DEF Queued
<1>4. \A s \in Streams : past[s] <= last2[s]
    <2>1. ASSUME NEW s \in Streams PROVE past[s] <= last2[s]
        <3>1. past[s] \in Nat /\ last[s] \in Nat /\ last2[s] \in Nat
            OBVIOUS
        <3>2. past[s] <= last[s] /\ last[s] <= last2[s]
            BY DEF Queued
        <3> QED
            BY <3>1, <3>2
    <2> QED
        BY <2>1
<1>5. ASSUME NEW k \in 1 .. Len(r), r[k].type = "DATA_CB"
      PROVE  /\ past[r[k].buf.stream] < r[k].buf.frame_idx
             /\ r[k].buf.frame_idx <= last2[r[k].buf.stream]
    <2>1. CASE k \in 1 .. Len(cq) /\ r[k] = cq[k]
        <3> DEFINE s == cq[k].buf.stream
                   i == cq[k].buf.frame_idx
        <3>1. s \in Streams /\ i \in Nat /\ past[s] < i /\ i <= last[s]
            BY <1>3, <1>5, <2>1
        <3> HIDE DEF s, i
        <3>2. i <= last2[s]
            BY <3>1
        <3> QED
            BY <2>1, <3>1, <3>2 DEF s, i
    <2>2. CASE k = Len(cq) + 1 /\ r[k] = cmd
        <3> DEFINE s == cmd.buf.stream
                   i == cmd.buf.frame_idx
        <3>1. s \in Streams /\ i \in Nat /\ last[s] < i /\ i <= last2[s]
            BY <1>5, <2>2
        <3> HIDE DEF s, i
        <3>2. past[s] < i
            BY <3>1 DEF Queued
        <3> QED
            BY <2>2, <3>1, <3>2 DEF s, i
    <2> QED
        BY <1>2, <2>1, <2>2
<1>6. ASSUME NEW k \in 1 .. Len(r), NEW o \in 1 .. Len(r), k < o,
             r[k].type = "DATA_CB", r[o].type = "DATA_CB", r[k].buf.stream = r[o].buf.stream
      PROVE  r[k].buf.frame_idx < r[o].buf.frame_idx
    <2>1. k \in 1 .. Len(cq) /\ r[k] = cq[k]
        BY <1>1, <1>2, <1>6
    <2>2. CASE o \in 1 .. Len(cq) /\ r[o] = cq[o]
        BY <1>6, <2>1, <2>2 DEF Queued
    <2>3. CASE o = Len(cq) + 1 /\ r[o] = cmd
        <3> DEFINE s == cmd.buf.stream
                   i == cmd.buf.frame_idx
                   j == cq[k].buf.frame_idx
        <3>1. s \in Streams /\ i \in Nat /\ last[s] < i
            BY <1>6, <2>3
        <3>2. j \in Nat /\ j <= last[s]
            BY <1>3, <1>6, <2>1, <2>3
        <3> HIDE DEF s, i, j
        <3>3. j < i
            BY <3>1, <3>2
        <3> QED
            BY <2>1, <2>3, <3>3 DEF i, j
    <2> QED
        BY <1>2, <2>2, <2>3
<1> QED
    BY <1>1, <1>4, <1>5, <1>6 DEF Queued, r

LEMMA DataNotifyStep ==
    ASSUME IInv, NEW s \in Streams, DataNotify(s)
    PROVE  IInv'
<1>1. PICK past \in [Streams -> Nat], low \in Nat : Matching(past, low)
    BY DEF IInv
<1>2. PICK i \in latest[s] + 1 .. MaxFrame, m \in Contents :
        /\ latest' = [latest EXCEPT ![s] = i]
        /\ Enqueue([type |-> "DATA_CB",
                    buf |-> [stream |-> s, frame_idx |-> i, meta |-> m]])
    BY DEF DataNotify
<1> DEFINE cmd == [type |-> "DATA_CB", buf |-> [stream |-> s, frame_idx |-> i, meta |-> m]]
<1>3. UNCHANGED <<ch, cb_queue, hal, given>>
    BY DEF DataNotify
<1>4. latest \in [Streams -> Nat] /\ cmd_queue \in Seq(HalCmds \cup Frames)
    BY DEF IInv
<1>5. i \in Nat /\ latest[s] < i /\ latest[s] \in Nat
    BY <1>2, <1>4
<1>6. /\ latest' \in [Streams -> Nat] /\ latest'[s] = i
      /\ \A o \in Streams : latest[o] <= latest'[o]
    BY <1>2, <1>4, <1>5
<1>7. /\ cmd \in Frames /\ cmd.type = "DATA_CB" /\ cmd.buf.stream = s /\ cmd.buf.frame_idx = i
    BY <1>5 DEF Frames
<1>8. cmd_queue' = Append(cmd_queue, cmd)
    BY <1>2 DEF Enqueue
<1> HIDE DEF cmd
<1>9. Queued(cmd_queue, past, latest)
    BY <1>1 DEF Matching
<1>10. /\ Append(cmd_queue, cmd) \in Seq(HalCmds \cup Frames)
       /\ Queued(Append(cmd_queue, cmd), past, latest')
    <2> DEFINE last2 == latest'
    <2>1. /\ last2 \in [Streams -> Nat] /\ last2[s] = i
          /\ \A o \in Streams : latest[o] <= last2[o]
        BY <1>6
    <2> HIDE DEF last2
    <2>2. /\ Append(cmd_queue, cmd) \in Seq(HalCmds \cup Frames)
          /\ Queued(Append(cmd_queue, cmd), past, last2)
        <3>1. cmd \in HalCmds \cup Frames
            BY <1>7
        <3>2. /\ cmd.buf.stream \in Streams /\ cmd.buf.frame_idx \in Nat
              /\ latest[cmd.buf.stream] < cmd.buf.frame_idx
              /\ cmd.buf.frame_idx <= last2[cmd.buf.stream]
            BY <1>5, <1>7, <2>1
        <3> QED
            BY <1>4, <1>9, <2>1, <3>1, <3>2, QueuedMore
    <2> QED
        BY <2>2 DEF last2
<1>11. Matching(past, low)'
    BY <1>1, <1>3, <1>8, <1>10 DEF Matching
<1> QED
    BY <1>3, <1>6, <1>8, <1>10, <1>11 DEF IInv

LEMMA CommandStep ==
    ASSUME IInv, NEW cmd \in HalCmds, Command(cmd)
    PROVE  IInv'
<1>1. PICK past \in [Streams -> Nat], low \in Nat : Matching(past, low)
    BY DEF IInv
<1>2. /\ cmd_queue' = Append(cmd_queue, cmd) /\ UNCHANGED <<ch, cb_queue, hal, latest, given>>
    BY DEF Command, Enqueue
<1>3. latest \in [Streams -> Nat] /\ cmd_queue \in Seq(HalCmds \cup Frames)
    BY DEF IInv
<1>4. cmd.type # "DATA_CB"
    BY ChannelAssumption
<1>5. Queued(cmd_queue, past, latest) /\ \A s \in Streams : latest[s] <= latest[s]
    BY <1>1, <1>3 DEF Matching
<1>6. /\ Append(cmd_queue, cmd) \in Seq(HalCmds \cup Frames)
      /\ Queued(Append(cmd_queue, cmd), past, latest)
    BY <1>3, <1>4, <1>5, QueuedMore
<1>7. Matching(past, low)'
    BY <1>1, <1>2, <1>6 DEF Matching
<1> QED
    BY <1>2, <1>6, <1>7 DEF IInv

LEMMA CbThreadStep == IInv /\ CbThread => IInv'
<1> SUFFICES ASSUME IInv, CbThread PROVE IInv'
    OBVIOUS
<1>1. PICK past \in [Streams -> Nat], low \in Nat : Matching(past, low)
    BY DEF IInv
<1>2. /\ cb_queue # <<>> /\ cb_queue' = Tail(cb_queue)
      /\ hal' = hal \cup {Head(cb_queue)} /\ given' = Head(cb_queue).frame_idx
      /\ UNCHANGED <<ch, cmd_queue, latest>>
    BY DEF CbThread
<1>3. /\ Coming(cb_queue, given, low) /\ cb_queue \in Seq(Node)
    BY <1>1 DEF Matching, Coming, Sent
<1>4. Len(cb_queue) \in Nat /\ 1 \in 1 .. Len(cb_queue) /\ Head(cb_queue) = cb_queue[1]
    BY <1>2, <1>3, EmptySeq
<1> DEFINE cb == cb_queue
           rest == Tail(cb)
           b == cb[1]
<1>5. /\ rest \in Seq(Node) /\ Len(rest) = Len(cb) - 1
      /\ \A k \in 1 .. Len(rest) : rest[k] = cb[k + 1]
    BY <1>2, <1>3, HeadTailProperties
<1>6. b \in Node /\ b.have = Streams /\ b.frame_idx \in Nat /\ b.frame_idx <= low
    <2>1. b \in Node
        BY <1>3, <1>4, ElementOfSeq
    <2> QED
        BY <1>3, <1>4, <2>1 DEF Node, Coming, Sent
<1> HIDE DEF rest
<1>7. ASSUME NEW k \in 1 .. Len(rest)
      PROVE  rest[k] = cb[k + 1] /\ k + 1 \in 1 .. Len(cb) /\ 1 < k + 1
    BY <1>4, <1>5
<1>8. ASSUME NEW k \in 1 .. Len(rest)
      PROVE  /\ rest[k].have = Streams
             /\ b.frame_idx < rest[k].frame_idx /\ rest[k].frame_idx <= low
    BY <1>3, <1>4, <1>7 DEF Coming, Sent
<1>9. ASSUME NEW k \in 1 .. Len(rest), NEW o \in 1 .. Len(rest), k < o
      PROVE  rest[k].frame_idx < rest[o].frame_idx
    <2>1. k + 1 < o + 1
        BY <1>4, <1>5, <1>9
    <2> QED
        BY <1>3, <1>7, <2>1 DEF Coming, Sent
<1>10. Coming(rest, b.frame_idx, low)
    BY <1>5, <1>6, <1>8, <1>9 DEF Coming, Sent
<1>11. Coming(cb_queue', given', low)
    BY <1>2, <1>4, <1>10 DEF rest
<1>12. \A h \in hal' : h.have = Streams
    BY <1>2, <1>4, <1>6 DEF IInv
<1>13. Matching(past, low)'
    BY <1>1, <1>2, <1>11 DEF Matching
<1> QED
    BY <1>2, <1>12, <1>13 DEF IInv

LEMMA BufDoneStep ==
    ASSUME IInv, NEW b \in hal, BufDone(b)
    PROVE  IInv'
<1>1. hal' = hal \ {b} /\ UNCHANGED <<ch, cmd_queue, cb_queue, latest, given>>
    BY DEF BufDone
<1>2. PICK past \in [Streams -> Nat], low \in Nat : Matching(past, low)
    BY DEF IInv
<1>3. Matching(past, low)'
    BY <1>1, <1>2 DEF Matching
<1> QED
    BY <1>1, <1>3 DEF IInv

(* The invariant of the channel holds in every reachable state.            *)
THEOREM Invariant == Spec => []IInv
<1>1. Init => IInv
    BY InitHolds
<1>2. IInv /\ [Next]_vars => IInv'
    <2> SUFFICES ASSUME IInv, [Next]_vars PROVE IInv'
        OBVIOUS
    <2>1. CASE CmdThread
        BY <2>1, CmdThreadStep
    <2>2. CASE CbThread
        BY <2>2, CbThreadStep
    <2>3. CASE \E s \in Streams : DataNotify(s)
        BY <2>3, DataNotifyStep
    <2>4. CASE \E cmd \in HalCmds : Command(cmd)
        BY <2>4, CommandStep
    <2>5. CASE \E b \in hal : BufDone(b)
        BY <2>5, BufDoneStep
    <2>6. CASE UNCHANGED vars
        <3>1. PICK past \in [Streams -> Nat], low \in Nat : Matching(past, low)
            BY DEF IInv
        <3>2. Matching(past, low)'
            BY <2>6, <3>1 DEF vars, Matching
        <3> QED
            BY <2>6, <3>2 DEF vars, IInv
    <2> QED
        BY <2>1, <2>2, <2>3, <2>4, <2>5, <2>6 DEF Next
<1> QED
    BY <1>1, <1>2, PTL DEF Spec

(* The loops of the command thread that drop whole super buffers end, for  *)
(* any number of streams, frames and buffers, and any order of commands.   *)
THEOREM LoopsEnd == Spec => []NeverSpins
<1>1. IInv => NeverSpins
    BY DEF IInv, Matching, ChannelOK, NeverSpins
<1> QED
    BY <1>1, Invariant, PTL

(* Whole super buffers come first in the queue, match_cnt counts them, and *)
(* the others follow in the order of their frames.                         *)
THEOREM QueueInOrder == Spec => []MatchedFirst
<1>1. IInv => MatchedFirst
    <2> SUFFICES ASSUME IInv PROVE MatchedFirst
        OBVIOUS
    <2>1. Sorted(ch.que, ch.match_cnt)
        BY DEF IInv, Matching, ChannelOK
    <2>2. /\ Matched(ch.que) = 1 .. ch.match_cnt
          /\ Unmatched(ch.que) \subseteq 1 .. Len(ch.que)
        BY <2>1, ReadyIs DEF Unmatched
    <2> QED
        BY <2>1, <2>2 DEF MatchedFirst, Sorted
<1> QED
    BY <1>1, Invariant, PTL

(* The flash never outlives the request it was started for.                *)
THEOREM FlashStops == Spec => []FlashEnds
<1>1. IInv => FlashEnds
    BY DEF IInv, FlashOK, FlashEnds
<1> QED
    BY <1>1, Invariant, PTL

(* The frame indices of some nodes are a sequence.                         *)
LEMMA IndexesAre ==
    ASSUME NEW q \in Seq(Node)
    PROVE  LET idx == [p \in DOMAIN q |-> q[p].frame_idx] IN
           /\ idx \in Seq(Nat) /\ Len(idx) = Len(q)
           /\ \A p \in 1 .. Len(q) : idx[p] = q[p].frame_idx
<1> DEFINE idx == [p \in DOMAIN q |-> q[p].frame_idx]
<1>1. Len(q) \in Nat /\ DOMAIN q = 1 .. Len(q)
    BY LenProperties
<1>2. \A p \in 1 .. Len(q) : q[p].frame_idx \in Nat
    <2>1. \A p \in 1 .. Len(q) : q[p] \in Node
        BY ElementOfSeq
    <2> QED
        BY <2>1 DEF Node
<1>3. /\ idx \in [1 .. Len(q) -> Nat] /\ DOMAIN idx = 1 .. Len(q)
      /\ \A p \in 1 .. Len(q) : idx[p] = q[p].frame_idx
    BY <1>1, <1>2
<1> HIDE DEF idx
<1>4. idx \in Seq(Nat)
    BY <1>1, <1>3, SeqDef
<1>5. Len(idx) \in Nat /\ 1 .. Len(idx) = 1 .. Len(q)
    BY <1>3, <1>4, LenProperties
<1>6. Len(idx) = Len(q)
    BY <1>1, <1>5
<1> QED
    BY <1>3, <1>4, <1>6 DEF idx

(* A number and two sequences, each after what comes before it.            *)
LEMMA ChainIs ==
    ASSUME NEW g \in Nat, NEW a \in Seq(Nat), NEW b \in Seq(Nat), NEW low \in Nat, g <= low,
           \A p \in 1 .. Len(a) : g < a[p] /\ a[p] <= low,
           \A p \in 1 .. Len(b) : low < b[p],
           \A p, o \in 1 .. Len(a) : p < o => a[p] < a[o],
           \A p, o \in 1 .. Len(b) : p < o => b[p] < b[o]
    PROVE  \A p, o \in DOMAIN (<<g>> \o a \o b) :
                p < o => (<<g>> \o a \o b)[p] < (<<g>> \o a \o b)[o]
<1> DEFINE m == <<g>> \o a
           r == m \o b
<1>1. Len(a) \in Nat /\ Len(b) \in Nat
    BY LenProperties
<1>2. <<g>> \in Seq(Nat) /\ Len(<<g>>) = 1 /\ <<g>>[1] = g
    OBVIOUS
<1>3. /\ m \in Seq(Nat) /\ Len(m) = Len(<<g>>) + Len(a)
      /\ \A k \in 1 .. Len(<<g>>) + Len(a) :
            m[k] = IF k <= Len(<<g>>) THEN <<g>>[k] ELSE a[k - Len(<<g>>)]
    BY <1>2, ConcatProperties
<1>4. /\ m \in Seq(Nat) /\ Len(m) = Len(a) + 1
      /\ \A k \in 1 .. Len(a) + 1 : m[k] = IF k = 1 THEN g ELSE a[k - 1]
    BY <1>1, <1>2, <1>3
<1> HIDE DEF m
<1>5. /\ r \in Seq(Nat) /\ Len(r) = Len(m) + Len(b)
      /\ \A k \in 1 .. Len(m) + Len(b) : r[k] = IF k <= Len(m) THEN m[k] ELSE b[k - Len(m)]
    BY <1>4, ConcatProperties
<1>6. DOMAIN r = 1 .. Len(a) + 1 + Len(b)
    BY <1>4, <1>5, LenProperties
<1> HIDE DEF r
<1>7. ASSUME NEW k \in DOMAIN r
      PROVE  /\ k \in Nat
             /\ \/ k = 1 /\ r[k] = g
                \/ 1 < k /\ k <= Len(a) + 1 /\ k - 1 \in 1 .. Len(a) /\ r[k] = a[k - 1]
                \/ /\ Len(a) + 1 < k /\ k - Len(m) \in 1 .. Len(b)
                   /\ r[k] = b[k - Len(m)]
    <2>1. k \in Nat /\ 1 <= k /\ k <= Len(a) + 1 + Len(b) /\ k \in 1 .. Len(m) + Len(b)
        BY <1>1, <1>4, <1>6
    <2>2. CASE k = 1
        BY <1>1, <1>4, <1>5, <2>1, <2>2
    <2>3. CASE 1 < k /\ k <= Len(a) + 1
        <3>1. k \in 1 .. Len(a) + 1 /\ k <= Len(m)
            BY <1>1, <1>4, <2>1, <2>3
        <3>2. r[k] = m[k]
            BY <1>5, <2>1, <3>1
        <3>3. k # 1 /\ k - 1 \in 1 .. Len(a)
            BY <1>1, <2>1, <2>3
        <3>4. m[k] = a[k - 1]
            BY <1>4, <3>1, <3>3
        <3> QED
            BY <2>1, <2>3, <3>2, <3>3, <3>4
    <2>4. CASE Len(a) + 1 < k
        <3>1. ~(k <= Len(m)) /\ k - Len(m) \in 1 .. Len(b)
            BY <1>1, <1>4, <2>1, <2>4
        <3>2. r[k] = b[k - Len(m)]
            BY <1>5, <2>1, <3>1
        <3> QED
            BY <2>1, <2>4, <3>1, <3>2
    <2> QED
        BY <1>1, <2>1, <2>2, <2>3, <2>4
<1>8. \A k \in 1 .. Len(a) : a[k] \in Nat
    BY ElementOfSeq
<1>9. \A k \in 1 .. Len(b) : b[k] \in Nat
    BY ElementOfSeq
<1>10. ASSUME NEW k \in DOMAIN r, NEW o \in DOMAIN r, k < o
       PROVE  r[k] < r[o]
    <2>1. CASE o <= Len(a) + 1 /\ k = 1
        <3>1. r[k] = g /\ o - 1 \in 1 .. Len(a) /\ r[o] = a[o - 1]
            BY <1>1, <1>7, <1>10, <2>1
        <3> QED
            BY <3>1
    <2>2. CASE o <= Len(a) + 1 /\ k # 1
        <3>1. k \in Nat /\ o \in Nat /\ k - 1 < o - 1 /\ k <= Len(a) + 1
            BY <1>1, <1>7, <1>10, <2>2
        <3>2. k - 1 \in 1 .. Len(a) /\ r[k] = a[k - 1] /\ 1 < k
            BY <1>1, <1>7, <2>2, <3>1
        <3>3. o - 1 \in 1 .. Len(a) /\ r[o] = a[o - 1]
            <4>1. o # 1 /\ ~(Len(a) + 1 < o)
                BY <1>1, <2>2, <3>1, <3>2
            <4> QED
                BY <1>7, <4>1
        <3> QED
            BY <3>1, <3>2, <3>3
    <2>3. CASE o > Len(a) + 1 /\ k <= Len(a) + 1
        <3>1. o - Len(m) \in 1 .. Len(b) /\ r[o] = b[o - Len(m)]
            <4>1. o \in Nat
                BY <1>7
            <4>2. ~(o = 1) /\ ~(o <= Len(a) + 1)
                BY <1>1, <2>3, <4>1
            <4>3. \/ o = 1 \/ o <= Len(a) + 1
                  \/ o - Len(m) \in 1 .. Len(b) /\ r[o] = b[o - Len(m)]
                BY <1>7
            <4> QED
                BY <4>2, <4>3
        <3>2. low < r[o] /\ r[o] \in Nat
            BY <1>9, <3>1
        <3>3. r[k] <= low /\ r[k] \in Nat
            <4>1. CASE k = 1
                BY <1>7, <4>1
            <4>2. CASE k # 1
                <5>1. k - 1 \in 1 .. Len(a) /\ r[k] = a[k - 1]
                    BY <1>1, <1>7, <2>3, <4>2
                <5> QED
                    BY <1>8, <5>1
            <4> QED
                BY <4>1, <4>2
        <3> QED
            BY <3>2, <3>3
    <2>4. CASE k > Len(a) + 1
        <3>1. k - Len(m) \in 1 .. Len(b) /\ r[k] = b[k - Len(m)]
            BY <1>1, <1>7, <2>4
        <3>2. /\ k \in Nat /\ o \in Nat /\ Len(a) + 1 < o /\ Len(m) \in Nat
              /\ k - Len(m) < o - Len(m)
            BY <1>1, <1>4, <1>7, <1>10, <2>4
        <3>3. o - Len(m) \in 1 .. Len(b) /\ r[o] = b[o - Len(m)]
            BY <1>1, <1>7, <3>2
        <3> QED
            BY <3>1, <3>2, <3>3
    <2> QED
        BY <1>1, <1>7, <2>1, <2>2, <2>3, <2>4
<1> QED
    BY <1>10 DEF r, m

(* What the HAL gets is whole and in the order of the frames, for any      *)
(* number of streams, frames and buffers, whatever the metadata say.       *)
THEOREM SuperBuffers == Spec => []WholeInOrder
<1>1. IInv => WholeInOrder
    <2> SUFFICES ASSUME IInv PROVE WholeInOrder
        OBVIOUS
    <2>1. PICK past \in [Streams -> Nat], low \in Nat : Matching(past, low)
        BY DEF IInv
    <2> DEFINE mc == ch.match_cnt
               q == SubSeq(ch.que, 1, mc)
               idx(s) == [p \in DOMAIN s |-> s[p].frame_idx]
               a == idx(cb_queue)
               b == idx(q)
    <2>2. /\ Sorted(ch.que, mc) /\ Within(ch.que, past, low) /\ ch.que \in Seq(Node)
          /\ Coming(cb_queue, given, low) /\ cb_queue \in Seq(Node)
          /\ given \in Nat /\ given <= low
        BY <2>1 DEF Matching, ChannelOK, Sorted, Coming, Sent
    <2>3. Len(ch.que) \in Nat /\ mc \in Nat /\ mc \in 0 .. Len(ch.que) /\ 1 \in 1 .. Len(ch.que) + 1
        <3>1. Len(ch.que) \in Nat /\ mc \in 0 .. Len(ch.que)
            BY <2>2, LenProperties DEF Sorted
        <3> QED
            BY <3>1
    <2>4. /\ q \in Seq(Node) /\ Len(q) = mc
          /\ \A k \in 1 .. mc : q[k] = ch.que[k] /\ k \in 1 .. Len(ch.que)
        <3>1. /\ q \in Seq(Node) /\ Len(q) = IF 1 <= mc THEN mc - 1 + 1 ELSE 0
              /\ \A k \in 1 .. Len(q) : q[k] = ch.que[1 + k - 1]
            BY <2>2, <2>3, SubSeqIs
        <3>2. Len(q) = mc
            BY <2>3, <3>1
        <3> QED
            BY <2>3, <3>1, <3>2
    <2> HIDE DEF q
    <2>5. /\ a \in Seq(Nat) /\ Len(a) = Len(cb_queue)
          /\ \A p \in 1 .. Len(cb_queue) : a[p] = cb_queue[p].frame_idx
        BY <2>2, IndexesAre
    <2>6. /\ b \in Seq(Nat) /\ Len(b) = mc
          /\ \A p \in 1 .. mc : b[p] = q[p].frame_idx
        BY <2>4, IndexesAre
    <2> HIDE DEF a, b
    <2>7. \A p \in 1 .. Len(a) : given < a[p] /\ a[p] <= low
        BY <2>2, <2>5 DEF Coming, Sent
    <2>8. \A p, o \in 1 .. Len(a) : p < o => a[p] < a[o]
        BY <2>2, <2>5 DEF Coming, Sent
    <2>9. \A p \in 1 .. Len(b) : low < b[p]
        BY <2>2, <2>4, <2>6 DEF Within
    <2>10. ASSUME NEW p \in 1 .. Len(b), NEW o \in 1 .. Len(b), p < o
           PROVE  b[p] < b[o]
        <3>1. /\ b[p] = ch.que[p].frame_idx /\ p \in 1 .. Len(ch.que)
              /\ b[o] = ch.que[o].frame_idx /\ o \in 1 .. Len(ch.que)
            BY <2>4, <2>6
        <3> QED
            BY <2>2, <2>10, <3>1 DEF Sorted
    <2>11. \A p, o \in DOMAIN (<<given>> \o a \o b) :
                p < o => (<<given>> \o a \o b)[p] < (<<given>> \o a \o b)[o]
        BY <2>2, <2>5, <2>6, <2>7, <2>8, <2>9, <2>10, ChainIs
    <2>12. \A h \in hal \cup Range(cb_queue) : h.have = Streams
        <3>1. DOMAIN cb_queue = 1 .. Len(cb_queue)
            BY <2>2, LenProperties
        <3>2. \A p \in 1 .. Len(cb_queue) : cb_queue[p].have = Streams
            BY <2>2 DEF Coming, Sent
        <3> QED
            BY <3>1, <3>2 DEF IInv, Range
    <2> QED
        BY <2>11, <2>12 DEF WholeInOrder, a, b, q
<1> QED
    BY <1>1, Invariant, PTL

-----------------------------------------------------------------------------
(* Counting                                                                *)

\* Where the elements of H are in q.
At(q, H) == {p \in DOMAIN q : q[p] \in H}

(* They can be counted.                                                    *)
LEMMA AtFinite ==
    ASSUME NEW S, NEW q \in Seq(S), NEW H
    PROVE  /\ IsFiniteSet(At(q, H)) /\ Cardinality(At(q, H)) \in Nat
           /\ Cardinality(At(q, H)) <= Len(q)
<1>1. DOMAIN q = 1 .. Len(q) /\ Len(q) \in Nat
    BY LenProperties
<1>2. IsFiniteSet(1 .. Len(q)) /\ Cardinality(1 .. Len(q)) = Len(q)
    BY <1>1, FS_Interval
<1>3. At(q, H) \in SUBSET (1 .. Len(q))
    BY <1>1 DEF At
<1> QED
    BY <1>2, <1>3, FS_Subset, FS_CardinalityType

(* Those of two sequences, one after the other.                            *)
LEMMA AtJoined ==
    ASSUME NEW S, NEW a \in Seq(S), NEW b \in Seq(S), NEW H
    PROVE  Cardinality(At(a \o b, H)) = Cardinality(At(a, H)) + Cardinality(At(b, H))
<1> DEFINE r == a \o b
           n == Len(a)
           moved == {p + n : p \in At(b, H)}
<1>1. /\ n \in Nat /\ Len(b) \in Nat
      /\ DOMAIN a = 1 .. n /\ DOMAIN b = 1 .. Len(b)
    BY LenProperties
<1>2. /\ r \in Seq(S) /\ Len(r) = n + Len(b)
      /\ \A k \in 1 .. n + Len(b) : r[k] = IF k <= n THEN a[k] ELSE b[k - n]
    BY ConcatProperties
<1>3. DOMAIN r = 1 .. n + Len(b)
    BY <1>2, LenProperties
<1> HIDE DEF r, n
<1>4. At(b, H) \in SUBSET Nat /\ IsFiniteSet(At(b, H)) /\ IsFiniteSet(At(a, H))
    <2>1. At(b, H) \in SUBSET Nat
        BY <1>1 DEF At
    <2> QED
        BY <2>1, AtFinite
<1>5. IsFiniteSet(moved) /\ Cardinality(moved) = Cardinality(At(b, H))
    <2> DEFINE f == [p \in At(b, H) |-> p + n]
    <2>1. f \in Bijection(At(b, H), moved)
        BY <1>1, <1>4 DEF Bijection, Injection, Surjection, IsInjective
    <2> HIDE DEF f, moved
    <2>2. ExistsBijection(At(b, H), moved)
        BY <2>1 DEF ExistsBijection
    <2> QED
        BY <1>4, <2>2, FS_Bijection
<1>6. At(r, H) = At(a, H) \cup moved
    <2>1. ASSUME NEW p \in At(r, H) PROVE p \in At(a, H) \cup moved
        <3>1. p \in 1 .. n + Len(b) /\ r[p] \in H
            BY <1>3 DEF At
        <3>2. CASE p <= n
            BY <1>1, <1>2, <3>1, <3>2 DEF At
        <3>3. CASE ~(p <= n)
            <4>1. p - n \in 1 .. Len(b) /\ b[p - n] \in H
                BY <1>1, <1>2, <3>1, <3>3
            <4>2. p - n \in At(b, H) /\ p = (p - n) + n
                BY <1>1, <3>1, <4>1 DEF At
            <4> QED
                BY <4>2
        <3> QED
            BY <3>2, <3>3
    <2>2. ASSUME NEW p \in At(a, H) PROVE p \in At(r, H)
        BY <1>1, <1>2, <1>3 DEF At
    <2>3. ASSUME NEW p \in At(b, H) PROVE p + n \in At(r, H)
        <3>1. p \in 1 .. Len(b) /\ b[p] \in H
            BY <1>1 DEF At
        <3>2. p + n \in 1 .. n + Len(b) /\ ~(p + n <= n) /\ p + n - n = p
            BY <1>1, <3>1
        <3>3. r[p + n] = b[p]
            BY <1>1, <1>2, <3>1, <3>2
        <3>4. p + n \in DOMAIN r /\ r[p + n] \in H
            BY <1>3, <3>1, <3>2, <3>3
        <3> QED
            BY <3>4 DEF At
    <2> QED
        BY <2>1, <2>2, <2>3
<1>7. At(a, H) \cap moved = {}
    BY <1>1 DEF At
<1> HIDE DEF moved
<1>8. Cardinality(At(a, H) \cup moved) =
        Cardinality(At(a, H)) + Cardinality(moved) - Cardinality(At(a, H) \cap moved)
    BY <1>4, <1>5, FS_Union
<1>9. Cardinality(At(a, H)) \in Nat /\ Cardinality(At(b, H)) \in Nat
    BY AtFinite
<1>10. Cardinality(At(r, H)) = Cardinality(At(a, H)) + Cardinality(At(b, H)) - 0
    BY <1>5, <1>6, <1>7, <1>8, FS_EmptySet
<1>11. Cardinality(At(r, H)) = Cardinality(At(a, H)) + Cardinality(At(b, H))
    BY <1>9, <1>10
<1> QED
    BY <1>11 DEF r

(* One element.                                                            *)
LEMMA AtOne ==
    ASSUME NEW S, NEW e \in S, NEW H
    PROVE  Cardinality(At(<<e>>, H)) = IF e \in H THEN 1 ELSE 0
<1>1. At(<<e>>, H) = IF e \in H THEN {1} ELSE {}
    BY DEF At
<1> QED
    BY <1>1, FS_EmptySet, FS_Singleton

(* A whole sequence.                                                       *)
LEMMA WholeOf ==
    ASSUME NEW S, NEW q \in Seq(S)
    PROVE  SubSeq(q, 1, Len(q)) = q
<1> DEFINE n == Len(q)
           r == SubSeq(q, 1, n)
<1>1. n \in Nat /\ 1 \in 1 .. n + 1 /\ n \in 0 .. n
    <2>1. n \in Nat
        BY LenProperties
    <2> QED
        BY <2>1
<1>2. /\ r \in Seq(S) /\ Len(r) = IF 1 <= n THEN n - 1 + 1 ELSE 0
      /\ \A k \in 1 .. Len(r) : r[k] = q[1 + k - 1]
    BY <1>1, SubSeqIs
<1> HIDE DEF r, n
<1>3. Len(r) = n /\ \A k \in 1 .. Len(r) : r[k] = q[k]
    BY <1>1, <1>2
<1>4. r = q
    BY <1>1, <1>2, <1>3, SeqEqual DEF n
<1> QED
    BY <1>4 DEF r, n

(* The first elements of a sequence, cut in two.                           *)
LEMMA CutBefore ==
    ASSUME NEW S, NEW q \in Seq(S), NEW n \in 0 .. Len(q), NEW m \in 0 .. n
    PROVE  /\ SubSeq(q, 1, n) = SubSeq(q, 1, m) \o SubSeq(q, m + 1, n)
           /\ SubSeq(q, 1, n) \in Seq(S)
           /\ SubSeq(q, 1, m) \in Seq(S) /\ SubSeq(q, m + 1, n) \in Seq(S)
<1> DEFINE w == SubSeq(q, 1, n)
           a == SubSeq(q, 1, m)
           b == SubSeq(q, m + 1, n)
<1>1. /\ Len(q) \in Nat /\ n \in Nat /\ m \in Nat /\ m <= n /\ n <= Len(q)
      /\ 1 \in 1 .. Len(q) + 1 /\ m + 1 \in 1 .. Len(q) + 1 /\ m \in 0 .. Len(q)
    <2>1. Len(q) \in Nat
        BY LenProperties
    <2> QED
        BY <2>1
<1>2. w \in Seq(S) /\ Len(w) = n /\ \A k \in 1 .. n : w[k] = q[k]
    <2>1. /\ w \in Seq(S) /\ Len(w) = IF 1 <= n THEN n - 1 + 1 ELSE 0
          /\ \A k \in 1 .. Len(w) : w[k] = q[1 + k - 1]
        BY <1>1, SubSeqIs
    <2>2. Len(w) = n
        BY <1>1, <2>1
    <2> HIDE DEF w
    <2> QED
        BY <1>1, <2>1, <2>2
<1>3. a \in Seq(S) /\ Len(a) = m /\ \A k \in 1 .. m : a[k] = q[k]
    <2>1. /\ a \in Seq(S) /\ Len(a) = IF 1 <= m THEN m - 1 + 1 ELSE 0
          /\ \A k \in 1 .. Len(a) : a[k] = q[1 + k - 1]
        BY <1>1, SubSeqIs
    <2>2. Len(a) = m
        BY <1>1, <2>1
    <2> HIDE DEF a
    <2> QED
        BY <1>1, <2>1, <2>2
<1>4. b \in Seq(S) /\ Len(b) = n - m /\ \A k \in 1 .. n - m : b[k] = q[m + k]
    <2>1. /\ b \in Seq(S) /\ Len(b) = IF m + 1 <= n THEN n - (m + 1) + 1 ELSE 0
          /\ \A k \in 1 .. Len(b) : b[k] = q[m + 1 + k - 1]
        BY <1>1, SubSeqIs
    <2>2. Len(b) = n - m
        BY <1>1, <2>1
    <2> HIDE DEF b
    <2> QED
        BY <1>1, <2>1, <2>2
<1> HIDE DEF w, a, b
<1> DEFINE r == a \o b
<1>5. /\ r \in Seq(S) /\ Len(r) = Len(a) + Len(b)
      /\ \A k \in 1 .. Len(a) + Len(b) :
            r[k] = IF k <= Len(a) THEN a[k] ELSE b[k - Len(a)]
    BY <1>3, <1>4, ConcatProperties
<1> HIDE DEF r
<1>6. r \in Seq(S) /\ w \in Seq(S) /\ Len(r) = Len(w)
    BY <1>1, <1>2, <1>3, <1>4, <1>5
<1>7. ASSUME NEW k \in 1 .. Len(r) PROVE r[k] = w[k]
    <2>1. k \in Nat /\ k \in 1 .. n /\ k \in 1 .. Len(a) + Len(b)
        BY <1>1, <1>2, <1>5, <1>6
    <2>2. r[k] = IF k <= m THEN a[k] ELSE b[k - m]
        BY <1>3, <1>5, <2>1
    <2>3. CASE k <= m
        BY <1>1, <1>2, <1>3, <2>1, <2>2, <2>3
    <2>4. CASE ~(k <= m)
        <3>1. k - m \in 1 .. n - m /\ m + (k - m) = k
            BY <1>1, <2>1, <2>4
        <3>2. b[k - m] = q[k]
            BY <1>4, <3>1
        <3> QED
            BY <1>2, <2>1, <2>2, <2>4, <3>2
    <2> QED
        BY <2>3, <2>4
<1>8. r = w
    BY <1>6, <1>7, SeqEqual
<1> QED
    BY <1>2, <1>3, <1>4, <1>8 DEF r, w, a, b

(* A sequence and its parts.                                               *)
LEMMA CutInTwo ==
    ASSUME NEW S, NEW q \in Seq(S), NEW n \in 0 .. Len(q)
    PROVE  q = SubSeq(q, 1, n) \o SubSeq(q, n + 1, Len(q))
<1>1. Len(q) \in 0 .. Len(q)
    BY LenProperties
<1>2. SubSeq(q, 1, Len(q)) = SubSeq(q, 1, n) \o SubSeq(q, n + 1, Len(q))
    BY <1>1, CutBefore
<1> QED
    BY <1>2, WholeOf

-----------------------------------------------------------------------------
(* No buffer is lost                                                       *)

\* How many buffers of stream s are in some nodes, and how many a channel
\* has, in its queue and to be given back.
Having(s) == {node \in Node : s \in node.have}
Held(q, s) == Cardinality(At(q, Having(s)))
Kept(c, s) == c.back[s] + Held(c.que, s)

\* There is room for the unmatched nodes.
Fits(c) == Len(c.que) <= c.match_cnt + max_unmatched_frames + 1

\* The channel d has the buffers of c, and one more of the streams in more.
Conserves(c, d, more) ==
    /\ d.back \in [Streams -> Nat]
    /\ \A s \in Streams : Kept(d, s) = Kept(c, s) + (IF s \in more THEN 1 ELSE 0)
    /\ Fits(c) => Fits(d)

LEMMA HeldIs ==
    ASSUME NEW q \in Seq(Node), NEW s \in Streams
    PROVE  /\ Cardinality({p \in DOMAIN q : s \in q[p].have}) = Held(q, s)
           /\ Held(q, s) \in Nat /\ Held(q, s) <= Len(q)
<1>1. DOMAIN q = 1 .. Len(q)
    BY LenProperties
<1>2. \A p \in 1 .. Len(q) : q[p] \in Node
    BY ElementOfSeq
<1>3. {p \in DOMAIN q : s \in q[p].have} = At(q, Having(s))
    BY <1>1, <1>2 DEF At, Having
<1> QED
    BY <1>3, AtFinite DEF Held

LEMMA HeldJoined ==
    ASSUME NEW a \in Seq(Node), NEW b \in Seq(Node), NEW s \in Streams
    PROVE  Held(a \o b, s) = Held(a, s) + Held(b, s)
BY AtJoined DEF Held

LEMMA HeldOne ==
    ASSUME NEW e \in Node, NEW s \in Streams
    PROVE  Held(<<e>>, s) = IF s \in e.have THEN 1 ELSE 0
BY AtOne DEF Held, Having

(* Buffers of all streams of some nodes go back.                           *)
LEMMA QbufAllIs ==
    ASSUME NEW c, DOMAIN c = Fields, c.back \in [Streams -> Nat], NEW nodes \in Seq(Node)
    PROVE  /\ QbufAll(c, nodes).back \in [Streams -> Nat]
           /\ \A s \in Streams : QbufAll(c, nodes).back[s] = c.back[s] + Held(nodes, s)
<1> DEFINE b == [s \in Streams |->
                    c.back[s] + Cardinality({p \in DOMAIN nodes : s \in nodes[p].have})]
<1>1. QbufAll(c, nodes).back = b
    BY DEF QbufAll, Fields
<1>2. \A s \in Streams : b[s] = c.back[s] + Held(nodes, s) /\ b[s] \in Nat
    BY HeldIs
<1> QED
    BY <1>1, <1>2

LEMMA SameConserves ==
    ASSUME NEW c, NEW d, SameQueue(c, d), d.back = c.back, c.back \in [Streams -> Nat],
           c.que \in Seq(Node)
    PROVE  Conserves(c, d, {})
<1>1. \A s \in Streams : Kept(c, s) \in Nat /\ Kept(d, s) = Kept(c, s)
    <2>1. \A s \in Streams : c.back[s] \in Nat /\ Held(c.que, s) \in Nat
        BY HeldIs
    <2> QED
        BY <2>1 DEF SameQueue, Kept
<1> QED
    BY <1>1 DEF Conserves, SameQueue, Fits

LEMMA ConservesMore ==
    ASSUME NEW c, NEW d, NEW e, NEW more, NEW past, NEW low,
           ChannelOK(c, past, low), c.back \in [Streams -> Nat],
           Conserves(c, d, {}), Conserves(d, e, more)
    PROVE  Conserves(c, e, more)
<1>1. \A s \in Streams : Kept(c, s) \in Nat
    <2>1. c.que \in Seq(Node)
        BY DEF ChannelOK, Sorted
    <2>2. \A s \in Streams : c.back[s] \in Nat /\ Held(c.que, s) \in Nat
        BY <2>1, HeldIs
    <2> QED
        BY <2>2 DEF Kept
<1>2. \A s \in Streams : Kept(e, s) = Kept(c, s) + (IF s \in more THEN 1 ELSE 0)
    BY <1>1 DEF Conserves
<1> QED
    BY <1>2 DEF Conserves

(* The first n nodes leave, and their buffers go back.                     *)
LEMMA DropConserves ==
    ASSUME NEW c, NEW past \in [Streams -> Nat], NEW low \in Nat, ChannelOK(c, past, low),
           c.back \in [Streams -> Nat], NEW n \in 0 .. Len(c.que)
    PROVE  Conserves(c, Dequeue(QbufAll(c, SubSeq(c.que, 1, n)), n), {})
<1> DEFINE q == c.que
           mc == c.match_cnt
           a == SubSeq(q, 1, n)
           b == SubSeq(q, n + 1, Len(q))
           d == QbufAll(c, a)
           e == Dequeue(d, n)
<1>1. q \in Seq(Node) /\ Len(q) \in Nat /\ mc \in 0 .. Len(q) /\ Sorted(q, mc) /\ DOMAIN c = Fields
    BY LenProperties DEF ChannelOK, Sorted
<1>2. a \in Seq(Node) /\ b \in Seq(Node) /\ Len(b) = Len(q) - n
    <2>1. a \in Seq(Node) /\ b \in Seq(Node) /\ Len(b) = IF n + 1 <= Len(q) THEN Len(q) - (n + 1) + 1 ELSE 0
        BY <1>1, SubSeqIs
    <2> QED
        BY <1>1, <2>1
<1>3. q = a \o b
    BY <1>1, CutInTwo
<1> HIDE DEF a, b
<1>4. /\ DOMAIN d = Fields /\ d.que = q /\ d.match_cnt = mc
      /\ d.back \in [Streams -> Nat] /\ \A s \in Streams : d.back[s] = c.back[s] + Held(a, s)
    BY <1>1, <1>2, QbufSame, QbufAllIs DEF SameQueue
<1> HIDE DEF d
<1>5. e.que = b /\ e.back = d.back /\ e.match_cnt = mc - Cardinality(Matched(q) \cap 1 .. n)
    BY <1>4 DEF Dequeue, Fields, b
<1>6. \A s \in Streams : Kept(e, s) = Kept(c, s) + 0
    <2>1. ASSUME NEW s \in Streams PROVE Kept(e, s) = Kept(c, s) + 0
        <3>1. Held(q, s) = Held(a, s) + Held(b, s)
            BY <1>2, <1>3, HeldJoined
        <3>2. /\ Held(q, s) \in Nat /\ Held(a, s) \in Nat /\ Held(b, s) \in Nat
              /\ c.back[s] \in Nat
            BY <1>1, <1>2, HeldIs
        <3> QED
            BY <1>4, <1>5, <3>1, <3>2 DEF Kept
    <2> QED
        BY <2>1
<1>7. ASSUME Fits(c) PROVE Fits(e)
    <2>1. Matched(q) \cap 1 .. n = 1 .. (IF n <= mc THEN n ELSE mc)
        BY <1>1, ReadyIs
    <2>2. (IF n <= mc THEN n ELSE mc) \in Nat
        BY <1>1
    <2>3. \A m \in Nat : Cardinality(1 .. m) = m
        BY FS_Interval
    <2>4. e.match_cnt = mc - (IF n <= mc THEN n ELSE mc)
        BY <1>5, <2>1, <2>2, <2>3
    <2>5. Len(q) <= mc + max_unmatched_frames + 1 /\ max_unmatched_frames \in Nat
        BY <1>7, ChannelAssumption DEF Fits
    <2> QED
        BY <1>1, <1>2, <1>5, <2>4, <2>5 DEF Fits
<1> HIDE DEF e
<1>8. \A s \in Streams : Kept(e, s) = Kept(c, s) + (IF s \in {} THEN 1 ELSE 0)
    BY <1>6
<1>9. Conserves(c, e, {})
    BY <1>4, <1>5, <1>7, <1>8 DEF Conserves
<1> QED
    BY <1>9 DEF d, e, a

LEMMA FlushConserves ==
    ASSUME NEW c, NEW past \in [Streams -> Nat], NEW low \in Nat, ChannelOK(c, past, low),
           c.back \in [Streams -> Nat]
    PROVE  Conserves(c, Flush(c), {}) /\ Conserves(c, FlushMatched(c), {})
<1>1. /\ c.que \in Seq(Node) /\ Len(c.que) \in 0 .. Len(c.que)
      /\ Ready(c.que) \in 0 .. Len(c.que)
    <2>1. Sorted(c.que, c.match_cnt)
        BY DEF ChannelOK
    <2>2. Len(c.que) \in Nat /\ Ready(c.que) = c.match_cnt
        BY <2>1, ReadyIs
    <2>3. c.que \in Seq(Node) /\ c.match_cnt \in 0 .. Len(c.que)
        BY <2>1 DEF Sorted
    <2> QED
        BY <2>2, <2>3
<1>2. SubSeq(c.que, 1, Len(c.que)) = c.que
    BY <1>1, WholeOf
<1> QED
    BY <1>1, <1>2, DropConserves DEF Flush, FlushMatched

LEMMA DropDownConserves ==
    ASSUME NEW c, NEW past \in [Streams -> Nat], NEW low \in Nat, ChannelOK(c, past, low),
           c.back \in [Streams -> Nat], NEW limit \in Nat
    PROVE  /\ Conserves(c, DropDownTo(c, limit), {})
           /\ DropDownTo(c, limit).match_cnt <= limit
<1> DEFINE n == c.match_cnt - limit
           d == QbufAll(c, SubSeq(c.que, 1, n))
<1>1. Sorted(c.que, c.match_cnt) /\ DOMAIN c = Fields /\ c.que \in Seq(Node)
    BY DEF ChannelOK, Sorted
<1>2. /\ Len(c.que) \in Nat /\ c.match_cnt \in 0 .. Len(c.que) /\ Ready(c.que) = c.match_cnt
      /\ Matched(c.que) = 1 .. c.match_cnt
    BY <1>1, ReadyIs DEF Sorted
<1>3. CASE c.match_cnt <= limit
    BY <1>1, <1>3, SameConserves DEF DropDownTo, SameQueue
<1>4. CASE ~(c.match_cnt <= limit)
    <2>1. n \in 0 .. Len(c.que) /\ n <= Ready(c.que) /\ n <= c.match_cnt
        BY <1>2, <1>4
    <2>2. DropDownTo(c, limit) = Dequeue(d, n)
        BY <1>4, <2>1 DEF DropDownTo
    <2>3. Conserves(c, Dequeue(d, n), {})
        BY <2>1, DropConserves
    <2>4. DOMAIN d = Fields /\ d.que = c.que /\ d.match_cnt = c.match_cnt
        BY <1>1, QbufSame DEF SameQueue
    <2> HIDE DEF d
    <2>5. Dequeue(d, n).match_cnt = c.match_cnt - Cardinality(Matched(c.que) \cap 1 .. n)
        BY <2>4 DEF Dequeue, Fields
    <2>6. Matched(c.que) \cap 1 .. n = 1 .. n
        BY <1>2, <2>1
    <2>7. Cardinality(1 .. n) = n
        BY <2>1, FS_Interval
    <2>8. c.match_cnt \in Nat /\ c.match_cnt - n = limit
        BY <1>2
    <2> HIDE DEF n
    <2>9. Dequeue(d, n).match_cnt = limit
        BY <2>5, <2>6, <2>7, <2>8
    <2> QED
        BY <2>2, <2>3, <2>9
<1> QED
    BY <1>3, <1>4

LEMMA SkipConserves ==
    ASSUME NEW c, NEW past \in [Streams -> Nat], NEW low \in Nat, ChannelOK(c, past, low),
           c.back \in [Streams -> Nat]
    PROVE  /\ Conserves(c, Skip(c), {})
           /\ Conserves(c, BufdoneOverflow(c), {})
           /\ c.notify_mode # "CONTINUOUS" => BufdoneOverflow(c).match_cnt <= water_mark
<1>1. look_back \in Nat /\ water_mark \in Nat
    BY ChannelAssumption
<1>2. Conserves(c, c, {})
    BY SameConserves DEF SameQueue, ChannelOK, Sorted
<1>3. /\ Conserves(c, DropDownTo(c, look_back), {})
      /\ Conserves(c, DropDownTo(c, water_mark), {})
      /\ DropDownTo(c, water_mark).match_cnt <= water_mark
    BY <1>1, DropDownConserves
<1> QED
    BY <1>2, <1>3 DEF Skip, BufdoneOverflow

(* What does not touch the queue conserves as well.                        *)
LEMMA ConservesSame ==
    ASSUME NEW c, NEW d, NEW e, NEW more, Conserves(c, d, more),
           SameQueue(d, e), e.back = d.back
    PROVE  Conserves(c, e, more)
<1>1. \A s \in Streams : Kept(e, s) = Kept(d, s)
    BY DEF Kept, SameQueue
<1>2. Fits(d) => Fits(e)
    BY DEF Fits, SameQueue
<1> QED
    BY <1>1, <1>2 DEF Conserves

LEMMA HandleMetadataConserves ==
    ASSUME NEW c, NEW past \in [Streams -> Nat], NEW low \in Nat, ChannelOK(c, past, low),
           c.back \in [Streams -> Nat], NEW buf
    PROVE  Conserves(c, HandleMetadata(c, buf), {})
<1> DEFINE m == buf.meta
           ranged == m.range # <<>>
           F == Flush(c)
           M == FlushMatched(c)
           f1 == [F EXCEPT !.expected = @ + max_future_frame_offset, !.needLEDFlash = TRUE]
           c1 == [c EXCEPT !.needLEDFlash = FALSE]
           c2 == [c EXCEPT !.expected = m.range[1]]
           c3 == [c EXCEPT !.isZoom1xFrameRequested = FALSE, !.expected = buf.frame_idx + 1]
           m1 == [M EXCEPT !.expected = @ + max_future_frame_offset]
           prep == CASE m.prep = "future" -> f1
                     [] m.prep = "done" -> c1
                     [] m.prep = "none" /\ ranged -> c2
                     [] OTHER -> IF c.need3ABracketing THEN m1 ELSE c
           p1 == [prep EXCEPT !.expected = m.range[1], !.expected_without_led = m.range[2]]
           p2 == [prep EXCEPT !.expected = m.range[1], !.need3ABracketing = FALSE]
<1>1. Conserves(c, F, {}) /\ Conserves(c, M, {})
    BY FlushConserves
<1>2. DOMAIN c = Fields /\ DOMAIN F = Fields /\ DOMAIN M = Fields
    BY FlushOK, FlushMatchedOK DEF Keeps, ChannelOK
<1>3. Conserves(c, c, {})
    BY <1>2, SameConserves DEF SameQueue, ChannelOK, Sorted
<1>4. HandleMetadata(c, buf) \in {c, c3, m1, p1, p2, prep}
    BY DEF HandleMetadata
<1> HIDE DEF F, M
<1>5. /\ SameQueue(F, f1) /\ f1.back = F.back
      /\ SameQueue(M, m1) /\ m1.back = M.back
    BY <1>2 DEF SameQueue, Fields
<1>6. /\ SameQueue(c, c1) /\ c1.back = c.back
      /\ SameQueue(c, c2) /\ c2.back = c.back
      /\ SameQueue(c, c3) /\ c3.back = c.back
    BY <1>2 DEF SameQueue, Fields
<1> HIDE DEF f1, m1, c1, c2, c3
<1>7. Conserves(c, f1, {}) /\ Conserves(c, m1, {})
    BY <1>1, <1>5, ConservesSame
<1>8. Conserves(c, c1, {}) /\ Conserves(c, c2, {}) /\ Conserves(c, c3, {})
    BY <1>3, <1>6, ConservesSame
<1>9. prep \in {f1, c1, c2, m1, c}
    OBVIOUS
<1> HIDE DEF prep
<1>10. Conserves(c, prep, {}) /\ DOMAIN prep = Fields
    BY <1>2, <1>3, <1>5, <1>6, <1>7, <1>8, <1>9 DEF SameQueue
<1>11. /\ SameQueue(prep, p1) /\ p1.back = prep.back
       /\ SameQueue(prep, p2) /\ p2.back = prep.back
    BY <1>10 DEF SameQueue, Fields
<1> HIDE DEF p1, p2
<1>12. Conserves(c, p1, {}) /\ Conserves(c, p2, {})
    BY <1>10, <1>11, ConservesSame
<1> QED
    BY <1>3, <1>4, <1>7, <1>8, <1>10, <1>12

(* A buffer goes back.                                                     *)
LEMMA QbufConserves ==
    ASSUME NEW c, DOMAIN c = Fields, c.back \in [Streams -> Nat], c.que \in Seq(Node), NEW s
    PROVE  Conserves(c, Qbuf(c, {s}), {s})
<1> DEFINE d == Qbuf(c, {s})
<1>1. /\ d.back = [o \in Streams |-> IF o \in {s} THEN c.back[o] + 1 ELSE c.back[o]]
      /\ SameQueue(c, d)
    BY DEF Qbuf, Fields, SameQueue
<1> HIDE DEF d
<1>2. d.back \in [Streams -> Nat]
    BY <1>1
<1>3. \A o \in Streams : Held(c.que, o) \in Nat
    BY HeldIs
<1>4. \A o \in Streams : Kept(d, o) = Kept(c, o) + (IF o \in {s} THEN 1 ELSE 0)
    BY <1>1, <1>3 DEF Kept, SameQueue
<1>5. Conserves(c, d, {s})
    BY <1>1, <1>2, <1>4 DEF Conserves, Fits, SameQueue
<1> QED
    BY <1>5 DEF d

-----------------------------------------------------------------------------
(* Nodes of a queue that is cut in parts                                   *)

(* The nodes before f, those from f to p, and those after p.               *)
LEMMA HeldInParts ==
    ASSUME NEW q \in Seq(Node), NEW p \in 1 .. Len(q), NEW f \in 1 .. p, NEW s \in Streams
    PROVE  /\ SubSeq(q, 1, f - 1) \in Seq(Node) /\ SubSeq(q, f, p - 1) \in Seq(Node)
           /\ SubSeq(q, p + 1, Len(q)) \in Seq(Node)
           /\ Held(q, s) = Held(SubSeq(q, 1, f - 1), s) + Held(SubSeq(q, f, p - 1), s)
                           + (IF s \in q[p].have THEN 1 ELSE 0)
                           + Held(SubSeq(q, p + 1, Len(q)), s)
<1> DEFINE a == SubSeq(q, 1, f - 1)
           m == SubSeq(q, f, p - 1)
           b == SubSeq(q, p + 1, Len(q))
           v == SubSeq(q, 1, p - 1)
           w == SubSeq(q, 1, p)
           e == SubSeq(q, p, p)
<1>1. /\ Len(q) \in Nat /\ p \in Nat /\ f \in Nat /\ p \in 0 .. Len(q) /\ p - 1 \in 0 .. p
      /\ p - 1 \in 0 .. Len(q) /\ f - 1 \in 0 .. p - 1 /\ p \in 1 .. Len(q) + 1
      /\ (p - 1) + 1 = p /\ (f - 1) + 1 = f /\ p + 1 \in 1 .. Len(q) + 1
      /\ Len(q) \in 0 .. Len(q)
    <2>1. Len(q) \in Nat
        BY LenProperties
    <2> QED
        BY <2>1
<1>2. q = w \o b
    BY <1>1, CutInTwo
<1>3. w = v \o SubSeq(q, (p - 1) + 1, p) /\ w \in Seq(Node) /\ v \in Seq(Node)
    BY <1>1, CutBefore
<1>4. v = a \o SubSeq(q, (f - 1) + 1, p - 1) /\ a \in Seq(Node)
      /\ SubSeq(q, (f - 1) + 1, p - 1) \in Seq(Node)
    BY <1>1, CutBefore
<1>5. /\ w = v \o e /\ v = a \o m
      /\ a \in Seq(Node) /\ m \in Seq(Node) /\ v \in Seq(Node) /\ w \in Seq(Node)
    BY <1>1, <1>3, <1>4
<1>6. b \in Seq(Node)
    BY <1>1, SubSeqIs
<1>7. e = <<q[p]>> /\ q[p] \in Node
    <2>1. e \in Seq(Node) /\ Len(e) = (IF p <= p THEN p - p + 1 ELSE 0)
          /\ \A k \in 1 .. Len(e) : e[k] = q[p + k - 1]
        BY <1>1, SubSeqIs
    <2> HIDE DEF e
    <2>2. Len(e) = 1
        BY <1>1, <2>1
    <2>3. 1 \in 1 .. Len(e)
        BY <2>2
    <2>4. e[1] = q[p + 1 - 1]
        BY <2>1, <2>3
    <2>5. e[1] = q[p] /\ q[p] \in Node
        BY <1>1, <2>4, ElementOfSeq
    <2> DEFINE g == <<q[p]>>
    <2>6. g \in Seq(Node) /\ Len(g) = 1 /\ g[1] = q[p]
        BY <2>5
    <2> HIDE DEF g
    <2>7. \A k \in 1 .. Len(e) : e[k] = g[k]
        BY <2>2, <2>5, <2>6
    <2>8. e = g
        BY <2>1, <2>2, <2>6, <2>7, SeqEqual
    <2> QED
        BY <2>5, <2>8 DEF g
<1> HIDE DEF a, m, b, v, w, e
<1>8. e \in Seq(Node)
    BY <1>7
<1>9. Held(q, s) = Held(w, s) + Held(b, s)
    BY <1>2, <1>3, <1>6, HeldJoined
<1>10. Held(w, s) = Held(v, s) + Held(e, s)
    BY <1>5, <1>8, HeldJoined
<1>11. Held(v, s) = Held(a, s) + Held(m, s)
    BY <1>5, HeldJoined
<1>12. Held(e, s) = IF s \in q[p].have THEN 1 ELSE 0
    BY <1>7, HeldOne
<1>13. /\ Held(q, s) = Held(a, s) + Held(m, s) + (IF s \in q[p].have THEN 1 ELSE 0) + Held(b, s)
       /\ a \in Seq(Node) /\ m \in Seq(Node) /\ b \in Seq(Node)
    BY <1>4, <1>5, <1>6, <1>9, <1>10, <1>11, <1>12
<1> QED
    BY <1>13 DEF a, m, b

(* Some nodes, one node, and others.                                       *)
LEMMA HeldAround ==
    ASSUME NEW a \in Seq(Node), NEW e \in Node, NEW b \in Seq(Node), NEW s \in Streams
    PROVE  Held(a \o <<e>> \o b, s) =
                Held(a, s) + (IF s \in e.have THEN 1 ELSE 0) + Held(b, s)
<1>1. <<e>> \in Seq(Node)
    OBVIOUS
<1>2. a \o <<e>> \in Seq(Node)
    BY <1>1, ConcatProperties
<1>3. Held((a \o <<e>>) \o b, s) = Held(a \o <<e>>, s) + Held(b, s)
    BY <1>2, HeldJoined
<1>4. Held(a \o <<e>>, s) = Held(a, s) + Held(<<e>>, s)
    BY <1>1, HeldJoined
<1>5. Held(<<e>>, s) = IF s \in e.have THEN 1 ELSE 0
    BY HeldOne
<1> QED
    BY <1>3, <1>4, <1>5

(* A node is put in; a node is taken out.                                  *)
LEMMA HeldInserted ==
    ASSUME NEW q \in Seq(Node), NEW i \in 1 .. Len(q) + 1, NEW e \in Node, NEW s \in Streams
    PROVE  Held(InsertAt(q, i, e), s) = Held(q, s) + (IF s \in e.have THEN 1 ELSE 0)
<1> DEFINE a == SubSeq(q, 1, i - 1)
           b == SubSeq(q, i, Len(q))
<1>1. /\ Len(q) \in Nat /\ i \in Nat /\ i - 1 \in 0 .. Len(q) /\ (i - 1) + 1 = i
      /\ 1 \in 1 .. Len(q) + 1 /\ Len(q) \in 0 .. Len(q)
    <2>1. Len(q) \in Nat
        BY LenProperties
    <2> QED
        BY <2>1
<1>2. q = a \o SubSeq(q, (i - 1) + 1, Len(q))
    BY <1>1, CutInTwo
<1>3. q = a \o b
    BY <1>1, <1>2
<1>4. a \in Seq(Node) /\ b \in Seq(Node)
    BY <1>1, SubSeqIs
<1>5. InsertAt(q, i, e) = a \o <<e>> \o b
    BY DEF InsertAt
<1> HIDE DEF a, b
<1>6. Held(InsertAt(q, i, e), s) = Held(a, s) + (IF s \in e.have THEN 1 ELSE 0) + Held(b, s)
    BY <1>4, <1>5, HeldAround
<1>7. Held(q, s) = Held(a, s) + Held(b, s)
    BY <1>3, <1>4, HeldJoined
<1>8. Held(a, s) \in Nat /\ Held(b, s) \in Nat
    BY <1>4, HeldIs
<1> QED
    BY <1>6, <1>7, <1>8

LEMMA HeldRemoved ==
    ASSUME NEW q \in Seq(Node), NEW p \in 1 .. Len(q), NEW s \in Streams
    PROVE  Held(q, s) = Held(RemoveAt(q, p), s) + (IF s \in q[p].have THEN 1 ELSE 0)
<1> DEFINE a == SubSeq(q, 1, p - 1)
           m == SubSeq(q, p, p - 1)
           b == SubSeq(q, p + 1, Len(q))
<1>1. p \in 1 .. p /\ Len(q) \in Nat /\ p - 1 \in 0 .. Len(q) /\ p \in 1 .. Len(q) + 1 /\ p \in Nat
    <2>1. Len(q) \in Nat
        BY LenProperties
    <2> QED
        BY <2>1
<1>2. /\ a \in Seq(Node) /\ m \in Seq(Node) /\ b \in Seq(Node)
      /\ Held(q, s) = Held(a, s) + Held(m, s) + (IF s \in q[p].have THEN 1 ELSE 0) + Held(b, s)
    BY <1>1, HeldInParts
<1>3. Held(m, s) = 0
    <2>1. Len(m) = IF p <= p - 1 THEN (p - 1) - p + 1 ELSE 0
        BY <1>1, SubSeqIs
    <2> HIDE DEF m
    <2>2. Len(m) = 0
        BY <1>1, <2>1
    <2>3. Held(m, s) \in Nat /\ Held(m, s) <= 0
        BY <1>2, <2>2, HeldIs
    <2> QED
        BY <2>3
<1>4. RemoveAt(q, p) = a \o b
    BY DEF RemoveAt
<1> HIDE DEF a, m, b
<1>5. Held(RemoveAt(q, p), s) = Held(a, s) + Held(b, s)
    BY <1>2, <1>4, HeldJoined
<1>6. Held(a, s) \in Nat /\ Held(b, s) \in Nat
    BY <1>2, HeldIs
<1> QED
    BY <1>2, <1>3, <1>5, <1>6

-----------------------------------------------------------------------------
(* A frame joins the queue, and its buffer with it                         *)

(* The frame of a stream that a node does not have yet.                    *)
LEMMA NotThere ==
    ASSUME NEW q, NEW past \in [Streams -> Nat], NEW low, Within(q, past, low),
           NEW p \in 1 .. Len(q), NEW s \in Streams, q[p].frame_idx \in Nat,
           past[s] < q[p].frame_idx
    PROVE  s \notin q[p].have
<1> SUFFICES ASSUME s \in q[p].have PROVE FALSE
    OBVIOUS
<1>1. q[p].frame_idx <= past[s] /\ past[s] \in Nat
    BY DEF Within
<1> QED
    BY <1>1

LEMMA JoinConserves ==
    ASSUME NEW c, NEW past \in [Streams -> Nat], NEW low \in Nat, ChannelOK(c, past, low),
           c.back \in [Streams -> Nat],
           NEW buf, buf.stream \in Streams, buf.frame_idx \in Nat,
           past[buf.stream] < buf.frame_idx,
           NEW pos \in Unmatched(c.que), c.que[pos].frame_idx = buf.frame_idx
    PROVE  Conserves(c, Join(c, buf, pos), {buf.stream})
<1> DEFINE q == c.que
           mc == c.match_cnt
           have == q[pos].have \cup {buf.stream}
           whole == have = Streams
           older == {p \in Unmatched(q) : p < pos /\ q[p].frame_idx < buf.frame_idx}
           from == IF whole /\ older # {} THEN First(older) ELSE pos
           node == [q[pos] EXCEPT !.have = have, !.matched = whole]
           a == SubSeq(q, 1, from - 1)
           m == SubSeq(q, from, pos - 1)
           b == SubSeq(q, pos + 1, Len(q))
           r == a \o <<node>> \o b
           d == QbufAll(c, m)
           joined == [d EXCEPT !.que = SubSeq(@, 1, from - 1) \o <<node>> \o SubSeq(@, pos + 1, Len(@))]
           result == [Expect(joined, buf) EXCEPT !.match_cnt = @ + 1]
<1>1. Sorted(q, mc) /\ Within(q, past, low) /\ DOMAIN c = Fields
    BY DEF ChannelOK
<1>2. pos \in Unmatched(q) /\ q[pos].frame_idx = buf.frame_idx
    OBVIOUS
<1>3. Join(c, buf, pos) = IF whole THEN result ELSE joined
    BY DEF Join
<1>4. c.que = q /\ c.match_cnt = mc
    OBVIOUS
<1> HIDE DEF q, mc
<1>5. /\ q \in Seq(Node) /\ Len(q) \in Nat /\ mc \in Nat /\ mc <= Len(q)
      /\ pos \in 1 .. Len(q) /\ Unmatched(q) \subseteq 1 .. Len(q)
    <2>1. Len(q) \in Nat /\ mc \in Nat /\ Unmatched(q) = mc + 1 .. Len(q)
        BY <1>1, ReadyIs
    <2>2. q \in Seq(Node) /\ mc \in 0 .. Len(q)
        BY <1>1 DEF Sorted
    <2> QED
        BY <1>2, <2>1, <2>2
<1>6. q[pos] \in Node /\ buf.stream \notin q[pos].have
    <2>1. q[pos] \in Node
        BY <1>5, ElementOfSeq
    <2> DEFINE s == buf.stream
    <2>2. s \in Streams /\ q[pos].frame_idx \in Nat /\ past[s] < q[pos].frame_idx
        BY <1>2
    <2> HIDE DEF s
    <2>3. s \notin q[pos].have
        BY <1>1, <1>5, <2>2, NotThere
    <2> QED
        BY <2>1, <2>3 DEF s
<1>7. node \in Node /\ node.have = q[pos].have \cup {buf.stream}
    <2>1. have \in SUBSET Streams /\ whole \in BOOLEAN
        BY <1>6 DEF Node
    <2> HIDE DEF have, whole
    <2>2. node \in Node /\ node.have = have
        BY <1>6, <2>1 DEF Node
    <2> QED
        BY <2>2 DEF have
<1>8. from \in 1 .. pos
    <2>1. CASE whole /\ older # {}
        <3>1. older \in SUBSET Nat /\ from = First(older)
            BY <1>5, <2>1
        <3>2. from \in older
            BY <2>1, <3>1, FirstExists
        <3>3. from < pos /\ from \in 1 .. Len(q)
            BY <1>5, <3>2
        <3> HIDE DEF from
        <3> QED
            BY <1>5, <3>3
    <2>2. CASE ~(whole /\ older # {})
        <3>1. from = pos
            BY <2>2
        <3> QED
            BY <1>5, <3>1
    <2> QED
        BY <2>1, <2>2
<1> HIDE DEF from, older, node, have, whole
<1>9. ASSUME NEW s \in Streams
      PROVE  /\ a \in Seq(Node) /\ m \in Seq(Node) /\ b \in Seq(Node)
             /\ Held(q, s) = Held(a, s) + Held(m, s)
                             + (IF s \in q[pos].have THEN 1 ELSE 0) + Held(b, s)
    BY <1>5, <1>8, HeldInParts
<1>10. Streams # {}
    BY ChannelAssumption
<1>11. a \in Seq(Node) /\ m \in Seq(Node) /\ b \in Seq(Node)
    BY <1>9, <1>10
<1>12. /\ r \in Seq(Node) /\ Len(r) = Len(q) - (pos - from)
    <2>1. r \in Seq(Node) /\ Replaced(q, from, pos, node, r)
        BY <1>5, <1>7, <1>8, CutIs
    <2> QED
        BY <2>1 DEF Replaced
<1>13. /\ DOMAIN d = Fields /\ d.que = q /\ d.match_cnt = mc
       /\ d.back \in [Streams -> Nat]
       /\ \A s \in Streams : d.back[s] = c.back[s] + Held(m, s)
    <2> HIDE DEF m
    <2>1. SameQueue(c, QbufAll(c, m))
        BY <1>1, QbufSame
    <2>2. /\ QbufAll(c, m).back \in [Streams -> Nat]
          /\ \A s \in Streams : QbufAll(c, m).back[s] = c.back[s] + Held(m, s)
        BY <1>1, <1>11, QbufAllIs
    <2> QED
        BY <1>4, <2>1, <2>2 DEF SameQueue
<1> HIDE DEF d
<1>14. /\ DOMAIN joined = Fields /\ joined.que = r /\ joined.match_cnt = mc
       /\ joined.back = d.back
    BY <1>13 DEF Fields
<1>15. ASSUME NEW s \in Streams
       PROVE  Held(r, s) = Held(a, s) + (IF s \in node.have THEN 1 ELSE 0) + Held(b, s)
    <2> HIDE DEF a, b
    <2> QED
        BY <1>7, <1>11, HeldAround
<1> HIDE DEF joined, r, a, b, m
<1>16. ASSUME NEW s \in Streams
       PROVE  Kept(joined, s) = Kept(c, s) + (IF s \in {buf.stream} THEN 1 ELSE 0)
    <2>1. /\ Held(a, s) \in Nat /\ Held(m, s) \in Nat /\ Held(b, s) \in Nat
          /\ c.back[s] \in Nat
        BY <1>11, HeldIs
    <2>2. (IF s \in node.have THEN 1 ELSE 0) =
            (IF s \in q[pos].have THEN 1 ELSE 0) + (IF s \in {buf.stream} THEN 1 ELSE 0)
        BY <1>6, <1>7
    <2>3. Kept(joined, s) = c.back[s] + Held(m, s)
                            + (Held(a, s) + (IF s \in node.have THEN 1 ELSE 0) + Held(b, s))
        BY <1>13, <1>14, <1>15 DEF Kept
    <2>4. Kept(c, s) = c.back[s] + (Held(a, s) + Held(m, s)
                             + (IF s \in q[pos].have THEN 1 ELSE 0) + Held(b, s))
        BY <1>4, <1>9 DEF Kept
    <2> QED
        BY <2>1, <2>2, <2>3, <2>4
<1>17. Fits(c) => Fits(joined) /\ Len(joined.que) <= joined.match_cnt + 1 + max_unmatched_frames + 1
    <2>1. max_unmatched_frames \in Nat
        BY ChannelAssumption
    <2>2. Len(r) \in Nat /\ Len(r) <= Len(q)
        BY <1>5, <1>8, <1>12
    <2> QED
        BY <1>4, <1>5, <1>14, <2>1, <2>2 DEF Fits
<1>18. Conserves(c, joined, {buf.stream})
    BY <1>13, <1>14, <1>16, <1>17 DEF Conserves
<1>19. CASE whole
    <2> DEFINE e == Expect(joined, buf)
    <2>1. SameQueue(joined, e) /\ e.back = joined.back
        BY <1>14, ExpectSame DEF Expect, Fields
    <2> HIDE DEF e
    <2>2. /\ [e EXCEPT !.match_cnt = @ + 1].que = joined.que
          /\ [e EXCEPT !.match_cnt = @ + 1].back = joined.back
          /\ [e EXCEPT !.match_cnt = @ + 1].match_cnt = joined.match_cnt + 1
        BY <2>1 DEF SameQueue, Fields
    <2>3. Join(c, buf, pos) = [e EXCEPT !.match_cnt = @ + 1]
        BY <1>3, <1>19 DEF e
    <2> DEFINE g == [e EXCEPT !.match_cnt = @ + 1]
    <2> HIDE DEF g
    <2>4. g.que = joined.que /\ g.back = joined.back /\ g.match_cnt = joined.match_cnt + 1
        BY <2>2 DEF g
    <2>5. \A s \in Streams : Kept(g, s) = Kept(joined, s)
        BY <2>4 DEF Kept
    <2>6. Fits(c) => Fits(g)
        BY <1>17, <2>4 DEF Fits
    <2>7. Conserves(c, g, {buf.stream})
        BY <1>18, <2>4, <2>5, <2>6 DEF Conserves
    <2> QED
        BY <2>3, <2>7 DEF g
<1>20. CASE ~whole
    BY <1>3, <1>18, <1>20
<1> QED
    BY <1>19, <1>20

(* A node is released while another is put in before or after it.          *)
LEMMA StillThere ==
    ASSUME NEW q \in Seq(Node), NEW place \in 1 .. Len(q) + 1, NEW node \in Node,
           NEW out \in 1 .. Len(q)
    PROVE  LET gone == IF out < place THEN out ELSE out + 1 IN
           /\ gone \in 1 .. Len(InsertAt(q, place, node))
           /\ InsertAt(q, place, node)[gone] = q[out]
<1> DEFINE longer == InsertAt(q, place, node)
           gone == IF out < place THEN out ELSE out + 1
<1>1. Len(q) \in Nat
    BY LenProperties
<1>2. /\ Len(longer) = Len(q) + 1
      /\ \A k \in 1 .. Len(q) + 1 :
            longer[k] = IF k < place THEN q[k] ELSE IF k = place THEN node ELSE q[k - 1]
    <2>1. Inserted(q, place, node, longer)
        BY InsertAtIs
    <2> HIDE DEF longer
    <2> QED
        BY <2>1 DEF Inserted
<1> HIDE DEF longer
<1>3. out \in Nat /\ place \in Nat /\ out <= Len(q)
    BY <1>1
<1>4. CASE out < place
    <2>1. gone = out /\ out \in 1 .. Len(q) + 1
        BY <1>1, <1>4
    <2> HIDE DEF gone
    <2> QED
        BY <1>2, <1>4, <2>1 DEF longer
<1>5. CASE ~(out < place)
    <2>1. gone = out + 1 /\ out + 1 \in 1 .. Len(q) + 1 /\ ~(out + 1 < place) /\ out + 1 # place
        BY <1>1, <1>3, <1>5
    <2> HIDE DEF gone
    <2>2. longer[gone] = q[(out + 1) - 1] /\ (out + 1) - 1 = out
        BY <1>2, <1>3, <2>1
    <2> QED
        BY <1>2, <2>1, <2>2 DEF longer
<1> QED
    BY <1>4, <1>5 DEF longer, gone

LEMMA InsertConserves ==
    ASSUME NEW c, NEW past \in [Streams -> Nat], NEW low \in Nat, ChannelOK(c, past, low),
           c.back \in [Streams -> Nat],
           NEW buf, buf.stream \in Streams, buf.frame_idx \in Nat
    PROVE  Conserves(c, Insert(c, buf), {buf.stream})
<1> DEFINE q == c.que
           mc == c.match_cnt
           s == buf.stream
           i == buf.frame_idx
           older == {p \in Unmatched(q) : q[p].frame_idx < i}
           newer == {p \in Unmatched(q) : q[p].frame_idx > i}
           full == max_unmatched_frames < Cardinality(Unmatched(q))
           place == IF newer = {} THEN Len(q) + 1 ELSE First(newer)
           alone == Streams = {s}
           node == [frame_idx |-> i, have |-> {s}, matched |-> alone]
           longer == InsertAt(q, place, node)
           out == First(older)
           gone == IF out < place THEN out ELSE out + 1
           back == QbufAll(c, <<q[out]>>)
           kept == IF full THEN [back EXCEPT !.que = RemoveAt(longer, gone)]
                   ELSE [c EXCEPT !.que = longer]
           fuller == [kept EXCEPT !.expected = i + post_frame_skip, !.match_cnt = @ + 1]
<1>1. /\ Sorted(q, mc) /\ DOMAIN c = Fields /\ s \in Streams /\ i \in Nat
      /\ c.que = q /\ c.match_cnt = mc /\ c.back \in [Streams -> Nat]
    BY DEF ChannelOK
<1>2. Insert(c, buf) =
        IF full /\ older = {} THEN Qbuf(c, {s}) ELSE IF alone THEN fuller ELSE kept
    BY DEF Insert
<1> HIDE DEF q, mc, i
<1> SUFFICES Conserves(c, Insert(c, buf), {s})
    OBVIOUS
<1> HIDE DEF s
<1>3. /\ q \in Seq(Node) /\ Len(q) \in Nat /\ mc \in Nat /\ mc <= Len(q)
      /\ Unmatched(q) = mc + 1 .. Len(q) /\ max_unmatched_frames \in Nat
    <2>1. Len(q) \in Nat /\ mc \in Nat /\ Unmatched(q) = mc + 1 .. Len(q)
        BY <1>1, ReadyIs
    <2>2. q \in Seq(Node) /\ mc \in 0 .. Len(q)
        BY <1>1 DEF Sorted
    <2>3. max_unmatched_frames \in Nat
        BY ChannelAssumption
    <2> QED
        BY <2>1, <2>2, <2>3
<1>4. Cardinality(Unmatched(q)) = Len(q) - mc
    <2>1. mc + 1 \in Int /\ Len(q) \in Int
        BY <1>3
    <2>2. \A x, y \in Int : Cardinality(x .. y) = IF x > y THEN 0 ELSE y - x + 1
        BY FS_Interval
    <2>3. Cardinality(mc + 1 .. Len(q)) = IF mc + 1 > Len(q) THEN 0 ELSE Len(q) - (mc + 1) + 1
        BY <2>1, <2>2
    <2>4. (IF mc + 1 > Len(q) THEN 0 ELSE Len(q) - (mc + 1) + 1) = Len(q) - mc
        BY <1>3
    <2> QED
        BY <1>3, <2>3, <2>4
<1>5. place \in 1 .. Len(q) + 1
    <2>1. CASE newer = {}
        <3>1. place = Len(q) + 1
            BY <2>1
        <3> HIDE DEF place
        <3> QED
            BY <1>3, <3>1
    <2>2. CASE newer # {}
        <3>1. newer \in SUBSET Nat /\ place = First(newer)
            BY <1>3, <2>2
        <3>2. place \in newer
            BY <2>2, <3>1, FirstExists
        <3>3. place \in mc + 1 .. Len(q)
            BY <1>3, <3>2
        <3> HIDE DEF place
        <3> QED
            BY <1>3, <3>3
    <2> QED
        BY <2>1, <2>2
<1>6. node \in Node /\ node.have = {s}
    BY <1>1 DEF Node
<1> HIDE DEF place, node, newer
<1>7. /\ longer \in Seq(Node) /\ Len(longer) = Len(q) + 1
      /\ \A o \in Streams : Held(longer, o) = Held(q, o) + (IF o \in {s} THEN 1 ELSE 0)
    <2>1. longer \in Seq(Node) /\ Inserted(q, place, node, longer)
        BY <1>3, <1>5, <1>6, InsertAtIs
    <2>2. Len(longer) = Len(q) + 1
        BY <2>1 DEF Inserted
    <2>3. ASSUME NEW o \in Streams
          PROVE  Held(longer, o) = Held(q, o) + (IF o \in node.have THEN 1 ELSE 0)
        BY <1>3, <1>5, <1>6, HeldInserted
    <2> QED
        BY <1>6, <2>1, <2>2, <2>3
<1>8. CASE full /\ older = {}
    BY <1>1, <1>2, <1>3, <1>8, QbufConserves
<1>9. CASE full /\ older # {}
    <2>1. older \in SUBSET Nat /\ older \subseteq 1 .. Len(q)
        BY <1>3
    <2>2. out \in older
        BY <1>9, <2>1, FirstExists
    <2>3. out \in 1 .. Len(q)
        BY <2>1, <2>2
    <2> HIDE DEF out
    <2>4. gone \in 1 .. Len(longer) /\ longer[gone] = q[out]
        BY <1>3, <1>5, <1>6, <2>3, StillThere
    <2> HIDE DEF gone, longer
    <2>5. /\ Len(RemoveAt(longer, gone)) = Len(q)
          /\ \A o \in Streams :
                Held(longer, o) = Held(RemoveAt(longer, gone), o)
                                  + (IF o \in q[out].have THEN 1 ELSE 0)
        <3>1. RemoveAt(longer, gone) \in Seq(Node) /\ Removed(longer, gone, RemoveAt(longer, gone))
            BY <1>7, <2>4, RemoveAtIs
        <3>2. Len(RemoveAt(longer, gone)) = Len(longer) - 1
            BY <3>1 DEF Removed
        <3>3. \A o \in Streams :
                Held(longer, o) = Held(RemoveAt(longer, gone), o)
                                  + (IF o \in longer[gone].have THEN 1 ELSE 0)
            BY <1>7, <2>4, HeldRemoved
        <3> QED
            BY <1>3, <1>7, <2>4, <3>2, <3>3
    <2>6. q[out] \in Node
        BY <1>3, <2>3, ElementOfSeq
    <2> DEFINE nodes == <<q[out]>>
    <2>7. /\ nodes \in Seq(Node)
          /\ \A o \in Streams : Held(nodes, o) = IF o \in q[out].have THEN 1 ELSE 0
        BY <2>6, HeldOne
    <2> HIDE DEF nodes
    <2>8. /\ SameQueue(c, QbufAll(c, nodes))
          /\ QbufAll(c, nodes).back \in [Streams -> Nat]
          /\ \A o \in Streams : QbufAll(c, nodes).back[o] = c.back[o] + Held(nodes, o)
        BY <1>1, <2>7, QbufSame, QbufAllIs
    <2>9. back = QbufAll(c, nodes)
        BY DEF nodes
    <2> HIDE DEF back
    <2>10. kept = [back EXCEPT !.que = RemoveAt(longer, gone)]
        BY <1>9
    <2>11. /\ kept.que = RemoveAt(longer, gone) /\ kept.back = back.back
           /\ kept.match_cnt = mc /\ DOMAIN kept = Fields
        BY <1>1, <2>8, <2>9, <2>10 DEF SameQueue, Fields
    <2> HIDE DEF kept
    <2>12. ASSUME NEW o \in Streams
           PROVE  Kept(kept, o) = Kept(c, o) + (IF o \in {s} THEN 1 ELSE 0)
        <3>1. Held(q, o) \in Nat /\ Held(nodes, o) \in Nat /\ c.back[o] \in Nat
            BY <1>1, <1>3, <2>7, HeldIs
        <3>2. Held(RemoveAt(longer, gone), o) \in Nat
            <4>1. RemoveAt(longer, gone) \in Seq(Node)
                BY <1>7, <2>4, RemoveAtIs
            <4> QED
                BY <4>1, HeldIs
        <3>3. Held(q, o) + (IF o \in {s} THEN 1 ELSE 0) =
                    Held(RemoveAt(longer, gone), o) + Held(nodes, o)
            BY <1>7, <2>5, <2>7
        <3>4. /\ Kept(kept, o) = c.back[o] + Held(nodes, o) + Held(RemoveAt(longer, gone), o)
              /\ Kept(c, o) = c.back[o] + Held(q, o)
            BY <1>1, <2>8, <2>9, <2>11 DEF Kept
        <3> QED
            BY <3>1, <3>2, <3>3, <3>4
    <2>13. Fits(c) => Fits(kept)
        BY <1>1, <2>5, <2>11 DEF Fits
    <2>14. Conserves(c, kept, {s})
        BY <2>8, <2>9, <2>11, <2>12, <2>13 DEF Conserves
    <2>15. CASE ~alone
        BY <1>2, <1>9, <2>14, <2>15
    <2>16. CASE alone
        \* A channel of one stream has whole nodes only.
        <3>1. Len(q) = mc
            <4>1. CASE Len(q) = 0
                BY <1>3, <4>1
            <4>2. CASE Len(q) # 0
                <5>1. Len(q) \in 1 .. Len(q)
                    BY <1>3, <4>2
                <5>2. q[Len(q)].have # {} /\ q[Len(q)] \in Node
                    BY <1>1, <1>3, <5>1, ElementOfSeq DEF Sorted
                <5>3. q[Len(q)].have = Streams
                    BY <2>16, <5>2 DEF Node
                <5>4. Len(q) <= mc
                    BY <1>1, <5>1, <5>3 DEF Sorted
                <5> QED
                    BY <1>3, <5>4
            <4> QED
                BY <4>1, <4>2
        <3> QED
            BY <1>3, <1>4, <1>9, <3>1
    <2> QED
        BY <2>15, <2>16
<1>10. CASE ~full
    <2>1. kept = [c EXCEPT !.que = longer]
        BY <1>10
    <2>2. Len(q) - mc <= max_unmatched_frames
        BY <1>3, <1>4, <1>10
    <2> HIDE DEF longer
    <2>3. /\ kept.que = longer /\ kept.back = c.back /\ kept.match_cnt = mc
          /\ fuller.que = longer /\ fuller.back = c.back /\ fuller.match_cnt = mc + 1
        BY <1>1, <2>1 DEF Fields
    <2>4. Insert(c, buf) \in {kept, fuller}
        BY <1>2, <1>10
    <2> HIDE DEF kept, fuller
    <2>5. ASSUME NEW d, d.que = longer, d.back = c.back, d.match_cnt \in {mc, mc + 1}
          PROVE  Conserves(c, d, {s})
        <3>1. ASSUME NEW o \in Streams
              PROVE  Kept(d, o) = Kept(c, o) + (IF o \in {s} THEN 1 ELSE 0)
            <4>1. Held(q, o) \in Nat /\ c.back[o] \in Nat
                BY <1>1, <1>3, HeldIs
            <4> QED
                BY <1>1, <1>7, <2>5, <4>1 DEF Kept
        <3>2. Fits(d)
            BY <1>3, <1>7, <2>2, <2>5 DEF Fits
        <3> QED
            BY <1>1, <2>5, <3>1, <3>2 DEF Conserves
    <2>6. Conserves(c, kept, {s}) /\ Conserves(c, fuller, {s})
        BY <2>3, <2>5
    <2> QED
        BY <2>4, <2>6
<1> QED
    BY <1>8, <1>9, <1>10

\* The streams of which the channel takes a buffer with a frame: none when
\* the frame is refused.
Takes(buf) == IF Contradicts(buf) THEN {} ELSE {buf.stream}

LEMMA CompAndEnqueueConserves ==
    ASSUME NEW c0, NEW past \in [Streams -> Nat], NEW low \in Nat, ChannelOK(c0, past, low),
           c0.back \in [Streams -> Nat],
           NEW buf, buf.stream \in Streams, buf.frame_idx \in Nat,
           past[buf.stream] < buf.frame_idx
    PROVE  Conserves(c0, CompAndEnqueue(c0, buf), Takes(buf))
<1> DEFINE c == HandleMetadata(c0, buf)
           found == {p \in Unmatched(c.que) : c.que[p].frame_idx = buf.frame_idx}
           e == CompAndEnqueue(c0, buf)
<1>1. ChannelOK(c, past, low) /\ Conserves(c0, c, {})
    BY HandleMetadataOK, HandleMetadataConserves DEF Keeps
<1>2. \/ Contradicts(buf) /\ e = c0
      \/ /\ ~ Contradicts(buf)
         /\ \/ e = Qbuf(c, {buf.stream})
            \/ found # {} /\ e = Join(c, buf, First(found))
            \/ found = {} /\ e = Insert(c, buf)
    BY DEF CompAndEnqueue
<1> HIDE DEF c, e
<1>3. c.back \in [Streams -> Nat] /\ DOMAIN c = Fields /\ Sorted(c.que, c.match_cnt)
    BY <1>1 DEF Conserves, ChannelOK
<1>4. CASE ~ Contradicts(buf) /\ e = Qbuf(c, {buf.stream})
    <2>1. c.que \in Seq(Node)
        BY <1>3 DEF Sorted
    <2>2. Conserves(c, e, {buf.stream})
        BY <1>3, <1>4, <2>1, QbufConserves
    <2> QED
        BY <1>1, <1>4, <2>2, ConservesMore DEF e, Takes
<1>5. CASE ~ Contradicts(buf) /\ found # {} /\ e = Join(c, buf, First(found))
    <2>1. found \in SUBSET Nat
        BY <1>3, ReadyIs
    <2>2. First(found) \in found
        BY <1>5, <2>1, FirstExists
    <2>3. First(found) \in Unmatched(c.que) /\ c.que[First(found)].frame_idx = buf.frame_idx
        BY <2>2
    <2> HIDE DEF found
    <2>4. Conserves(c, e, {buf.stream})
        BY <1>1, <1>3, <1>5, <2>3, JoinConserves
    <2> QED
        BY <1>1, <1>5, <2>4, ConservesMore DEF e, Takes
<1>6. CASE ~ Contradicts(buf) /\ found = {} /\ e = Insert(c, buf)
    <2>1. Conserves(c, e, {buf.stream})
        BY <1>1, <1>3, <1>6, InsertConserves
    <2> QED
        BY <1>1, <1>6, <2>1, ConservesMore DEF e, Takes
<1>7. CASE Contradicts(buf) /\ e = c0
    <2>1. c0.que \in Seq(Node) /\ DOMAIN c0 = Fields
        BY DEF ChannelOK, Sorted
    <2>2. Conserves(c0, c0, {})
        BY <2>1, SameConserves DEF SameQueue
    <2> QED
        BY <1>7, <2>2 DEF e, Takes
<1> QED
    BY <1>2, <1>4, <1>5, <1>6, <1>7

LEMMA RequestConserves ==
    ASSUME NEW c, NEW past \in [Streams -> Nat], NEW low \in Nat, ChannelOK(c, past, low),
           c.back \in [Streams -> Nat], NEW n
    PROVE  Conserves(c, Request(c, n), {})
<1> DEFINE d == [c EXCEPT !.pending_cnt = n]
           s == Skip(d)
           on == [s EXCEPT !.startZSlSnapshotCalled = TRUE, !.needLEDFlash = FALSE]
           off == [s EXCEPT !.startZSlSnapshotCalled = FALSE, !.needLEDFlash = FALSE,
                            !.need3ABracketing = FALSE]
<1>1. SameQueue(c, d) /\ d.back = c.back
    BY DEF ChannelOK, SameQueue, Fields
<1>2. c.que \in Seq(Node)
    BY DEF ChannelOK, Sorted
<1>3. Request(c, n) \in {on, off, s}
    BY DEF Request
<1> HIDE DEF d
<1>4. ChannelOK(d, past, low) /\ Conserves(c, d, {})
    BY <1>1, <1>2, SameQueueOK, SameConserves
<1>5. Conserves(d, s, {}) /\ DOMAIN s = Fields
    BY <1>1, <1>4, SkipOK, SkipConserves DEF Keeps, ChannelOK
<1> HIDE DEF s
<1>6. Conserves(c, s, {})
    BY <1>4, <1>5, ConservesMore
<1>7. SameQueue(s, on) /\ on.back = s.back /\ SameQueue(s, off) /\ off.back = s.back
    BY <1>5 DEF SameQueue, Fields
<1> HIDE DEF on, off
<1>8. Conserves(c, on, {}) /\ Conserves(c, off, {})
    BY <1>6, <1>7, ConservesSame
<1> QED
    BY <1>3, <1>6, <1>8

-----------------------------------------------------------------------------
(* Super buffers leave the queue                                           *)

\* As Conserves, with the super buffers that leave; few enough whole ones stay.
Passes(c, d, more) ==
    /\ d.back \in [Streams -> Nat] /\ d.out \in Seq(Node)
    /\ \A s \in Streams :
        Kept(d, s) + Held(d.out, s) = Kept(c, s) + (IF s \in more THEN 1 ELSE 0)
    /\ Fits(c) => Fits(d)
    /\ d.match_cnt <= water_mark

LEMMA DequeueIs ==
    ASSUME NEW c, DOMAIN c = Fields, Sorted(c.que, c.match_cnt), NEW n \in 0 .. c.match_cnt
    PROVE  LET d == Dequeue(c, n) IN
           /\ d.que = SubSeq(c.que, n + 1, Len(c.que)) /\ d.back = c.back
           /\ d.match_cnt = c.match_cnt - n
           /\ Len(d.que) = Len(c.que) - n
<1> DEFINE q == c.que
           mc == c.match_cnt
           d == Dequeue(c, n)
           b == SubSeq(q, n + 1, Len(q))
<1>1. /\ q \in Seq(Node) /\ Len(q) \in Nat /\ mc \in Nat /\ mc <= Len(q)
      /\ Matched(q) = 1 .. mc
    <2>1. Len(q) \in Nat /\ mc \in Nat /\ Matched(q) = 1 .. mc
        BY ReadyIs
    <2>2. q \in Seq(Node) /\ mc \in 0 .. Len(q)
        BY DEF Sorted
    <2> QED
        BY <2>1, <2>2
<1>2. d.que = b /\ d.back = c.back /\ d.match_cnt = mc - Cardinality(Matched(q) \cap 1 .. n)
    BY DEF Dequeue, Fields
<1> HIDE DEF q, mc, d
<1>3. n \in Nat /\ n <= mc /\ n + 1 \in 1 .. Len(q) + 1 /\ Len(q) \in 0 .. Len(q)
    <2>1. n \in 0 .. mc
        BY DEF mc
    <2> QED
        BY <1>1, <2>1
<1>4. Cardinality(Matched(q) \cap 1 .. n) = n
    <2>1. Matched(q) \cap 1 .. n = 1 .. n
        BY <1>1, <1>3
    <2>2. Cardinality(1 .. n) = n
        BY <1>3, FS_Interval
    <2> QED
        BY <2>1, <2>2
<1>5. Len(b) = Len(q) - n
    <2>1. Len(b) = IF n + 1 <= Len(q) THEN Len(q) - (n + 1) + 1 ELSE 0
        BY <1>1, <1>3, SubSeqIs
    <2> HIDE DEF b
    <2> QED
        BY <1>1, <1>3, <2>1
<1> HIDE DEF b
<1>6. /\ d.que = b /\ d.back = c.back /\ d.match_cnt = mc - n /\ Len(d.que) = Len(q) - n
    BY <1>2, <1>4, <1>5
<1> QED
    BY <1>6 DEF d, b, q, mc

LEMMA DispatchPasses ==
    ASSUME NEW c, NEW past, NEW low, ChannelOK(c, past, low), c.back \in [Streams -> Nat],
           c.pending_cnt \in Nat,
           c.notify_mode # "CONTINUOUS" => c.match_cnt <= water_mark
    PROVE  Passes(c, Dispatch(c), {})
<1> DEFINE q == c.que
           mc == c.match_cnt
           all == Ready(q)
           burst == c.notify_mode = "BURST"
           n == IF burst /\ c.pending_cnt < all THEN c.pending_cnt ELSE all
           d == Dequeue(c, n)
           out == SubSeq(q, 1, n)
           sent == [d EXCEPT !.out = out]
           e == Dispatch(c)
<1>1. Sorted(q, mc) /\ DOMAIN c = Fields /\ c.que = q /\ c.match_cnt = mc
    BY DEF ChannelOK
<1>2. e = IF burst
          THEN [sent EXCEPT
                  !.pending_cnt = @ - n,
                  !.startZSlSnapshotCalled = @ /\ ~(n > 0 /\ c.pending_cnt = n)]
          ELSE sent
    BY DEF Dispatch
<1> HIDE DEF q, mc, e
<1>3. q \in Seq(Node) /\ Len(q) \in Nat /\ mc \in Nat /\ mc <= Len(q) /\ all = mc
    <2>1. Len(q) \in Nat /\ mc \in Nat /\ Ready(q) = mc
        BY <1>1, ReadyIs
    <2>2. q \in Seq(Node) /\ mc \in 0 .. Len(q)
        BY <1>1 DEF Sorted
    <2> QED
        BY <2>1, <2>2
<1> HIDE DEF all
<1>4. n \in 0 .. mc /\ n \in 0 .. Len(q) /\ n \in Nat /\ (~burst => n = mc)
    BY <1>3
<1> HIDE DEF n
<1>5. /\ d.que = SubSeq(q, n + 1, Len(q)) /\ d.back = c.back
      /\ d.match_cnt = mc - n /\ Len(d.que) = Len(q) - n
    BY <1>1, <1>4, DequeueIs
<1>6. DOMAIN d = Fields
    BY <1>1 DEF Dequeue
<1> HIDE DEF d
<1>7. e.que = d.que /\ e.back = d.back /\ e.match_cnt = d.match_cnt /\ e.out = out
    <2>1. sent.que = d.que /\ sent.back = d.back /\ sent.match_cnt = d.match_cnt /\ sent.out = out
          /\ DOMAIN sent = Fields
        BY <1>6 DEF Fields
    <2> HIDE DEF sent, burst
    <2> QED
        BY <1>2, <2>1 DEF Fields
<1>8. /\ q = out \o SubSeq(q, n + 1, Len(q))
      /\ out \in Seq(Node) /\ SubSeq(q, n + 1, Len(q)) \in Seq(Node)
    <2>1. 1 \in 1 .. Len(q) + 1 /\ n + 1 \in 1 .. Len(q) + 1 /\ Len(q) \in 0 .. Len(q)
        BY <1>3, <1>4
    <2> QED
        BY <1>3, <1>4, <2>1, CutInTwo, SubSeqIs
<1> HIDE DEF out
<1>9. ASSUME NEW s \in Streams
      PROVE  Kept(e, s) + Held(e.out, s) = Kept(c, s) + 0
    <2>1. Held(q, s) = Held(out, s) + Held(d.que, s)
        BY <1>5, <1>8, HeldJoined
    <2>2. Held(out, s) \in Nat /\ Held(d.que, s) \in Nat /\ c.back[s] \in Nat
        BY <1>5, <1>8, HeldIs
    <2>3. Kept(e, s) = c.back[s] + Held(d.que, s) /\ Kept(c, s) = c.back[s] + Held(q, s)
        BY <1>1, <1>5, <1>7 DEF Kept
    <2> QED
        BY <1>7, <2>1, <2>2, <2>3
<1>10. max_unmatched_frames \in Nat /\ water_mark \in Nat
    BY ChannelAssumption
<1>11. Fits(c) => Fits(e)
    <2>1. Len(q) <= mc + max_unmatched_frames + 1 =>
            Len(q) - n <= (mc - n) + max_unmatched_frames + 1
        BY <1>3, <1>4, <1>10
    <2> QED
        BY <1>1, <1>5, <1>7, <2>1 DEF Fits
<1>12. e.match_cnt <= water_mark
    <2>1. CASE burst
        <3>1. mc <= water_mark
            BY <1>1, <2>1
        <3> QED
            BY <1>3, <1>4, <1>5, <1>7, <1>10, <3>1
    <2>2. CASE ~burst
        BY <1>3, <1>4, <1>5, <1>7, <1>10, <2>2
    <2> QED
        BY <2>1, <2>2
<1>13. \A s \in Streams :
        Kept(e, s) + Held(e.out, s) = Kept(c, s) + (IF s \in {} THEN 1 ELSE 0)
    BY <1>9
<1>14. Passes(c, e, {})
    BY <1>5, <1>7, <1>8, <1>11, <1>12, <1>13 DEF Passes
<1> QED
    BY <1>14 DEF e

LEMMA DonePasses ==
    ASSUME NEW c, NEW d, NEW past \in [Streams -> Nat], NEW low \in Nat, NEW more,
           Conserves(c, d, more), ChannelOK(d, past, low), d.pending_cnt \in Nat
    PROVE  Passes(c, Dispatch(BufdoneOverflow(d)), more)
<1> DEFINE e == BufdoneOverflow(d)
           f == Dispatch(e)
<1>1. d.back \in [Streams -> Nat] /\ DOMAIN d = Fields
    BY DEF Conserves, ChannelOK
<1>2. Conserves(d, e, {}) /\ (d.notify_mode # "CONTINUOUS" => e.match_cnt <= water_mark)
    BY <1>1, SkipConserves
<1>3. ChannelOK(e, past, low) /\ e.pending_cnt = d.pending_cnt
    BY SkipOK DEF Keeps, SameRequest
<1>4. e.notify_mode = d.notify_mode
    <2>1. \A n : Dequeue(QbufAll(d, SubSeq(d.que, 1, n)), n).notify_mode = d.notify_mode
        BY <1>1 DEF Dequeue, QbufAll, Fields
    <2>2. [d EXCEPT !.spins = TRUE].notify_mode = d.notify_mode
        BY <1>1 DEF Fields
    <2> QED
        BY <2>1, <2>2 DEF BufdoneOverflow, DropDownTo
<1> HIDE DEF e
<1>5. e.back \in [Streams -> Nat] /\ e.pending_cnt \in Nat
      /\ (e.notify_mode # "CONTINUOUS" => e.match_cnt <= water_mark)
    BY <1>2, <1>3, <1>4 DEF Conserves
<1>6. Passes(e, f, {})
    BY <1>3, <1>5, DispatchPasses
<1> HIDE DEF f
<1>7. ASSUME NEW s \in Streams
      PROVE  Kept(f, s) + Held(f.out, s) = Kept(c, s) + (IF s \in more THEN 1 ELSE 0)
    <2>1. Kept(d, s) = Kept(c, s) + (IF s \in more THEN 1 ELSE 0)
        BY DEF Conserves
    <2>2. Kept(e, s) = Kept(d, s) + 0 /\ Kept(f, s) + Held(f.out, s) = Kept(e, s) + 0
        BY <1>2, <1>6 DEF Conserves, Passes
    <2>3. Kept(d, s) \in Nat /\ Kept(e, s) \in Nat
        <3>1. d.que \in Seq(Node) /\ e.que \in Seq(Node)
            BY <1>3 DEF ChannelOK, Sorted
        <3>2. /\ Held(d.que, s) \in Nat /\ Held(e.que, s) \in Nat
              /\ d.back[s] \in Nat /\ e.back[s] \in Nat
            BY <1>1, <1>5, <3>1, HeldIs
        <3> QED
            BY <3>2 DEF Kept
    <2> QED
        BY <2>1, <2>2, <2>3
<1>8. Passes(c, f, more)
    BY <1>2, <1>6, <1>7 DEF Conserves, Passes
<1> QED
    BY <1>8 DEF e, f

\* The stream whose frame a command brings, if the channel takes it.
Brings(cmd) == IF cmd.type = "DATA_CB" THEN Takes(cmd.buf) ELSE {}

LEMMA ProcessPasses ==
    ASSUME NEW c, NEW past \in [Streams -> Nat], NEW low \in Nat, ChannelOK(c, past, low),
           FlashOK(c), c.out = <<>>, c.back \in [Streams -> Nat], NEW cmd \in HalCmds \cup Frames,
           cmd.type = "DATA_CB" => /\ cmd.buf.stream \in Streams /\ cmd.buf.frame_idx \in Nat
                                   /\ past[cmd.buf.stream] < cmd.buf.frame_idx
    PROVE  Passes(c, Process(c, cmd), Brings(cmd))
<1>1. cmd.type \in {"DATA_CB", "REQ_DATA_CB", "CONFIG_NOTIFY", "FLUSH_QUEUE",
                    "AE_BRACKETING", "FLASH_BRACKETING", "ZOOM_1X"}
    BY ChannelAssumption DEF Frames
<1>2. DOMAIN c = Fields /\ c.pending_cnt \in Nat /\ c.que \in Seq(Node)
    BY DEF ChannelOK, FlashOK, Sorted
<1>3. ASSUME NEW d, SameQueue(c, d), SameRequest(c, d), d.back = c.back
      PROVE  ChannelOK(d, past, low) /\ Conserves(c, d, {}) /\ d.pending_cnt \in Nat
             /\ d.out = <<>>
    BY <1>2, <1>3, SameQueueOK, SameConserves DEF SameRequest
<1>4. CASE cmd.type = "DATA_CB"
    <2> DEFINE past2 == [past EXCEPT ![cmd.buf.stream] = cmd.buf.frame_idx]
               d == CompAndEnqueue(c, cmd.buf)
    <2>1. Keeps(c, d, past2, low)
        BY <1>4, CompAndEnqueueOK
    <2>2. Conserves(c, d, Takes(cmd.buf))
        BY <1>4, CompAndEnqueueConserves
    <2>3. past2 \in [Streams -> Nat] /\ Brings(cmd) = Takes(cmd.buf)
        BY <1>4 DEF Brings
    <2>4. Process(c, cmd) = Dispatch(BufdoneOverflow(d))
        BY <1>4 DEF Process
    <2> HIDE DEF past2, d
    <2>5. ChannelOK(d, past2, low) /\ d.pending_cnt \in Nat
        BY <1>2, <2>1 DEF Keeps, SameRequest
    <2> QED
        BY <2>2, <2>3, <2>4, <2>5, DonePasses
<1>5. CASE cmd.type = "REQ_DATA_CB"
    <2> DEFINE d == Request(c, cmd.n)
    <2>1. cmd.n \in Nat
        BY <1>5, ChannelAssumption DEF Frames
    <2>2. ChannelOK(d, past, low) /\ FlashOK(d) /\ Conserves(c, d, {})
        BY <2>1, RequestOK, RequestConserves
    <2>3. Process(c, cmd) = Dispatch(BufdoneOverflow(d)) /\ Brings(cmd) = {}
        BY <1>5 DEF Process, Brings
    <2> HIDE DEF d
    <2>4. d.pending_cnt \in Nat
        BY <2>2 DEF FlashOK
    <2> QED
        BY <2>2, <2>3, <2>4, DonePasses
<1>6. CASE cmd.type = "CONFIG_NOTIFY"
    <2> DEFINE d == [c EXCEPT !.notify_mode = cmd.mode]
    <2>1. SameQueue(c, d) /\ SameRequest(c, d) /\ d.back = c.back
        BY <1>2 DEF SameQueue, SameRequest, Fields
    <2>2. Process(c, cmd) = Dispatch(BufdoneOverflow(d)) /\ Brings(cmd) = {}
        BY <1>6 DEF Process, Brings
    <2> HIDE DEF d
    <2>3. ChannelOK(d, past, low) /\ Conserves(c, d, {}) /\ d.pending_cnt \in Nat
        BY <1>3, <2>1
    <2> QED
        BY <2>2, <2>3, DonePasses
<1>7. CASE cmd.type = "FLUSH_QUEUE"
    <2> DEFINE d == [c EXCEPT !.expected = cmd.frame_idx]
               f == Flush(d)
    <2>1. SameQueue(c, d) /\ SameRequest(c, d) /\ d.back = c.back
        BY <1>2 DEF SameQueue, SameRequest, Fields
    <2>2. Process(c, cmd) = f /\ Brings(cmd) = {}
        BY <1>7 DEF Process, Brings
    <2> HIDE DEF d
    <2>3. ChannelOK(d, past, low) /\ Conserves(c, d, {}) /\ d.out = <<>>
        BY <1>3, <2>1
    <2>4. d.back \in [Streams -> Nat]
        BY <2>3 DEF Conserves
    <2>5. Conserves(d, f, {}) /\ Keeps(d, f, past, low)
        BY <2>3, <2>4, FlushConserves, FlushOK
    <2>6. f.que = SubSeq(d.que, Len(d.que) + 1, Len(d.que))
        <3> DEFINE g == QbufAll(d, d.que)
        <3>1. g.que = d.que /\ DOMAIN g = Fields
            BY <2>3, QbufSame DEF ChannelOK, SameQueue
        <3> HIDE DEF g
        <3>2. f = Dequeue(g, Len(d.que))
            BY DEF Flush, g
        <3> QED
            BY <3>1, <3>2 DEF Dequeue, Fields
    <2>7. Len(f.que) = 0 /\ f.match_cnt = 0
        <3>1. d.que \in Seq(Node) /\ Len(d.que) \in Nat
            BY <2>3, LenProperties DEF ChannelOK, Sorted
        <3>2. Len(d.que) + 1 \in 1 .. Len(d.que) + 1 /\ Len(d.que) \in 0 .. Len(d.que)
            BY <3>1
        <3>3. Len(f.que) = IF Len(d.que) + 1 <= Len(d.que)
                           THEN Len(d.que) - (Len(d.que) + 1) + 1 ELSE 0
            BY <2>6, <3>1, <3>2, SubSeqIs
        <3>4. Len(f.que) = 0
            BY <3>1, <3>3
        <3>5. f.match_cnt \in 0 .. Len(f.que)
            BY <2>5 DEF Keeps, ChannelOK, Sorted
        <3> QED
            BY <3>4, <3>5
    <2>8. f.out = <<>>
        BY <2>3, <2>5 DEF Keeps, SameRequest
    <2> HIDE DEF f
    <2>9. Conserves(c, f, {})
        BY <2>3, <2>5, ConservesMore
    <2>10. f.match_cnt <= water_mark
        BY <2>7, ChannelAssumption
    <2>11. f.out \in Seq(Node) /\ Len(f.out) = 0
        BY <2>8
    <2>12. \A s \in Streams : Held(f.out, s) = 0
        <3>1. \A s \in Streams : Held(f.out, s) \in Nat /\ Held(f.out, s) <= 0
            BY <2>11, HeldIs
        <3> QED
            BY <3>1
    <2>13. ASSUME NEW s \in Streams
           PROVE  Kept(f, s) + Held(f.out, s) = Kept(c, s) + (IF s \in {} THEN 1 ELSE 0)
        <3>1. Kept(f, s) \in Nat
            <4>1. f.que \in Seq(Node) /\ f.back \in [Streams -> Nat]
                BY <2>5, <2>9 DEF Keeps, ChannelOK, Sorted, Conserves
            <4>2. Held(f.que, s) \in Nat /\ f.back[s] \in Nat
                BY <4>1, HeldIs
            <4> QED
                BY <4>2 DEF Kept
        <3> QED
            BY <2>9, <2>12, <3>1 DEF Conserves
    <2>14. Passes(c, f, {})
        BY <2>9, <2>10, <2>11, <2>13 DEF Passes, Conserves
    <2> QED
        BY <2>2, <2>14
<1>8. CASE cmd.type = "AE_BRACKETING"
    <2> DEFINE f == Flush(c)
               d == [f EXCEPT !.need3ABracketing = cmd.start]
    <2>1. Keeps(c, f, past, low) /\ Conserves(c, f, {})
        BY FlushOK, FlushConserves
    <2>2. Process(c, cmd) = Dispatch(BufdoneOverflow(d)) /\ Brings(cmd) = {}
        BY <1>8 DEF Process, Brings
    <2> HIDE DEF f
    <2>3. SameQueue(f, d) /\ SameRequest(f, d) /\ d.back = f.back
        BY <2>1 DEF Keeps, ChannelOK, SameQueue, SameRequest, Fields
    <2> HIDE DEF d
    <2>4. Keeps(c, d, past, low) /\ Conserves(c, d, {})
        BY <2>1, <2>3, KeepsAll, ConservesSame
    <2>5. ChannelOK(d, past, low) /\ d.pending_cnt \in Nat
        BY <1>2, <2>4 DEF Keeps, SameRequest
    <2> QED
        BY <2>2, <2>4, <2>5, DonePasses
<1>9. CASE cmd.type = "FLASH_BRACKETING"
    <2> DEFINE d == [c EXCEPT !.isFlashBracketingEnabled = cmd.start]
    <2>1. SameQueue(c, d) /\ SameRequest(c, d) /\ d.back = c.back
        BY <1>2 DEF SameQueue, SameRequest, Fields
    <2>2. Process(c, cmd) = Dispatch(BufdoneOverflow(d)) /\ Brings(cmd) = {}
        BY <1>9 DEF Process, Brings
    <2> HIDE DEF d
    <2>3. ChannelOK(d, past, low) /\ Conserves(c, d, {}) /\ d.pending_cnt \in Nat
        BY <1>3, <2>1
    <2> QED
        BY <2>2, <2>3, DonePasses
<1>10. CASE cmd.type = "ZOOM_1X"
    <2> DEFINE d == [c EXCEPT !.isZoom1xFrameRequested = cmd.start]
    <2>1. SameQueue(c, d) /\ SameRequest(c, d) /\ d.back = c.back
        BY <1>2 DEF SameQueue, SameRequest, Fields
    <2>2. Process(c, cmd) = Dispatch(BufdoneOverflow(d)) /\ Brings(cmd) = {}
        BY <1>10 DEF Process, Brings
    <2> HIDE DEF d
    <2>3. ChannelOK(d, past, low) /\ Conserves(c, d, {}) /\ d.pending_cnt \in Nat
        BY <1>3, <2>1
    <2> QED
        BY <2>2, <2>3, DonePasses
<1> QED
    BY <1>1, <1>4, <1>5, <1>6, <1>7, <1>8, <1>9, <1>10

-----------------------------------------------------------------------------
(* Every buffer is somewhere                                               *)

\* The stream whose frame a command carries, taken or refused.
Carries(cmd) == IF cmd.type = "DATA_CB" THEN {cmd.buf.stream} ELSE {}

\* The commands that carry a frame of stream s, and how many there are.
Bringing(s) == {cmd \in HalCmds \cup Frames : cmd.type = "DATA_CB" /\ cmd.buf.stream = s}
Flying(cq, s) == Cardinality(At(cq, Bringing(s)))

\* All buffers of stream s.
Total(s) ==
    free[s] + Lost(s) + Flying(cmd_queue, s) + Held(ch.que, s) + Held(cb_queue, s) + Cardinality(hal)

\* No buffer is lost but for refused frames, and the queue does not grow.  What the HAL holds came
\* before what it is still to get, so that it never gets the same twice.
Counted ==
    /\ free \in [Streams -> Nat] /\ ch.back = NoBufs /\ lost \in Nat
    /\ \A s \in Streams : NumBufs[s] = Total(s)
    /\ Fits(ch) /\ ch.match_cnt <= water_mark
    /\ IsFiniteSet(hal)
    /\ \A b \in hal : b.frame_idx \in Nat /\ b.frame_idx <= given

LEMMA FlyingIs ==
    ASSUME NEW cq \in Seq(HalCmds \cup Frames), NEW s \in Streams
    PROVE  /\ Cardinality({p \in DOMAIN cq : cq[p].type = "DATA_CB" /\ cq[p].buf.stream = s})
                = Flying(cq, s)
           /\ Flying(cq, s) \in Nat
<1>1. DOMAIN cq = 1 .. Len(cq)
    BY LenProperties
<1>2. \A p \in 1 .. Len(cq) : cq[p] \in HalCmds \cup Frames
    BY ElementOfSeq
<1>3. {p \in DOMAIN cq : cq[p].type = "DATA_CB" /\ cq[p].buf.stream = s} = At(cq, Bringing(s))
    BY <1>1, <1>2 DEF At, Bringing
<1> QED
    BY <1>3, AtFinite DEF Flying

(* A sequence is its head and its tail.                                    *)
LEMMA HeadFirst ==
    ASSUME NEW S, NEW q \in Seq(S), q # <<>>
    PROVE  q = <<Head(q)>> \o Tail(q) /\ Head(q) \in S /\ Tail(q) \in Seq(S)
<1> DEFINE e == Head(q)
           t == Tail(q)
           r == <<e>> \o t
<1>1. /\ e \in S /\ t \in Seq(S) /\ Len(t) = Len(q) - 1 /\ Len(q) \in Nat /\ Len(q) > 0
      /\ e = q[1] /\ \A k \in 1 .. Len(t) : t[k] = q[k + 1]
    BY HeadTailProperties, LenProperties, EmptySeq
<1> HIDE DEF e, t
<1>2. <<e>> \in Seq(S) /\ Len(<<e>>) = 1 /\ <<e>>[1] = e
    BY <1>1
<1>3. /\ r \in Seq(S) /\ Len(r) = Len(<<e>>) + Len(t)
      /\ \A k \in 1 .. Len(<<e>>) + Len(t) :
            r[k] = IF k <= Len(<<e>>) THEN <<e>>[k] ELSE t[k - Len(<<e>>)]
    BY <1>1, <1>2, ConcatProperties
<1> HIDE DEF r
<1>4. Len(r) = Len(q) /\ \A k \in 1 .. Len(r) : r[k] = IF k = 1 THEN e ELSE t[k - 1]
    BY <1>1, <1>2, <1>3
<1>5. ASSUME NEW k \in 1 .. Len(r) PROVE r[k] = q[k]
    <2>1. CASE k = 1
        BY <1>1, <1>4, <2>1
    <2>2. CASE k # 1
        <3>1. k - 1 \in 1 .. Len(t) /\ (k - 1) + 1 = k
            BY <1>1, <1>4, <2>2
        <3> QED
            BY <1>1, <1>4, <2>2, <3>1
    <2> QED
        BY <2>1, <2>2
<1>6. r = q
    BY <1>3, <1>4, <1>5, SeqEqual
<1> QED
    BY <1>1, <1>6 DEF r, e, t

(* The first command leaves; the first super buffer leaves.                *)
LEMMA FlyingTail ==
    ASSUME NEW cq \in Seq(HalCmds \cup Frames), cq # <<>>, NEW s \in Streams
    PROVE  Flying(cq, s) = (IF s \in Carries(Head(cq)) THEN 1 ELSE 0) + Flying(Tail(cq), s)
<1> DEFINE e == Head(cq)
           t == Tail(cq)
<1>1. cq = <<e>> \o t /\ e \in HalCmds \cup Frames /\ t \in Seq(HalCmds \cup Frames)
    BY HeadFirst
<1> HIDE DEF e, t
<1>2. <<e>> \in Seq(HalCmds \cup Frames)
    BY <1>1
<1>3. Flying(cq, s) = Cardinality(At(<<e>>, Bringing(s))) + Flying(t, s)
    BY <1>1, <1>2, AtJoined DEF Flying
<1>4. Cardinality(At(<<e>>, Bringing(s))) = IF e \in Bringing(s) THEN 1 ELSE 0
    BY <1>1, AtOne
<1>5. e \in Bringing(s) <=> s \in Carries(e)
    BY <1>1 DEF Bringing, Carries
<1> QED
    BY <1>3, <1>4, <1>5 DEF e, t

LEMMA FlyingMore ==
    ASSUME NEW cq \in Seq(HalCmds \cup Frames), NEW cmd \in HalCmds \cup Frames, NEW s \in Streams
    PROVE  Flying(Append(cq, cmd), s) = Flying(cq, s) + (IF s \in Carries(cmd) THEN 1 ELSE 0)
<1>1. Append(cq, cmd) = cq \o <<cmd>>
    BY AppendIsConcat
<1>2. <<cmd>> \in Seq(HalCmds \cup Frames)
    OBVIOUS
<1>3. Flying(cq \o <<cmd>>, s) = Flying(cq, s) + Cardinality(At(<<cmd>>, Bringing(s)))
    BY <1>2, AtJoined DEF Flying
<1>4. Cardinality(At(<<cmd>>, Bringing(s))) = IF cmd \in Bringing(s) THEN 1 ELSE 0
    BY AtOne
<1>5. cmd \in Bringing(s) <=> s \in Carries(cmd)
    BY DEF Bringing, Carries
<1> QED
    BY <1>1, <1>3, <1>4, <1>5

LEMMA HeldTail ==
    ASSUME NEW q \in Seq(Node), q # <<>>, NEW s \in Streams
    PROVE  Held(q, s) = (IF s \in Head(q).have THEN 1 ELSE 0) + Held(Tail(q), s)
<1> DEFINE e == Head(q)
           t == Tail(q)
<1>1. q = <<e>> \o t /\ e \in Node /\ t \in Seq(Node)
    BY HeadFirst
<1> HIDE DEF e, t
<1>2. <<e>> \in Seq(Node)
    BY <1>1
<1>3. Held(q, s) = Held(<<e>>, s) + Held(t, s)
    BY <1>1, <1>2, HeldJoined
<1>4. Held(<<e>>, s) = IF s \in e.have THEN 1 ELSE 0
    BY <1>1, HeldOne
<1> QED
    BY <1>3, <1>4 DEF e, t

\* What the invariant says of the types of what is counted.
LEMMA Parts ==
    ASSUME IInv, Counted
    PROVE  /\ cmd_queue \in Seq(HalCmds \cup Frames)
           /\ ch.que \in Seq(Node) /\ cb_queue \in Seq(Node) /\ DOMAIN ch = Fields
           /\ ch.back \in [Streams -> Nat] /\ given \in Nat
           /\ Cardinality(hal) \in Nat
           /\ \A s \in Streams : /\ free[s] \in Nat /\ Lost(s) \in Nat
                                 /\ Flying(cmd_queue, s) \in Nat
                                 /\ Held(ch.que, s) \in Nat /\ Held(cb_queue, s) \in Nat
<1>1. PICK past \in [Streams -> Nat], low \in Nat : Matching(past, low)
    BY DEF IInv
<1>2. ch.que \in Seq(Node) /\ cb_queue \in Seq(Node) /\ DOMAIN ch = Fields /\ given \in Nat
    BY <1>1 DEF Matching, ChannelOK, Sorted, Coming, Sent
<1>3. cmd_queue \in Seq(HalCmds \cup Frames)
    BY DEF IInv
<1>4. Cardinality(hal) \in Nat
    BY FS_CardinalityType DEF Counted
<1>5. \A s \in Streams : Flying(cmd_queue, s) \in Nat
    BY <1>3, FlyingIs
<1>6. \A s \in Streams : Held(ch.que, s) \in Nat /\ Held(cb_queue, s) \in Nat
    BY <1>2, HeldIs
<1> QED
    BY <1>2, <1>3, <1>4, <1>5, <1>6 DEF Counted, NoBufs, Lost

LEMMA InitCounted == Init => Counted
<1> SUFFICES ASSUME Init PROVE Counted
    OBVIOUS
<1>1. /\ ch.que = <<>> /\ ch.match_cnt = 0 /\ ch.back = NoBufs
      /\ cmd_queue = <<>> /\ cb_queue = <<>> /\ hal = {} /\ free = NumBufs /\ given = 0
      /\ lost = 0
    BY DEF Init
<1>2. free \in [Streams -> Nat] /\ water_mark \in Nat /\ max_unmatched_frames \in Nat
    BY <1>1, ChannelAssumption
<1>3. IsFiniteSet(hal) /\ Cardinality(hal) = 0
    BY <1>1, FS_EmptySet
<1>4. \A H : Cardinality(At(<<>>, H)) = 0
    <2>1. \A H : At(<<>>, H) = {}
        BY DEF At
    <2> QED
        BY <2>1, FS_EmptySet
<1>5. \A s \in Streams : NumBufs[s] = Total(s)
    <2>1. \A s \in Streams : Total(s) = NumBufs[s] + 0 + 0 + 0 + 0 + 0
        BY <1>1, <1>3, <1>4 DEF Total, Flying, Held, Lost
    <2> QED
        BY <1>1, <1>2, <2>1
<1>6. Len(<<>>) = 0
    OBVIOUS
<1>7. Fits(ch)
    BY <1>1, <1>2, <1>6 DEF Fits
<1> QED
    BY <1>1, <1>2, <1>3, <1>5, <1>7 DEF Counted

LEMMA CmdThreadCounted == IInv /\ Counted /\ CmdThread => Counted'
<1> SUFFICES ASSUME IInv, Counted, CmdThread PROVE Counted'
    OBVIOUS
<1> DEFINE cmd == Head(cmd_queue)
           c == Process(ch, cmd)
<1>1. PICK past \in [Streams -> Nat], low \in Nat : Matching(past, low)
    BY DEF IInv
<1>2. /\ cmd \in HalCmds \cup Frames
      /\ cmd.type = "DATA_CB" => /\ cmd.buf.stream \in Streams /\ cmd.buf.frame_idx \in Nat
                                 /\ past[cmd.buf.stream] < cmd.buf.frame_idx
    BY <1>1, QueuedTail DEF IInv, Matching, CmdThread
<1>3. ChannelOK(ch, past, low) /\ FlashOK(ch) /\ ch.out = <<>>
    BY <1>1 DEF IInv, Matching
<1>4. /\ cmd_queue \in Seq(HalCmds \cup Frames)
      /\ ch.que \in Seq(Node) /\ cb_queue \in Seq(Node)
      /\ ch.back \in [Streams -> Nat]
      /\ Cardinality(hal) \in Nat
      /\ \A s \in Streams : /\ free[s] \in Nat /\ Lost(s) \in Nat /\ Flying(cmd_queue, s) \in Nat
                            /\ Held(ch.que, s) \in Nat /\ Held(cb_queue, s) \in Nat
    BY Parts
<1>5. /\ cmd_queue # <<>> /\ cmd_queue' = Tail(cmd_queue) /\ cb_queue' = cb_queue \o c.out
      /\ ch' = [c EXCEPT !.back = NoBufs, !.out = <<>>]
      /\ free' = [s \in Streams |-> free[s] + c.back[s]]
      /\ lost' = (IF cmd.type = "DATA_CB" /\ Contradicts(cmd.buf) THEN lost + 1 ELSE lost)
      /\ UNCHANGED <<hal, given>>
    BY DEF CmdThread
<1>6. Tail(cmd_queue) \in Seq(HalCmds \cup Frames)
    BY <1>4, <1>5, HeadTailProperties
<1>7. \A s \in Streams :
        Flying(cmd_queue, s) = (IF s \in Carries(cmd) THEN 1 ELSE 0) + Flying(Tail(cmd_queue), s)
    BY <1>4, <1>5, FlyingTail
<1> HIDE DEF cmd
<1>8. Passes(ch, c, Brings(cmd))
    BY <1>2, <1>3, <1>4, ProcessPasses
<1>9. PICK past2, low2 : ChannelOK(c, past2, low2)
    <2>1. \E low2 \in Nat : Moves(c, Seen(past, cmd), low, low2)
        BY <1>2, <1>3, ProcessOK
    <2> HIDE DEF c
    <2> QED
        BY <2>1 DEF Moves
<1> HIDE DEF c
<1>10. DOMAIN c = Fields /\ c.que \in Seq(Node) /\ c.out \in Seq(Node) /\ c.back \in [Streams -> Nat]
    BY <1>8, <1>9 DEF ChannelOK, Sorted, Passes
<1>11. ch'.que = c.que /\ ch'.match_cnt = c.match_cnt /\ ch'.back = NoBufs
    BY <1>5, <1>10 DEF Fields
<1>12. ASSUME NEW s \in Streams PROVE NumBufs[s] = Total(s)'
    <2>1. NumBufs[s] = free[s] + Lost(s) + Flying(cmd_queue, s) + Held(ch.que, s) + Held(cb_queue, s)
                       + Cardinality(hal)
        BY DEF Counted, Total
    <2>2. Total(s)' = (free[s] + c.back[s]) + Lost(s)' + Flying(Tail(cmd_queue), s) + Held(c.que, s)
                      + Held(cb_queue \o c.out, s) + Cardinality(hal)
        BY <1>5, <1>11 DEF Total
    <2>3. Held(cb_queue \o c.out, s) = Held(cb_queue, s) + Held(c.out, s)
        BY <1>4, <1>10, HeldJoined
    <2>4. c.back[s] + Held(c.que, s) + Held(c.out, s) =
            Held(ch.que, s) + (IF s \in Brings(cmd) THEN 1 ELSE 0)
        <3>1. ch.back[s] = 0
            BY DEF Counted, NoBufs
        <3>2. Kept(c, s) + Held(c.out, s) = Kept(ch, s) + (IF s \in Brings(cmd) THEN 1 ELSE 0)
            BY <1>8 DEF Passes
        <3> QED
            BY <1>4, <3>1, <3>2 DEF Kept
    <2>5. /\ Held(c.que, s) \in Nat /\ Held(c.out, s) \in Nat /\ c.back[s] \in Nat
          /\ Flying(Tail(cmd_queue), s) \in Nat
        BY <1>6, <1>10, HeldIs, FlyingIs
    <2> DEFINE one == IF s \in Carries(cmd) THEN 1 ELSE 0
               put == IF s \in Brings(cmd) THEN 1 ELSE 0
               l == Lost(s)
               l2 == Lost(s)'
    <2>8. one \in Nat /\ put \in Nat /\ l \in Nat /\ l2 + put = l + one /\ l2 \in Nat
        <3>1. lost \in Nat
            BY DEF Counted
        <3>2. CASE cmd.type = "DATA_CB" /\ Contradicts(cmd.buf)
            <4>1. Brings(cmd) = {} /\ Carries(cmd) = {Meta} /\ lost' = lost + 1
                BY <1>5, <3>2 DEF Brings, Carries, Takes, Contradicts
            <4> QED
                BY <3>1, <4>1 DEF Lost
        <3>3. CASE ~ (cmd.type = "DATA_CB" /\ Contradicts(cmd.buf))
            <4>1. Brings(cmd) = Carries(cmd) /\ lost' = lost
                BY <1>5, <3>3 DEF Brings, Carries, Takes
            <4> QED
                BY <3>1, <4>1 DEF Lost
        <3> QED
            BY <3>2, <3>3
    <2>6. /\ free[s] \in Nat /\ Cardinality(hal) \in Nat
          /\ Held(ch.que, s) \in Nat /\ Held(cb_queue, s) \in Nat
          /\ Flying(cmd_queue, s) = one + Flying(Tail(cmd_queue), s)
          /\ c.back[s] + Held(c.que, s) + Held(c.out, s) = Held(ch.que, s) + put
        BY <1>4, <1>7, <2>4
    <2> HIDE DEF one, put
    <2> DEFINE f == free[s]
               x == c.back[s]
               t == Flying(Tail(cmd_queue), s)
               h == Held(ch.que, s)
               k == Held(cb_queue, s)
               m == Held(c.que, s)
               n == Held(c.out, s)
               w == Cardinality(hal)
    <2>7. /\ f \in Nat /\ x \in Nat /\ t \in Nat /\ h \in Nat /\ k \in Nat
          /\ m \in Nat /\ n \in Nat /\ w \in Nat /\ x + m + n = h + put
          /\ NumBufs[s] = f + l + (one + t) + h + k + w
          /\ Total(s)' = (f + x) + l2 + t + m + (k + n) + w
        BY <2>1, <2>2, <2>3, <2>5, <2>6
    <2>9. one \in Nat /\ put \in Nat /\ l \in Nat /\ l2 \in Nat /\ l2 = l + one - put
        BY <2>8
    <2> HIDE DEF l, l2, f, x, t, h, k, m, n, w
    <2>10. f + x + l2 + t + m + k + n + w = f + l + one + t + h + k + w
        <3>1. x + m + n + l2 = h + l + one
            BY <2>7, <2>9
        <3>2. f + x + l2 + t + m + k + n + w = (x + m + n + l2) + f + t + k + w
            BY <2>7, <2>9
        <3> QED
            BY <2>7, <2>9, <3>1, <3>2
    <2>11. (f + x) + l2 + t + m + (k + n) + w = f + x + l2 + t + m + k + n + w
        BY <2>7, <2>9
    <2>12. f + l + (one + t) + h + k + w = f + l + one + t + h + k + w
        BY <2>7, <2>9
    <2>13. NumBufs[s] = f + l + one + t + h + k + w
        BY <2>7, <2>12
    <2>14. Total(s)' = f + x + l2 + t + m + k + n + w
        BY <2>7, <2>11
    <2> QED
        BY <2>10, <2>13, <2>14
<1>13. free' \in [Streams -> Nat]
    <2>1. \A s \in Streams : free[s] \in Nat /\ c.back[s] \in Nat
        BY <1>4, <1>10
    <2>2. \A s \in Streams : free[s] + c.back[s] \in Nat
        BY <2>1
    <2>3. free' = [s \in Streams |-> free[s] + c.back[s]]
        BY <1>5
    <2> QED
        BY <2>2, <2>3
<1>14. Fits(ch') /\ ch'.match_cnt <= water_mark
    <2>1. Fits(c) /\ c.match_cnt <= water_mark
        BY <1>8 DEF Passes, Counted
    <2> QED
        BY <1>11, <2>1 DEF Fits
<1>15. lost' \in Nat
    BY <1>5 DEF Counted
<1> QED
    BY <1>5, <1>11, <1>12, <1>13, <1>14, <1>15 DEF Counted, NoBufs

LEMMA CbThreadCounted == IInv /\ Counted /\ CbThread => Counted'
<1> SUFFICES ASSUME IInv, Counted, CbThread PROVE Counted'
    OBVIOUS
<1> DEFINE b == Head(cb_queue)
           rest == Tail(cb_queue)
<1>1. PICK past \in [Streams -> Nat], low \in Nat : Matching(past, low)
    BY DEF IInv
<1>2. /\ cb_queue # <<>> /\ cb_queue' = rest
      /\ hal' = hal \cup {b} /\ given' = b.frame_idx
      /\ UNCHANGED <<ch, cmd_queue, free, lost>>
    BY DEF CbThread
<1>3. /\ cb_queue \in Seq(Node) /\ given \in Nat /\ Cardinality(hal) \in Nat
      /\ \A s \in Streams : /\ free[s] \in Nat /\ Lost(s) \in Nat /\ Flying(cmd_queue, s) \in Nat
                            /\ Held(ch.que, s) \in Nat /\ Held(cb_queue, s) \in Nat
    BY Parts
<1>4. Coming(cb_queue, given, low)
    BY <1>1 DEF Matching
<1>5. b \in Node /\ rest \in Seq(Node) /\ b = cb_queue[1] /\ 1 \in 1 .. Len(cb_queue)
    BY <1>2, <1>3, HeadFirst, EmptySeq
<1>6. b.have = Streams /\ b.frame_idx \in Nat /\ given < b.frame_idx
    BY <1>4, <1>5 DEF Coming, Sent, Node
<1> HIDE DEF b, rest
<1>7. b \notin hal
    <2>1. \A h \in hal : h.frame_idx <= given /\ h.frame_idx \in Nat
        BY DEF Counted
    <2> QED
        BY <1>3, <1>6, <2>1
<1>8. IsFiniteSet(hal') /\ Cardinality(hal') = Cardinality(hal) + 1
    BY <1>2, <1>7, FS_AddElement DEF Counted
<1>9. ASSUME NEW h \in hal' PROVE h.frame_idx \in Nat /\ h.frame_idx <= given'
    <2>1. CASE h \in hal
        <3>1. h.frame_idx \in Nat /\ h.frame_idx <= given
            BY <2>1 DEF Counted
        <3> QED
            BY <1>2, <1>3, <1>6, <3>1
    <2>2. CASE h = b
        BY <1>2, <1>6, <2>2
    <2> QED
        BY <1>2, <2>1, <2>2
<1>10. ASSUME NEW s \in Streams PROVE NumBufs[s] = Total(s)'
    <2>1. NumBufs[s] = free[s] + Lost(s) + Flying(cmd_queue, s) + Held(ch.que, s) + Held(cb_queue, s)
                       + Cardinality(hal)
        BY DEF Counted, Total
    <2>2. Total(s)' = free[s] + Lost(s) + Flying(cmd_queue, s) + Held(ch.que, s) + Held(rest, s)
                      + Cardinality(hal')
        BY <1>2 DEF Total, Lost
    <2>3. Held(cb_queue, s) = 1 + Held(rest, s)
        BY <1>2, <1>3, <1>6, HeldTail DEF b, rest
    <2>4. Held(rest, s) \in Nat
        BY <1>5, HeldIs
    <2>5. /\ free[s] \in Nat /\ Lost(s) \in Nat /\ Flying(cmd_queue, s) \in Nat /\ Held(ch.que, s) \in Nat
          /\ Cardinality(hal) \in Nat
        BY <1>3
    <2> QED
        BY <1>8, <2>1, <2>2, <2>3, <2>4, <2>5
<1> QED
    BY <1>2, <1>8, <1>9, <1>10 DEF Counted, Fits, NoBufs

LEMMA DataNotifyCounted ==
    ASSUME IInv, Counted, NEW s \in Streams, DataNotify(s)
    PROVE  Counted'
<1>1. PICK i \in latest[s] + 1 .. MaxFrame, m \in Contents :
        Enqueue([type |-> "DATA_CB", buf |-> [stream |-> s, frame_idx |-> i, meta |-> m]])
    BY DEF DataNotify
<1> DEFINE cmd == [type |-> "DATA_CB", buf |-> [stream |-> s, frame_idx |-> i, meta |-> m]]
<1>2. /\ free[s] > 0 /\ free' = [free EXCEPT ![s] = @ - 1]
      /\ UNCHANGED <<ch, cb_queue, hal, given, lost>>
    BY DEF DataNotify
<1>3. i \in Nat
    BY <1>1 DEF IInv
<1>4. cmd \in HalCmds \cup Frames /\ Carries(cmd) = {s} /\ cmd_queue' = Append(cmd_queue, cmd)
    BY <1>1, <1>3 DEF Frames, Carries, Enqueue
<1> HIDE DEF cmd
<1>5. /\ cmd_queue \in Seq(HalCmds \cup Frames) /\ Cardinality(hal) \in Nat
      /\ \A o \in Streams : /\ free[o] \in Nat /\ Lost(o) \in Nat /\ Flying(cmd_queue, o) \in Nat
                            /\ Held(ch.que, o) \in Nat /\ Held(cb_queue, o) \in Nat
    BY Parts
<1>6. free \in [Streams -> Nat]
    BY DEF Counted
<1>7. free' \in [Streams -> Nat]
      /\ \A o \in Streams : free[o] = free'[o] + (IF o \in {s} THEN 1 ELSE 0)
    BY <1>2, <1>6
<1>8. ASSUME NEW o \in Streams PROVE NumBufs[o] = Total(o)'
    <2> DEFINE one == IF o \in {s} THEN 1 ELSE 0
    <2>1. NumBufs[o] = free[o] + Lost(o) + Flying(cmd_queue, o) + Held(ch.que, o) + Held(cb_queue, o)
                       + Cardinality(hal)
        BY DEF Counted, Total
    <2>2. Total(o)' = free'[o] + Lost(o) + Flying(Append(cmd_queue, cmd), o) + Held(ch.que, o)
                      + Held(cb_queue, o) + Cardinality(hal)
        BY <1>2, <1>4 DEF Total, Lost
    <2>3. Flying(Append(cmd_queue, cmd), o) = Flying(cmd_queue, o) + one
        BY <1>4, <1>5, FlyingMore
    <2>4. free[o] = free'[o] + one /\ one \in Nat /\ free'[o] \in Nat
        BY <1>7
    <2>5. /\ Flying(cmd_queue, o) \in Nat /\ Lost(o) \in Nat /\ Held(ch.que, o) \in Nat
          /\ Held(cb_queue, o) \in Nat /\ Cardinality(hal) \in Nat
        BY <1>5
    <2> HIDE DEF one
    <2> QED
        BY <2>1, <2>2, <2>3, <2>4, <2>5
<1> QED
    BY <1>2, <1>7, <1>8 DEF Counted, Fits, NoBufs

LEMMA CommandCounted ==
    ASSUME IInv, Counted, NEW cmd \in HalCmds, Command(cmd)
    PROVE  Counted'
<1>1. /\ cmd_queue' = Append(cmd_queue, cmd)
      /\ UNCHANGED <<ch, cb_queue, hal, free, given, lost>>
    BY DEF Command, Enqueue
<1>2. Carries(cmd) = {}
    BY ChannelAssumption DEF Carries
<1>3. cmd_queue \in Seq(HalCmds \cup Frames)
      /\ \A s \in Streams : Flying(cmd_queue, s) \in Nat
    BY Parts
<1>4. ASSUME NEW s \in Streams PROVE NumBufs[s] = Total(s)'
    <2>1. Flying(Append(cmd_queue, cmd), s) = Flying(cmd_queue, s)
        <3>1. Flying(Append(cmd_queue, cmd), s) =
                Flying(cmd_queue, s) + (IF s \in Carries(cmd) THEN 1 ELSE 0)
            BY <1>3, FlyingMore
        <3>2. Flying(cmd_queue, s) \in Nat
            BY <1>3
        <3> QED
            BY <1>2, <3>1, <3>2
    <2>2. Total(s)' = Total(s)
        BY <1>1, <2>1 DEF Total, Lost
    <2> QED
        BY <2>2 DEF Counted
<1> QED
    BY <1>1, <1>4 DEF Counted, Fits, NoBufs

LEMMA BufDoneCounted ==
    ASSUME IInv, Counted, NEW b \in hal, BufDone(b)
    PROVE  Counted'
<1>1. /\ hal' = hal \ {b} /\ UNCHANGED <<ch, cmd_queue, cb_queue, given, lost>>
      /\ free' = [s \in Streams |-> IF s \in b.have THEN free[s] + 1 ELSE free[s]]
    BY DEF BufDone
<1>2. b.have = Streams
    BY DEF IInv
<1>3. /\ Cardinality(hal) \in Nat
      /\ \A s \in Streams : /\ free[s] \in Nat /\ Lost(s) \in Nat /\ Flying(cmd_queue, s) \in Nat
                            /\ Held(ch.que, s) \in Nat /\ Held(cb_queue, s) \in Nat
    BY Parts
<1>4. IsFiniteSet(hal') /\ Cardinality(hal') = Cardinality(hal) - 1
    BY <1>1, FS_RemoveElement DEF Counted
<1>5. free' \in [Streams -> Nat] /\ \A s \in Streams : free'[s] = free[s] + 1
    BY <1>1, <1>2, <1>3
<1>6. ASSUME NEW s \in Streams PROVE NumBufs[s] = Total(s)'
    <2>1. NumBufs[s] = free[s] + Lost(s) + Flying(cmd_queue, s) + Held(ch.que, s) + Held(cb_queue, s)
                       + Cardinality(hal)
        BY DEF Counted, Total
    <2>2. Total(s)' = free'[s] + Lost(s) + Flying(cmd_queue, s) + Held(ch.que, s) + Held(cb_queue, s)
                      + Cardinality(hal')
        BY <1>1 DEF Total, Lost
    <2>3. /\ free[s] \in Nat /\ Lost(s) \in Nat /\ Flying(cmd_queue, s) \in Nat /\ Held(ch.que, s) \in Nat
          /\ Held(cb_queue, s) \in Nat /\ Cardinality(hal) \in Nat /\ free'[s] = free[s] + 1
        BY <1>3, <1>5
    <2> QED
        BY <1>4, <2>1, <2>2, <2>3
<1> QED
    BY <1>1, <1>4, <1>5, <1>6 DEF Counted, Fits, NoBufs

LEMMA AlwaysCounted == Spec => [](IInv /\ Counted)
<1>1. IInv /\ Counted /\ [Next]_vars => Counted'
    <2> SUFFICES ASSUME IInv, Counted, [Next]_vars PROVE Counted'
        OBVIOUS
    <2>1. CASE CmdThread
        BY <2>1, CmdThreadCounted
    <2>2. CASE CbThread
        BY <2>2, CbThreadCounted
    <2>3. CASE \E s \in Streams : DataNotify(s)
        BY <2>3, DataNotifyCounted
    <2>4. CASE \E cmd \in HalCmds : Command(cmd)
        BY <2>4, CommandCounted
    <2>5. CASE \E b \in hal : BufDone(b)
        BY <2>5, BufDoneCounted
    <2>6. CASE UNCHANGED vars
        BY <2>6 DEF vars, Counted, Total, Lost, Fits, NoBufs
    <2> QED
        BY <2>1, <2>2, <2>3, <2>4, <2>5, <2>6 DEF Next
<1> QED
    BY <1>1, InitCounted, Invariant, PTL DEF Spec

(* For any number of streams, frames and buffers, and any order of         *)
(* commands: no buffer is given back twice, and none is lost but one for   *)
(* each contradictory metadata frame.  The others of each stream are in    *)
(* the driver, in a command, in the queue, or with the HAL.                *)
THEOREM NothingLost == Spec => []BuffersAccounted
<1>1. IInv /\ Counted => BuffersAccounted
    <2> SUFFICES ASSUME IInv, Counted, NEW s \in Streams
                 PROVE  NumBufs[s] =
                            free[s] + Lost(s)
                            + Cardinality({p \in DOMAIN cmd_queue :
                                  cmd_queue[p].type = "DATA_CB" /\ cmd_queue[p].buf.stream = s})
                            + Cardinality({p \in DOMAIN ch.que : s \in ch.que[p].have})
                            + Cardinality({p \in DOMAIN cb_queue : s \in cb_queue[p].have})
                            + Cardinality({b \in hal : s \in b.have})
        BY DEF BuffersAccounted
    <2>1. /\ cmd_queue \in Seq(HalCmds \cup Frames)
          /\ ch.que \in Seq(Node) /\ cb_queue \in Seq(Node)
        BY Parts
    <2>2. {b \in hal : s \in b.have} = hal
        BY DEF IInv
    <2>3. /\ Cardinality({p \in DOMAIN cmd_queue :
                cmd_queue[p].type = "DATA_CB" /\ cmd_queue[p].buf.stream = s})
                = Flying(cmd_queue, s)
          /\ Cardinality({p \in DOMAIN ch.que : s \in ch.que[p].have}) = Held(ch.que, s)
          /\ Cardinality({p \in DOMAIN cb_queue : s \in cb_queue[p].have}) = Held(cb_queue, s)
        BY <2>1, FlyingIs, HeldIs
    <2>4. NumBufs[s] = Total(s)
        BY DEF Counted
    <2> QED
        BY <2>2, <2>3, <2>4 DEF Total
<1> QED
    BY <1>1, AlwaysCounted, PTL

(* The queue alone never stops a stream that has more buffers than the     *)
(* queue keeps back, not counting those of the metadata stream that        *)
(* contradictory frames took.                                              *)
THEOREM StreamsGoOn == Spec => []NeverStarved
<1>1. IInv /\ Counted => NeverStarved
    <2> SUFFICES ASSUME IInv, Counted, cmd_queue = <<>>, cb_queue = <<>>, hal = {},
                        NEW s \in Streams,
                        NumBufs[s] > water_mark + max_unmatched_frames + 1 + Lost(s)
                 PROVE  free[s] > 0
        BY DEF NeverStarved
    <2>1. ch.que \in Seq(Node) /\ free[s] \in Nat /\ Lost(s) \in Nat
        BY Parts
    <2>2. \A H : Cardinality(At(<<>>, H)) = 0
        <3>1. \A H : At(<<>>, H) = {}
            BY DEF At
        <3> QED
            BY <3>1, FS_EmptySet
    <2>3. NumBufs[s] = free[s] + Lost(s) + 0 + Held(ch.que, s) + 0 + 0
        <3>1. NumBufs[s] = Total(s)
            BY DEF Counted
        <3>2. Flying(cmd_queue, s) = 0 /\ Held(cb_queue, s) = 0 /\ Cardinality(hal) = 0
            BY <2>2, FS_EmptySet DEF Flying, Held
        <3> QED
            BY <3>1, <3>2 DEF Total
    <2>4. Held(ch.que, s) \in Nat /\ Held(ch.que, s) <= Len(ch.que)
        BY <2>1, HeldIs
    <2>5. Len(ch.que) <= ch.match_cnt + max_unmatched_frames + 1 /\ ch.match_cnt <= water_mark
        BY DEF Counted, Fits
    <2>6. Len(ch.que) \in Nat /\ ch.match_cnt \in Nat
        <3>1. PICK past \in [Streams -> Nat], low \in Nat : Matching(past, low)
            BY DEF IInv
        <3>2. Sorted(ch.que, ch.match_cnt)
            BY <3>1 DEF Matching, ChannelOK
        <3> QED
            BY <3>2, ReadyIs
    <2>7. water_mark \in Nat /\ max_unmatched_frames \in Nat
        BY ChannelAssumption
    <2> DEFINE f == free[s]
               l == Lost(s)
               n == Held(ch.que, s)
               k == Len(ch.que)
               most == water_mark + max_unmatched_frames + 1
    <2>10. most \in Nat /\ k <= most
        <3> DEFINE c == ch.match_cnt
        <3> HIDE DEF k, c
        <3>1. k <= c + max_unmatched_frames + 1 /\ c <= water_mark /\ k \in Nat /\ c \in Nat
            BY <2>5, <2>6 DEF k, c
        <3> QED
            BY <2>7, <3>1
    <2>8. /\ f \in Nat /\ l \in Nat /\ n \in Nat /\ k \in Nat /\ most \in Nat
          /\ NumBufs[s] = f + l + n /\ NumBufs[s] > most + l
          /\ n <= k /\ k <= most
        <3>1. f \in Nat /\ l \in Nat /\ n \in Nat /\ k \in Nat /\ n <= k
            BY <2>1, <2>4, <2>6
        <3>2. NumBufs[s] > most + l
            OBVIOUS
        <3> HIDE DEF f, l, n, k, most
        <3>3. NumBufs[s] = f + l + 0 + n + 0 + 0
            BY <2>3 DEF f, l, n
        <3> QED
            BY <2>10, <3>1, <3>2, <3>3
    <2> HIDE DEF f, l, n, k, most
    <2>9. f > 0
        BY <2>8
    <2> QED
        BY <2>9 DEF f
<1> QED
    BY <1>1, AlwaysCounted, PTL
=============================================================================
